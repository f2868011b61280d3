---------------------------- MODULE SwapperProofs ----------------------------
(***************************************************************************)
(* The swappers and the swaps they wait for, for any set of swaps and any  *)
(* number of blocks and restarts.                                          *)
(***************************************************************************)
EXTENDS Swapper, TLAPS

SwapperTypes ==
    /\ pending \subseteq Uuid
    /\ DOMAIN answer = Uuid
    /\ row \in [Swappers -> [swapUuid : Uuid \cup {"none"}, blocked_until : Int, forget_after : Int]]
    /\ request \in [Uuid -> [by : Swappers \cup {"none"}, at : Nat]]
    /\ height \in Nat

(* The member follows the chain: a swap is requested at its height.        *)
Follows == blockheight \in {-1, height}

(* The swap a row waits for is forgotten swap_timeout blocks after its     *)
(* request, and a pending swap that no row waits for is as old as that.    *)
Timely ==
    /\ \A s \in Swappers : row[s].swapUuid # "none" =>
          row[s].forget_after = request[row[s].swapUuid].at + swap_timeout
    /\ \A u \in pending :
          /\ request[u].by \in Swappers
          /\ \/ row[request[u].by].swapUuid = u
             \/ request[u].at + swap_timeout < height

SwapperInv ==
    SwapperTypes /\ Follows /\ Timely /\ WaitsForPending /\ OneInFlightForTimeout

LEMMA SwapperInitInv == SwapperInit => SwapperInv
<1> SUFFICES ASSUME SwapperInit PROVE SwapperInv
  OBVIOUS
<1> USE SwapperBlocksAssumption DEF SwapperInit, ServiceInit
<1>1. SwapperTypes
  BY DEF SwapperTypes
<1>2. Follows /\ Timely /\ WaitsForPending /\ OneInFlightForTimeout
  BY DEF Follows, Timely, WaitsForPending, OneInFlightForTimeout
<1> QED
  BY <1>1, <1>2 DEF SwapperInv

(* Steps that only let blocks pass, or change what no row depends on.      *)
LEMMA PassingInv ==
    ASSUME SwapperInv, UNCHANGED <<pending, answer, row, request>>,
           height' \in Nat, height' >= height, Follows'
    PROVE  SwapperInv'
<1>1. SwapperTypes'
  BY DEF SwapperInv, SwapperTypes
<1>2. Timely'
  <2>1. ASSUME NEW u \in pending, request[u].at + swap_timeout < height
        PROVE  request[u].at + swap_timeout < height'
    BY <2>1, SwapperBlocksAssumption DEF SwapperInv, SwapperTypes
  <2> QED
    BY <2>1 DEF SwapperInv, Timely
<1>3. WaitsForPending' /\ OneInFlightForTimeout'
  BY DEF SwapperInv, WaitsForPending, OneInFlightForTimeout, Apart
<1> QED
  BY <1>1, <1>2, <1>3 DEF SwapperInv

(* A row is forgotten only when its swap is old enough.                    *)
LEMMA ForgetInv == ASSUME SwapperInv, NEW s \in Swappers, ForgetOnBlock(s) PROVE SwapperInv'
<1> USE SwapperBlocksAssumption
<1>1. CASE row[s].forget_after < blockheight
  <2>1. /\ row' = [row EXCEPT ![s] = [swapUuid |-> "none", forget_after |-> Never,
                                    blocked_until |-> @.blocked_until]]
        /\ UNCHANGED <<pending, answer, request, height, blockheight>>
    BY <1>1 DEF ForgetOnBlock, serviceVars
  <2>2. SwapperTypes'
    <3> DEFINE Row == [swapUuid : Uuid \cup {"none"}, blocked_until : Int, forget_after : Int]
    <3>1. row[s] \in Row /\ row \in [Swappers -> Row]
      BY DEF SwapperInv, SwapperTypes
    <3>2. [swapUuid |-> "none", blocked_until |-> row[s].blocked_until,
           forget_after |-> Never] \in Row
      BY <3>1
    <3>3. row' \in [Swappers -> Row]
      BY <3>1, <3>2, <2>1
    <3> QED
      BY <3>3, <2>1 DEF SwapperInv, SwapperTypes
  <2>3. /\ \A t \in Swappers \ {s} : row'[t] = row[t]
        /\ row'[s].swapUuid = "none"
    BY <2>1 DEF SwapperInv, SwapperTypes
  <2>4. row[s].swapUuid # "none" =>
           request[row[s].swapUuid].at + swap_timeout < height
    BY <1>1 DEF SwapperInv, SwapperTypes, Timely, Follows
  <2>5. Timely'
    <3>1. ASSUME NEW t \in Swappers, row'[t].swapUuid # "none"
          PROVE  row'[t].forget_after = request'[row'[t].swapUuid].at + swap_timeout
      BY <3>1, <2>1, <2>3 DEF SwapperInv, Timely
    <3>2. ASSUME NEW u \in pending
          PROVE  /\ request[u].by \in Swappers
                 /\ \/ row'[request[u].by].swapUuid = u
                    \/ request[u].at + swap_timeout < height
      <4>1. u # "none" /\ request[u].by \in Swappers
        BY DEF SwapperInv, SwapperTypes, Timely
      <4>2. CASE request[u].by = s
        BY <4>1, <4>2, <2>4 DEF SwapperInv, Timely
      <4>3. CASE request[u].by # s
        BY <4>1, <4>3, <2>3 DEF SwapperInv, Timely
      <4> QED
        BY <4>1, <4>2, <4>3
    <3> QED
      BY <3>1, <3>2, <2>1 DEF Timely
  <2>6. WaitsForPending'
    <3>1. UNCHANGED <<pending, request>>
      BY <2>1
    <3> QED
      BY <3>1, <2>3 DEF SwapperInv, WaitsForPending
  <2>7. OneInFlightForTimeout' /\ Follows'
    BY <2>1 DEF SwapperInv, OneInFlightForTimeout, Apart, Follows
  <2> QED
    BY <2>2, <2>5, <2>6, <2>7 DEF SwapperInv
<1>2. CASE ~(row[s].forget_after < blockheight)
  <2>1. UNCHANGED <<pending, answer, row, request, height, blockheight>>
    BY <1>2 DEF ForgetOnBlock, serviceVars
  <2> QED
    BY <2>1, PassingInv DEF SwapperInv, SwapperTypes, Follows
<1> QED
  BY <1>1, <1>2

LEMMA DeclineInv == ASSUME SwapperInv, NEW s \in Swappers, MaySwap(s), Decline(s) PROVE SwapperInv'
<1> USE SwapperBlocksAssumption
<1>1. /\ row' = [row EXCEPT ![s].blocked_until = blockheight + ignored_blocks]
      /\ UNCHANGED <<pending, answer, request, height, blockheight>>
  BY DEF Decline, serviceVars
<1>2. SwapperTypes'
  BY <1>1 DEF SwapperInv, SwapperTypes, Follows
<1>3. \A t \in Swappers : /\ row'[t].swapUuid = row[t].swapUuid
                          /\ row'[t].forget_after = row[t].forget_after
  BY <1>1 DEF SwapperInv, SwapperTypes
<1>4. Timely' /\ WaitsForPending'
  BY <1>1, <1>3 DEF SwapperInv, Timely, WaitsForPending
<1>5. OneInFlightForTimeout' /\ Follows'
  BY <1>1 DEF SwapperInv, OneInFlightForTimeout, Apart, Follows
<1> QED
  BY <1>2, <1>4, <1>5 DEF SwapperInv

(* A request is made by a swapper that waits for no swap: whatever else of *)
(* it is pending is older than the timeout.                                *)
LEMMA RequestInv ==
    ASSUME SwapperInv, NEW s \in Swappers, NEW u \in Uuid, MaySwap(s), RequestSwap(s, u)
    PROVE  SwapperInv'
<1> USE SwapperBlocksAssumption
<1>1. /\ u \notin pending /\ pending' = pending \cup {u} /\ answer' = answer
      /\ row' = [row EXCEPT ![s] = [swapUuid |-> u, blocked_until |-> blockheight + ignored_blocks,
                                    forget_after |-> blockheight + swap_timeout]]
      /\ request' = [request EXCEPT ![u] = [by |-> s, at |-> height]]
      /\ UNCHANGED <<blockheight, height>>
  BY DEF RequestSwap, Accept
<1>2. blockheight = height /\ row[s].swapUuid = "none"
  BY DEF MaySwap, SwapperInv, Follows
<1>3. SwapperTypes'
  BY <1>1, <1>2 DEF SwapperInv, SwapperTypes
<1>4. /\ request'[u].by = s /\ request'[u].at = height
      /\ \A v \in pending : request'[v] = request[v] /\ v # u
  BY <1>1 DEF SwapperInv, SwapperTypes
<1>5. /\ row'[s].swapUuid = u /\ row'[s].forget_after = height + swap_timeout
      /\ \A t \in Swappers \ {s} : row'[t] = row[t]
  BY <1>1, <1>2 DEF SwapperInv, SwapperTypes
<1>6. \A v \in pending : request[v].by = s => request[v].at + swap_timeout < height
  BY <1>2 DEF SwapperInv, SwapperTypes, Timely
<1>7. Timely'
  <2>1. ASSUME NEW t \in Swappers, row'[t].swapUuid # "none"
        PROVE  row'[t].forget_after = request'[row'[t].swapUuid].at + swap_timeout
    <3>1. CASE t = s
      BY <3>1, <1>4, <1>5
    <3>2. CASE t # s
      BY <3>2, <2>1, <1>4, <1>5 DEF SwapperInv, Timely, WaitsForPending
    <3> QED
      BY <3>1, <3>2
  <2>2. ASSUME NEW v \in pending'
        PROVE  /\ request'[v].by \in Swappers
               /\ \/ row'[request'[v].by].swapUuid = v
                  \/ request'[v].at + swap_timeout < height'
    <3>1. CASE v = u
      BY <3>1, <1>4, <1>5
    <3>2. CASE v \in pending
      BY <3>2, <1>1, <1>4, <1>5, <1>6 DEF SwapperInv, Timely
    <3> QED
      BY <3>1, <3>2, <2>2, <1>1
  <2> QED
    BY <2>1, <2>2 DEF Timely
<1>8. WaitsForPending'
  BY <1>1, <1>4, <1>5 DEF SwapperInv, WaitsForPending
<1>9. OneInFlightForTimeout'
  <2> SUFFICES ASSUME NEW v \in pending', NEW w \in pending', v # w,
                      request'[v].by = request'[w].by
               PROVE  Apart(v, w, swap_timeout)'
    BY DEF OneInFlightForTimeout
  <2>1. CASE v \in pending /\ w \in pending
    BY <2>1, <1>4 DEF SwapperInv, OneInFlightForTimeout, Apart
  <2>2. CASE v = u
    BY <2>2, <1>1, <1>4, <1>6 DEF Apart
  <2>3. CASE w = u
    BY <2>3, <1>1, <1>4, <1>6 DEF Apart
  <2> QED
    BY <2>1, <2>2, <2>3, <1>1
<1>10. Follows'
  BY <1>1 DEF SwapperInv, Follows
<1> QED
  BY <1>3, <1>7, <1>8, <1>9, <1>10 DEF SwapperInv

LEMMA TriggerInv ==
    ASSUME SwapperInv, NEW s \in Swappers, NEW ok, NEW amount, trigger_swap(s, ok, amount)
    PROVE  SwapperInv'
<1>1. CASE UNCHANGED <<serviceVars, row, blockheight, forgetting, height, restarts, request>>
  BY <1>1, PassingInv DEF serviceVars, SwapperInv, SwapperTypes, Follows
<1>2. CASE MaySwap(s) /\ \E u \in Uuid : RequestSwap(s, u)
  BY <1>2, RequestInv
<1>3. CASE MaySwap(s) /\ Decline(s)
  BY <1>3, DeclineInv
<1> QED
  BY <1>1, <1>2, <1>3 DEF trigger_swap

(* The response frees the one row that waits for the swap.                 *)
LEMMA RespondInv ==
    ASSUME SwapperInv, NEW u \in Uuid, NEW r \in {"success", "failed"}, RespondSwap(u, r)
    PROVE  SwapperInv'
<1> USE SwapperBlocksAssumption
<1>1. /\ pending' = pending \ {u} /\ answer' = [answer EXCEPT ![u] = r]
      /\ row' = OnSwapResponse(u, r)
      /\ UNCHANGED <<blockheight, height, request>>
  BY DEF RespondSwap, Answer
<1>2. \A s \in Swappers : row[s].swapUuid # u => row'[s] = row[s]
  BY <1>1 DEF OnSwapResponse
<1>3. \A s \in Swappers : row[s].swapUuid = u =>
         /\ row'[s].swapUuid = "none"
         /\ row'[s] \in [swapUuid : Uuid \cup {"none"}, blocked_until : Int, forget_after : Int]
  BY <1>1 DEF OnSwapResponse, SwapperInv, SwapperTypes, Follows
<1>4. SwapperTypes'
  <2>1. row' \in [Swappers -> [swapUuid : Uuid \cup {"none"}, blocked_until : Int,
                               forget_after : Int]]
    <3>1. row' = [s \in Swappers |-> row'[s]]
      BY <1>1 DEF OnSwapResponse
    <3>2. \A s \in Swappers : row'[s] \in [swapUuid : Uuid \cup {"none"}, blocked_until : Int,
                                           forget_after : Int]
      BY <1>2, <1>3 DEF SwapperInv, SwapperTypes
    <3> QED
      BY <3>1, <3>2
  <2> QED
    BY <2>1, <1>1 DEF SwapperInv, SwapperTypes
<1>5. Timely'
  BY <1>1, <1>2, <1>3 DEF SwapperInv, Timely
<1>6. WaitsForPending'
  BY <1>1, <1>2, <1>3 DEF SwapperInv, WaitsForPending
<1>7. OneInFlightForTimeout' /\ Follows'
  BY <1>1 DEF SwapperInv, OneInFlightForTimeout, Apart, Follows
<1> QED
  BY <1>4, <1>5, <1>6, <1>7 DEF SwapperInv

LEMMA SwapperNextInv == SwapperInv /\ [SwapperStep]_swapVars => SwapperInv'
<1> SUFFICES ASSUME SwapperInv, [SwapperStep]_swapVars PROVE SwapperInv'
  OBVIOUS
<1> USE SwapperBlocksAssumption
<1>1. CASE SwapperBlock
  BY <1>1, PassingInv DEF SwapperBlock, serviceVars, SwapperInv, SwapperTypes, Follows
<1>2. CASE SwapperFirstBlock
  BY <1>2, PassingInv DEF SwapperFirstBlock, serviceVars, SwapperInv, SwapperTypes, Follows
<1>3. CASE SwapperRestart
  BY <1>3, PassingInv DEF SwapperRestart, serviceVars, SwapperInv, SwapperTypes, Follows
<1>4. ASSUME NEW s \in Swappers, ForgetOnBlock(s) PROVE SwapperInv'
  BY <1>4, ForgetInv
<1>5. ASSUME NEW fees \in {"low", "high"}, OnchainFee(fees) PROVE SwapperInv'
  BY <1>5, PassingInv DEF OnchainFee, serviceVars, SwapperInv, SwapperTypes, Follows
<1>6. ASSUME NEW channels \in Listings, ListpeersResult(channels) PROVE SwapperInv'
  <2> DEFINE recv == SumActive([i \in DOMAIN channels |-> receivable(channels[i])], channels)
             send == SumActive([i \in DOMAIN channels |-> sendable(channels[i])], channels)
             quiet == UNCHANGED <<serviceVars, row, blockheight, forgetting, height, restarts,
                                  request>>
             ok == fees_low'["NodeBalanceSwapper"] = "low" \/ 1000 * recv <= 25 * (recv + send)
             want == (2 * FlooredMinus(send, recv)) \div 3
  <2>1. quiet \/ trigger_swap("NodeBalanceSwapper", ok, want)
    BY <1>6 DEF ListpeersResult
  <2>2. CASE quiet
    BY <2>2, PassingInv DEF serviceVars, SwapperInv, SwapperTypes, Follows
  <2>3. CASE trigger_swap("NodeBalanceSwapper", ok, want)
    <3> HIDE DEF ok, want
    <3> QED
      BY <2>3, TriggerInv DEF Swappers
  <2> QED
    BY <2>1, <2>2, <2>3
<1>7. ASSUME NEW needed \in Needs, NeedsOnchainFunds(needed) PROVE SwapperInv'
  <2> DEFINE s == "NeedsOnchainFundsSwapper"
             ok == fees_low[s] = "low" /\ needed <= max_needed
             want == (needed * 112) \div 100
  <2>1. trigger_swap(s, ok, want)
    BY <1>7 DEF NeedsOnchainFunds
  <2> HIDE DEF ok, want
  <2> QED
    BY <2>1, TriggerInv DEF Swappers
<1>8. ASSUME NEW u \in Uuid, NEW r \in {"success", "failed"}, RespondSwap(u, r) PROVE SwapperInv'
  BY <1>8, RespondInv
<1>9. CASE UNCHANGED swapVars
  BY <1>9, PassingInv DEF swapVars, swapperVars, serviceVars, SwapperInv, SwapperTypes, Follows
<1> QED
  BY <1>1, <1>2, <1>3, <1>4, <1>5, <1>6, <1>7, <1>8, <1>9 DEF SwapperStep

LEMMA SwapperInvAlways == SwapperSpec => []SwapperInv
<1>1. SwapperInit => SwapperInv
  BY SwapperInitInv
<1>2. SwapperInv /\ [SwapperStep]_swapVars => SwapperInv'
  BY SwapperNextInv
<1> QED
  BY <1>1, <1>2, PTL DEF SwapperSpec

(* A row of ModG::Swapper names a swap that the SwapManager still has and  *)
(* that this swapper requested, over any number of restarts.               *)
THEOREM WaitsForPendingAlways == SwapperSpec => []WaitsForPending
<1>1. SwapperInv => WaitsForPending
  BY DEF SwapperInv
<1> QED
  BY <1>1, SwapperInvAlways, PTL

(* Swapper.hpp's "only one swap in-flight at a time", as far as            *)
(* Swapper::on_block lets it hold: a second one is requested more than     *)
(* swap_timeout blocks after the first.                                    *)
THEOREM OneInFlightForTimeoutAlways == SwapperSpec => []OneInFlightForTimeout
<1>1. SwapperInv => OneInFlightForTimeout
  BY DEF SwapperInv
<1> QED
  BY <1>1, SwapperInvAlways, PTL
=============================================================================
