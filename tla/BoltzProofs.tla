----------------------------- MODULE BoltzProofs -----------------------------
(***************************************************************************)
(* The keys of a swap that may be paid and the claim of its lockup, for    *)
(* any set of swaps, any offers, timeouts and statuses of the server and   *)
(* any number of restarts.                                                 *)
(***************************************************************************)
EXTENDS Boltz, TLAPS

SetupPlaces == {"idle", "createswap", "save", "created", "done"}
CheckPlaces == {"none", "swapstatus", "delete_swap", "fetch", "broadcast", "update"}
Setups == [pc : SetupPlaces, at : Int, timeout : Int, onchain : Int]
Rows == [swapId : Swaps, timeoutBlockheight : Int, onchainAmount : Int, lockedUp : BOOLEAN]

BoltzTypes ==
    /\ tip \in Nat /\ service_height \in Int
    /\ setups \in [Swaps -> Setups]
    /\ creation \in [Swaps -> {"none", "failed", "invoice"}]
    /\ checks \in [Swaps -> CheckPlaces]
    /\ rsub \subseteq Rows

(* The member is never ahead of the chain.                                 *)
Behind == service_height <= tip

HasRow(s) == \E r \in rsub : r.swapId = s /\ r.timeoutBlockheight = setups[s].timeout

Kept(s) == HasRow(s) \/ s \in over \/ tip >= setups[s].timeout

(* The row is committed before the invoice leaves, and from then on the    *)
(* setup is over; a row is deleted only for a swap the server called over. *)
KeyFirst ==
    \A s \in Swaps :
       /\ creation[s] = "invoice" => setups[s].pc = "done"
       /\ creation[s] = "invoice" \/ setups[s].pc = "created" => Kept(s)
       /\ checks[s] = "delete_swap" => s \in over

KeyInv == BoltzTypes /\ Behind /\ KeyFirst

LEMMA BoltzInitInv == BoltzInit => KeyInv
<1> SUFFICES ASSUME BoltzInit PROVE KeyInv
  OBVIOUS
<1>1. BoltzTypes
  BY DEF BoltzInit, BoltzTypes, Setups, SetupPlaces, CheckPlaces, NoSetup
<1>2. Behind /\ KeyFirst
  BY DEF BoltzInit, Behind, KeyFirst, NoSetup
<1> QED
  BY <1>1, <1>2 DEF KeyInv

(* Steps that leave the setups, the creations and the table alone, and     *)
(* start no deletion that the server did not call for.                     *)
LEMMA QuietInv ==
    ASSUME KeyInv, UNCHANGED <<setups, creation, rsub>>,
           tip' \in Nat, tip' >= tip, service_height' \in Int, Behind',
           over \subseteq over', checks' \in [Swaps -> CheckPlaces],
           \A s \in Swaps : checks'[s] = "delete_swap" => s \in over'
    PROVE  KeyInv'
<1>1. BoltzTypes'
  BY DEF KeyInv, BoltzTypes
<1>2. \A s \in Swaps : Kept(s) => Kept(s)'
  <2> TAKE s \in Swaps
  <2>1. setups[s].timeout \in Int
    BY DEF KeyInv, BoltzTypes, Setups
  <2>2. HasRow(s) => HasRow(s)'
    BY DEF HasRow
  <2> QED
    BY <2>1, <2>2 DEF Kept, KeyInv, BoltzTypes
<1>3. KeyFirst'
  BY <1>2 DEF KeyInv, KeyFirst
<1> QED
  BY <1>1, <1>3 DEF KeyInv

(* Steps of one setup, which changes the timeout of no other.              *)
LEMMA SetupInv ==
    ASSUME KeyInv, NEW s \in Swaps, NEW setup \in Setups,
           setups' = [setups EXCEPT ![s] = setup],
           creation' \in [Swaps -> {"none", "failed", "invoice"}],
           \A t \in Swaps \ {s} : creation'[t] = creation[t],
           UNCHANGED <<tip, service_height, checks, over>>,
           rsub \subseteq rsub', rsub' \subseteq Rows,
           creation'[s] = "invoice" => setup.pc = "done",
           creation'[s] = "invoice" \/ setup.pc = "created" => Kept(s)'
    PROVE  KeyInv'
<1>1. BoltzTypes'
  BY DEF KeyInv, BoltzTypes
<1>2. setups'[s] = setup /\ \A t \in Swaps \ {s} : setups'[t] = setups[t]
  BY DEF KeyInv, BoltzTypes
<1>3. \A t \in Swaps \ {s} : Kept(t) => Kept(t)'
  <2> TAKE t \in Swaps \ {s}
  <2>1. HasRow(t) => HasRow(t)'
    BY <1>2 DEF HasRow
  <2> QED
    BY <1>2, <2>1 DEF Kept
<1>4. KeyFirst'
  <2> SUFFICES ASSUME NEW t \in Swaps
               PROVE  /\ creation'[t] = "invoice" => setups'[t].pc = "done"
                      /\ creation'[t] = "invoice" \/ setups'[t].pc = "created" => Kept(t)'
                      /\ checks'[t] = "delete_swap" => t \in over'
    BY DEF KeyFirst
  <2>1. CASE t = s
    BY <2>1, <1>2 DEF KeyInv, KeyFirst
  <2>2. CASE t # s
    BY <2>2, <1>2, <1>3 DEF KeyInv, KeyFirst
  <2> QED
    BY <2>1, <2>2
<1>5. Behind'
  BY DEF KeyInv, Behind
<1> QED
  BY <1>1, <1>4, <1>5 DEF KeyInv

LEMMA AcceptInv == ASSUME KeyInv, NEW s \in Swaps, AcceptSwapQuotation(s) PROVE KeyInv'
<1> DEFINE setup == [pc |-> "createswap", at |-> service_height, timeout |-> 0, onchain |-> 0]
<1>1. setups' = [setups EXCEPT ![s] = setup]
  BY DEF AcceptSwapQuotation
<1>2. setup \in Setups
  BY DEF KeyInv, BoltzTypes, Setups, SetupPlaces
<1>3. setup.pc = "createswap"
  OBVIOUS
<1>4. UNCHANGED <<creation, rsub, tip, service_height, checks, over>>
  BY DEF AcceptSwapQuotation, worldVars, historyVars
<1>5. creation[s] # "invoice"
  BY DEF AcceptSwapQuotation, KeyInv, KeyFirst
<1>6. creation \in [Swaps -> {"none", "failed", "invoice"}] /\ rsub \subseteq Rows
  BY DEF KeyInv, BoltzTypes
<1> HIDE DEF setup
<1> QED
  BY <1>1, <1>2, <1>3, <1>4, <1>5, <1>6, SetupInv

LEMMA DoneType == ASSUME NEW setup \in Setups PROVE Done(setup) \in Setups /\ Done(setup).pc = "done"
                                                    /\ Done(setup).timeout = setup.timeout
  BY DEF Done, Setups, SetupPlaces

LEMMA CreateswapInv == ASSUME KeyInv, NEW s \in Swaps, createswap(s) PROVE KeyInv'
<1>1. /\ setups[s] \in Setups /\ creation[s] # "invoice" /\ rsub \subseteq Rows
      /\ creation \in [Swaps -> {"none", "failed", "invoice"}]
  BY DEF createswap, KeyInv, BoltzTypes, KeyFirst
<1>2. UNCHANGED <<rsub, tip, service_height, checks, over>>
  BY DEF createswap, historyVars
<1>3. ASSUME NEW offer \in Offers, creation' = creation,
             setups' = [setups EXCEPT ![s] = [pc |-> "save", at |-> 0, timeout |-> offer.timeout,
                                              onchain |-> offer.onchain]]
      PROVE  KeyInv'
  <2> DEFINE setup == [pc |-> "save", at |-> 0, timeout |-> offer.timeout, onchain |-> offer.onchain]
  <2>1. setup \in Setups /\ setup.pc = "save"
    <3>1. offer.timeout \in 1 .. MaxTip /\ offer.onchain \in Onchain
      BY DEF Offers
    <3>2. offer.timeout \in Int
      BY <3>1
    <3>3. offer.onchain \in Nat
      BY <3>1, BoltzAssumption
    <3> QED
      BY <3>2, <3>3 DEF Setups, SetupPlaces
  <2>2. setups' = [setups EXCEPT ![s] = setup]
    BY <1>3
  <2> HIDE DEF setup
  <2> QED
    BY <1>1, <1>2, <1>3, <2>1, <2>2, SetupInv
<1>4. ASSUME setups' = [setups EXCEPT ![s] = Done(@)],
             creation' = [creation EXCEPT ![s] = "failed"]
      PROVE  KeyInv'
  <2>1. setups' = [setups EXCEPT ![s] = Done(setups[s])]
    BY <1>4
  <2>2. /\ creation' \in [Swaps -> {"none", "failed", "invoice"}]
        /\ creation'[s] = "failed" /\ \A t \in Swaps \ {s} : creation'[t] = creation[t]
    BY <1>1, <1>4
  <2>3. Done(setups[s]) \in Setups /\ Done(setups[s]).pc = "done"
    BY <1>1, DoneType
  <2> QED
    BY <1>1, <1>2, <2>1, <2>2, <2>3, SetupInv
<1> QED
  BY <1>3, <1>4 DEF createswap

(* The row is there before the invoice can leave.                          *)
LEMMA SaveInv == ASSUME KeyInv, NEW s \in Swaps, SaveSwap(s) PROVE KeyInv'
<1> DEFINE r == [swapId |-> s, timeoutBlockheight |-> setups[s].timeout,
                 onchainAmount |-> setups[s].onchain, lockedUp |-> FALSE]
           setup == [setups[s] EXCEPT !.pc = "created"]
<1>1. setups[s] \in Setups /\ rsub \subseteq Rows /\ creation[s] # "invoice"
      /\ creation \in [Swaps -> {"none", "failed", "invoice"}]
  BY DEF SaveSwap, KeyInv, BoltzTypes, KeyFirst
<1>2. setup \in Setups /\ setup.pc = "created" /\ setup.timeout = setups[s].timeout
  BY <1>1 DEF Setups, SetupPlaces
<1>3. setups' = [setups EXCEPT ![s] = setup]
  BY DEF SaveSwap, KeyInv, BoltzTypes
<1>4. rsub' = rsub \cup {r} /\ UNCHANGED <<creation, tip, service_height, checks, over>>
  BY DEF SaveSwap, worldVars, historyVars
<1>5. r.swapId = s /\ r.timeoutBlockheight = setups[s].timeout
  OBVIOUS
<1>6. r \in Rows
  <2>1. FALSE \in BOOLEAN
    BY Zenon
  <2> QED
    BY <2>1, <1>1 DEF Rows, Setups
<1> HIDE DEF r, setup
<1>7. setups'[s] = setup
  BY <1>3 DEF KeyInv, BoltzTypes
<1>8. Kept(s)'
  BY <1>2, <1>4, <1>5, <1>7 DEF Kept, HasRow
<1> QED
  BY <1>1, <1>2, <1>3, <1>4, <1>6, <1>8, SetupInv

LEMMA CreationInv == ASSUME KeyInv, NEW s \in Swaps, SwapCreation(s) PROVE KeyInv'
<1> DEFINE setup == [setups[s] EXCEPT !.pc = "done"]
<1>1. setups[s] \in Setups /\ rsub \subseteq Rows /\ Kept(s)
      /\ creation \in [Swaps -> {"none", "failed", "invoice"}]
  BY DEF SwapCreation, KeyInv, BoltzTypes, KeyFirst
<1>2. setup \in Setups /\ setup.pc = "done" /\ setup.timeout = setups[s].timeout
  BY <1>1 DEF Setups, SetupPlaces
<1>3. setups' = [setups EXCEPT ![s] = setup]
  BY DEF SwapCreation, KeyInv, BoltzTypes
<1>4. creation' = [creation EXCEPT ![s] = "invoice"]
      /\ UNCHANGED <<rsub, tip, service_height, checks, over>>
  BY DEF SwapCreation, worldVars, historyVars
<1>5. /\ creation' \in [Swaps -> {"none", "failed", "invoice"}]
      /\ \A t \in Swaps \ {s} : creation'[t] = creation[t]
  BY <1>1, <1>4
<1> HIDE DEF setup
<1>6. setups'[s] = setup
  BY <1>3 DEF KeyInv, BoltzTypes
<1>7. Kept(s)'
  BY <1>1, <1>2, <1>4, <1>6 DEF Kept, HasRow
<1> QED
  BY <1>1, <1>2, <1>3, <1>4, <1>5, <1>7, SetupInv

(* on_block deletes only rows whose timeout the chain has reached.         *)
LEMMA OnBlockInv == ASSUME KeyInv, on_block PROVE KeyInv'
<1>1. /\ rsub' = {r \in rsub : r.timeoutBlockheight > service_height}
      /\ checks' = [s \in Swaps |-> IF \E r \in rsub' : r.swapId = s THEN "swapstatus" ELSE "none"]
      /\ UNCHANGED <<setups, creation, tip, service_height, over>>
  BY DEF on_block, worldVars, historyVars
<1>2. checks' \in [Swaps -> CheckPlaces] /\ \A s \in Swaps : checks'[s] # "delete_swap"
  BY <1>1 DEF CheckPlaces
<1>3. BoltzTypes' /\ Behind'
  BY <1>1, <1>2 DEF KeyInv, BoltzTypes, Behind
<1>4. ASSUME NEW s \in Swaps, Kept(s) PROVE Kept(s)'
  <2>1. CASE HasRow(s)
    <3>1. PICK r \in rsub : r.swapId = s /\ r.timeoutBlockheight = setups[s].timeout
      BY <2>1 DEF HasRow
    <3>2. CASE r.timeoutBlockheight > service_height
      BY <3>1, <3>2, <1>1 DEF Kept, HasRow
    <3>3. CASE ~(r.timeoutBlockheight > service_height)
      <4>1. setups[s].timeout \in Int /\ tip \in Int /\ service_height \in Int
        BY DEF KeyInv, BoltzTypes, Setups
      <4> QED
        BY <3>1, <3>3, <4>1, <1>1 DEF Kept, KeyInv, Behind
    <3> QED
      BY <3>2, <3>3
  <2>2. CASE s \in over \/ tip >= setups[s].timeout
    BY <2>2, <1>1 DEF Kept
  <2> QED
    BY <1>4, <2>1, <2>2 DEF Kept
<1>5. KeyFirst'
  BY <1>1, <1>2, <1>4 DEF KeyInv, KeyFirst
<1> QED
  BY <1>3, <1>5 DEF KeyInv

(* The server called the swap over before its row goes.                    *)
LEMMA DeleteInv == ASSUME KeyInv, NEW s \in Swaps, delete_swap(s) PROVE KeyInv'
<1>1. /\ rsub' = {r \in rsub : r.swapId # s}
      /\ checks' = [checks EXCEPT ![s] = "none"]
      /\ UNCHANGED <<setups, creation, tip, service_height, over>>
  BY DEF delete_swap, worldVars, historyVars
<1>2. s \in over
  BY DEF delete_swap, KeyInv, KeyFirst
<1>3. BoltzTypes' /\ Behind'
  BY <1>1 DEF KeyInv, BoltzTypes, Behind, CheckPlaces
<1>4. \A t \in Swaps : checks'[t] = "delete_swap" => checks[t] = "delete_swap"
  BY <1>1 DEF KeyInv, BoltzTypes
<1>5. ASSUME NEW t \in Swaps, Kept(t) PROVE Kept(t)'
  <2>1. CASE t = s
    BY <2>1, <1>1, <1>2 DEF Kept
  <2>2. CASE t # s
    BY <2>2, <1>1, <1>5 DEF Kept, HasRow
  <2> QED
    BY <2>1, <2>2
<1>6. KeyFirst'
  BY <1>1, <1>4, <1>5 DEF KeyInv, KeyFirst
<1> QED
  BY <1>3, <1>6 DEF KeyInv

LEMMA MarkInv == ASSUME KeyInv, NEW s \in Swaps, MarkLockedUp(s) PROVE KeyInv'
<1> DEFINE Marked(r) == IF r.swapId = s THEN [r EXCEPT !.lockedUp = TRUE] ELSE r
<1>1. /\ rsub' = {Marked(r) : r \in rsub}
      /\ checks' = [checks EXCEPT ![s] = "none"]
      /\ UNCHANGED <<setups, creation, tip, service_height, over>>
  BY DEF MarkLockedUp, worldVars, historyVars
<1>2. ASSUME NEW r \in rsub
      PROVE  /\ Marked(r) \in Rows /\ Marked(r).swapId = r.swapId
             /\ Marked(r).timeoutBlockheight = r.timeoutBlockheight
  <2>1. r \in Rows
    BY DEF KeyInv, BoltzTypes
  <2>2. TRUE \in BOOLEAN
    BY Zenon
  <2> QED
    BY <2>1, <2>2 DEF Rows
<1> HIDE DEF Marked
<1>3. BoltzTypes' /\ Behind'
  BY <1>1, <1>2 DEF KeyInv, BoltzTypes, Behind, CheckPlaces
<1>4. \A t \in Swaps : checks'[t] = "delete_swap" => checks[t] = "delete_swap"
  BY <1>1 DEF KeyInv, BoltzTypes
<1>5. ASSUME NEW t \in Swaps, Kept(t) PROVE Kept(t)'
  <2>1. HasRow(t) => HasRow(t)'
    BY <1>1, <1>2 DEF HasRow
  <2> QED
    BY <2>1, <1>1, <1>5 DEF Kept
<1>6. KeyFirst'
  BY <1>1, <1>4, <1>5 DEF KeyInv, KeyFirst
<1> QED
  BY <1>3, <1>6 DEF KeyInv

(* A restart ends the setups and the checks; the table is kept.            *)
LEMMA CrashInv == ASSUME KeyInv, CrashClient PROVE KeyInv'
<1>1. /\ setups' = [s \in Swaps |-> IF setups[s].pc = "idle" THEN setups[s] ELSE Done(setups[s])]
      /\ checks' = [s \in Swaps |-> "none"] /\ service_height' = -1
      /\ UNCHANGED <<creation, rsub, tip, over>>
  BY DEF CrashClient, worldVars
<1>2. ASSUME NEW s \in Swaps
      PROVE  /\ setups'[s] \in Setups /\ setups'[s].timeout = setups[s].timeout
             /\ setups'[s].pc \in {"idle", "done"}
             /\ setups'[s].pc = "idle" => setups[s].pc = "idle"
  <2>1. setups[s] \in Setups
    BY DEF KeyInv, BoltzTypes
  <2> QED
    BY <1>1, <2>1, DoneType
<1>3. BoltzTypes'
  <2>1. setups' \in [Swaps -> Setups]
    BY <1>1, <1>2
  <2>2. checks' \in [Swaps -> CheckPlaces]
    BY <1>1 DEF CheckPlaces
  <2> QED
    BY <2>1, <2>2, <1>1 DEF KeyInv, BoltzTypes
<1>4. ASSUME NEW s \in Swaps, Kept(s) PROVE Kept(s)'
  BY <1>1, <1>2, <1>4 DEF Kept, HasRow
<1>5. KeyFirst'
  BY <1>1, <1>2, <1>4 DEF KeyInv, KeyFirst
<1>6. Behind'
  BY <1>1 DEF KeyInv, BoltzTypes, Behind
<1> QED
  BY <1>3, <1>5, <1>6 DEF KeyInv

LEMMA StatusInv == ASSUME KeyInv, NEW s \in Swaps, swap_on_block(s) PROVE KeyInv'
<1>1. UNCHANGED <<setups, creation, rsub, tip, service_height>>
  BY DEF swap_on_block, worldVars
<1>2. tip' \in Nat /\ tip' >= tip /\ service_height' \in Int /\ Behind'
  BY <1>1 DEF KeyInv, BoltzTypes, Behind
<1>3. checks \in [Swaps -> CheckPlaces] /\ \A t \in Swaps : checks[t] = "delete_swap" => t \in over
  BY DEF KeyInv, BoltzTypes, KeyFirst
<1>4. PICK answer \in api({server[s], "error", "invalid JSON"}) :
         /\ checks' = [checks EXCEPT ![s] = Continuation(answer)]
         /\ over' = IF answer \in Failed \cup {"invoice.settled"} THEN over \cup {s} ELSE over
  BY DEF swap_on_block
<1>5. /\ Continuation(answer) \in CheckPlaces
      /\ Continuation(answer) = "delete_swap" => s \in over'
      /\ over \subseteq over'
  BY <1>4 DEF Continuation, CheckPlaces
<1>6. checks' \in [Swaps -> CheckPlaces] /\ \A t \in Swaps : checks'[t] = "delete_swap" => t \in over'
  BY <1>3, <1>4, <1>5
<1> QED
  BY <1>1, <1>2, <1>5, <1>6, QuietInv

(* The other steps of the client and the steps of the world.               *)
LEMMA OtherInv ==
    ASSUME KeyInv, UNCHANGED <<setups, creation, rsub, over>>,
           tip' \in Nat, tip' >= tip, service_height' \in {service_height, tip},
           checks' = checks \/ \E s \in Swaps, c \in CheckPlaces \ {"delete_swap"} :
                                  checks' = [checks EXCEPT ![s] = c]
    PROVE  KeyInv'
<1>1. checks' \in [Swaps -> CheckPlaces]
  BY DEF KeyInv, BoltzTypes
<1>2. \A t \in Swaps : checks'[t] = "delete_swap" => t \in over'
  BY DEF KeyInv, BoltzTypes, KeyFirst
<1>3. service_height' \in Int /\ Behind'
  BY DEF KeyInv, BoltzTypes, Behind
<1> QED
  BY <1>1, <1>2, <1>3, QuietInv

LEMMA BoltzNextInv == KeyInv /\ [BoltzStep]_boltzVars => KeyInv'
<1> SUFFICES ASSUME KeyInv, [BoltzStep]_boltzVars PROVE KeyInv'
  OBVIOUS
<1> USE DEF worldVars, historyVars, clientVars
<1>0. tip \in Nat
  BY DEF KeyInv, BoltzTypes
<1>1. CASE core_run
  BY <1>0, <1>1, OtherInv DEF core_run
<1>2. CASE RaiseBlock
  BY <1>0, <1>2, OtherInv DEF RaiseBlock
<1>3. CASE on_block
  BY <1>3, OnBlockInv
<1>4. CASE TipRises
  BY <1>0, <1>4, OtherInv DEF TipRises
<1>5. CASE CrashClient
  BY <1>5, CrashInv
<1>6. ASSUME NEW s \in Swaps, SolicitSwapQuotation(s) PROVE KeyInv'
  BY <1>0, <1>6, OtherInv DEF SolicitSwapQuotation
<1>7. ASSUME NEW s \in Swaps,
             \/ AcceptSwapQuotation(s) \/ createswap(s) \/ SaveSwap(s) \/ SwapCreation(s)
             \/ swap_on_block(s) \/ delete_swap(s) \/ MarkLockedUp(s)
      PROVE  KeyInv'
  BY <1>7, AcceptInv, CreateswapInv, SaveInv, CreationInv, StatusInv, DeleteInv, MarkInv
<1>8. ASSUME NEW s \in Swaps, FetchRow(s) PROVE KeyInv'
  <2>1. \E c \in CheckPlaces \ {"delete_swap"} : checks' = [checks EXCEPT ![s] = c]
    <3>1. CASE MayClaim(s)
      BY <1>8, <3>1 DEF FetchRow, CheckPlaces
    <3>2. CASE ~MayClaim(s)
      BY <1>8, <3>2 DEF FetchRow, CheckPlaces
    <3> QED
      BY <3>1, <3>2
  <2>2. UNCHANGED <<setups, creation, rsub, over, tip, service_height>>
    BY <1>8 DEF FetchRow
  <2>3. tip' \in Nat /\ tip' >= tip /\ service_height' \in {service_height, tip}
    BY <1>0, <2>2
  <2> QED
    BY <2>1, <2>2, <2>3, OtherInv
<1>9. ASSUME NEW s \in Swaps, ServerStep(s) PROVE KeyInv'
  BY <1>0, <1>9, OtherInv DEF ServerStep
<1>10. ASSUME NEW s \in Swaps, NEW fees \in Fees, broadcast_tx(s, fees) PROVE KeyInv'
  <2>1. \E c \in CheckPlaces \ {"delete_swap"} : checks' = [checks EXCEPT ![s] = c]
    <3>1. checks' = [checks EXCEPT ![s] = "update"] \/ checks' = [checks EXCEPT ![s] = "none"]
      BY <1>10 DEF broadcast_tx
    <3>2. {"update", "none"} \subseteq CheckPlaces \ {"delete_swap"}
      BY DEF CheckPlaces
    <3> QED
      BY <3>1, <3>2
  <2>2. UNCHANGED <<setups, creation, rsub, over, tip, service_height>>
    BY <1>10 DEF broadcast_tx
  <2>3. tip' \in Nat /\ tip' >= tip /\ service_height' \in {service_height, tip}
    BY <1>0, <2>2
  <2> QED
    BY <2>1, <2>2, <2>3, OtherInv
<1>11. CASE UNCHANGED boltzVars
  BY <1>0, <1>11, OtherInv DEF boltzVars
<1> QED
  BY <1>1, <1>2, <1>3, <1>4, <1>5, <1>6, <1>7, <1>8, <1>9, <1>10, <1>11 DEF BoltzStep

(* ServiceImpl.cpp:203 and SwapSetupHandler: whoever may be paid can       *)
(* claim.  The keys are stored before the invoice leaves, and no crash or  *)
(* error of the connection drops them before the server calls the swap     *)
(* over or the timeout comes.                                              *)
THEOREM PaidStaysClaimableAlways == BoltzSpec => []PaidStaysClaimable
<1>1. BoltzInit => KeyInv
  BY BoltzInitInv
<1>2. KeyInv /\ [BoltzStep]_boltzVars => KeyInv'
  BY BoltzNextInv
<1>3. KeyInv => PaidStaysClaimable
  BY DEF KeyInv, KeyFirst, Kept, HasRow, PaidStaysClaimable
<1> QED
  BY <1>1, <1>2, <1>3, PTL DEF BoltzSpec

-----------------------------------------------------------------------------

Statuses == {"unknown", "swap.created", "transaction.mempool", "transaction.confirmed",
             "transaction.failed", "swap.expired", "invoice.settled", "transaction.refunded"}
Claims == [output : Int, fees : Int]

ClaimTypes ==
    /\ server \in [Swaps -> Statuses]
    /\ lockup \in [Swaps -> {"none", "agreed", "other"}]
    /\ claim \in [Swaps -> Claims]
    /\ confirmed \subseteq Swaps

Standing == {"created", "done"}

(* A row is the setup it was made from.                                    *)
Rowed ==
    /\ \A s \in Swaps : setups[s].pc = "save" => setups[s].onchain \in Onchain
    /\ \A r \in rsub :
          /\ setups[r.swapId].pc \in Standing
          /\ r.timeoutBlockheight = setups[r.swapId].timeout
          /\ r.onchainAmount = setups[r.swapId].onchain
          /\ r.onchainAmount \in Onchain

(* An accepted claim spends what was agreed, and leaves no dust.           *)
Sound ==
    \A s \in Swaps : claim[s] # NoClaim =>
       /\ setups[s].pc \in Standing
       /\ claim[s].output + claim[s].fees = setups[s].onchain
       /\ claim[s].output >= dust_limit \/ claim[s].output = 0

Locked == \A r \in rsub : r.lockedUp => claim[r.swapId] # NoClaim

(* A check goes on only while its row is there, and marks what was         *)
(* claimed.                                                                *)
Checking ==
    /\ blocking => confirmed = {} /\ \A s \in Swaps : checks[s] = "none"
    /\ \A s \in Swaps :
          /\ checks[s] \in {"swapstatus", "fetch", "broadcast", "update"} =>
                \E r \in rsub : r.swapId = s
          /\ checks[s] = "update" => claim[s] # NoClaim

Settled(s) ==
    \/ claim[s] # NoClaim \/ s \in troubled \/ lockup[s] # "agreed"
    \/ setups[s].timeout <= service_height + claim_margin

(* A swap reported confirmed is on its way to a claim, or has its reason.  *)
Reported ==
    \A s \in confirmed :
       /\ setups[s].pc \in Standing
       /\ server[s] \notin {"unknown", "swap.created"}
       /\ checks[s] \in {"none", "fetch", "broadcast", "update"}
       /\ checks[s] = "none" => Settled(s)

ClaimInv == KeyInv /\ ClaimTypes /\ Rowed /\ Sound /\ Locked /\ Checking /\ Reported

LEMMA ClaimInitInv == BoltzInit => ClaimInv
<1> SUFFICES ASSUME BoltzInit PROVE ClaimInv
  OBVIOUS
<1>1. ClaimTypes
  BY DEF BoltzInit, ClaimTypes, Statuses, Claims, NoClaim
<1>2. Rowed /\ Sound /\ Locked /\ Checking /\ Reported
  BY DEF BoltzInit, NoSetup, NoClaim, Rowed, Sound, Locked, Checking, Reported
<1> QED
  BY <1>1, <1>2, BoltzInitInv DEF ClaimInv

(* What a step that leaves setups, table and claims alone still has to     *)
(* show.                                                                   *)
LEMMA StillInv ==
    ASSUME ClaimInv, KeyInv', ClaimTypes', UNCHANGED <<setups, rsub, claim>>, Checking', Reported'
    PROVE  ClaimInv'
<1>1. Rowed' /\ Sound' /\ Locked'
  BY DEF ClaimInv, Rowed, Sound, Locked
<1> QED
  BY <1>1 DEF ClaimInv

(* Steps of a swap that is not set up yet: it has no row, claim or check.  *)
LEMMA SetupClaimInv ==
    ASSUME ClaimInv, KeyInv', ClaimTypes', NEW s \in Swaps, NEW setup \in Setups,
           setups[s].pc \notin Standing, setups' = [setups EXCEPT ![s] = setup],
           setup.pc = "save" => setup.onchain \in Onchain,
           UNCHANGED <<rsub, claim, checks, blocking, confirmed, troubled, lockup, service_height>>,
           \A t \in Swaps \ {s} : server'[t] = server[t]
    PROVE  ClaimInv'
<1>1. setups'[s] = setup /\ \A t \in Swaps \ {s} : setups'[t] = setups[t]
  BY DEF ClaimInv, KeyInv, BoltzTypes
<1>2. /\ \A r \in rsub : r.swapId \in Swaps \ {s}
      /\ claim[s] = NoClaim /\ s \notin confirmed /\ confirmed \subseteq Swaps
  <2>1. \A r \in rsub : r.swapId \in Swaps
    BY DEF ClaimInv, KeyInv, BoltzTypes, Rows
  <2> QED
    BY <2>1 DEF ClaimInv, Rowed, Sound, Reported, ClaimTypes
<1>3. Rowed'
  <2>1. \A t \in Swaps : setups'[t].pc = "save" => setups'[t].onchain \in Onchain
    BY <1>1 DEF ClaimInv, Rowed
  <2> QED
    BY <1>1, <1>2, <2>1 DEF ClaimInv, Rowed
<1>4. Sound'
  BY <1>1, <1>2 DEF ClaimInv, Sound
<1>5. Locked' /\ Checking'
  BY DEF ClaimInv, Locked, Checking
<1>6. Reported'
  BY <1>1, <1>2 DEF ClaimInv, Reported, Settled
<1> QED
  BY <1>3, <1>4, <1>5, <1>6 DEF ClaimInv

LEMMA AcceptClaimInv ==
    ASSUME ClaimInv, KeyInv', NEW s \in Swaps, AcceptSwapQuotation(s) PROVE ClaimInv'
<1> DEFINE setup == [pc |-> "createswap", at |-> service_height, timeout |-> 0, onchain |-> 0]
<1>1. setup \in Setups /\ setup.pc = "createswap" /\ setups' = [setups EXCEPT ![s] = setup]
  BY DEF AcceptSwapQuotation, ClaimInv, KeyInv, BoltzTypes, Setups, SetupPlaces
<1>2. setups[s].pc \notin Standing
  BY DEF AcceptSwapQuotation, Standing
<1>3. UNCHANGED <<rsub, claim, checks, blocking, confirmed, troubled, lockup, service_height, server>>
  BY DEF AcceptSwapQuotation, worldVars, historyVars
<1>4. ClaimTypes'
  BY <1>3 DEF ClaimInv, ClaimTypes
<1> HIDE DEF setup
<1> QED
  BY <1>1, <1>2, <1>3, <1>4, SetupClaimInv

LEMMA CreateswapClaimInv ==
    ASSUME ClaimInv, KeyInv', NEW s \in Swaps, createswap(s) PROVE ClaimInv'
<1>1. setups[s] \in Setups /\ setups[s].pc \notin Standing
  BY DEF createswap, ClaimInv, KeyInv, BoltzTypes, Standing
<1>2. UNCHANGED <<rsub, claim, checks, blocking, confirmed, troubled, lockup, service_height>>
  BY DEF createswap, historyVars
<1>3. server' = server \/ server' = [server EXCEPT ![s] = "swap.created"]
  BY DEF createswap
<1>4. ClaimTypes' /\ \A t \in Swaps \ {s} : server'[t] = server[t]
  BY <1>2, <1>3 DEF ClaimInv, ClaimTypes, Statuses
<1>5. ASSUME NEW offer \in Offers,
             setups' = [setups EXCEPT ![s] = [pc |-> "save", at |-> 0, timeout |-> offer.timeout,
                                              onchain |-> offer.onchain]]
      PROVE  ClaimInv'
  <2> DEFINE setup == [pc |-> "save", at |-> 0, timeout |-> offer.timeout, onchain |-> offer.onchain]
  <2>1. offer.timeout \in 1 .. MaxTip /\ offer.onchain \in Onchain
    BY DEF Offers
  <2>2. offer.timeout \in Int
    BY <2>1
  <2>3. offer.onchain \in Nat
    BY <2>1, BoltzAssumption
  <2>4. setup \in Setups /\ setup.onchain \in Onchain
    BY <2>1, <2>2, <2>3 DEF Setups, SetupPlaces
  <2>5. setups' = [setups EXCEPT ![s] = setup]
    BY <1>5
  <2> HIDE DEF setup
  <2> QED
    BY <1>1, <1>2, <1>4, <2>4, <2>5, SetupClaimInv
<1>6. ASSUME setups' = [setups EXCEPT ![s] = Done(@)] PROVE ClaimInv'
  <2>1. setups' = [setups EXCEPT ![s] = Done(setups[s])]
    BY <1>6
  <2>2. Done(setups[s]) \in Setups /\ Done(setups[s]).pc = "done"
    BY <1>1, DoneType
  <2> QED
    BY <1>1, <1>2, <1>4, <2>1, <2>2, SetupClaimInv
<1> QED
  BY <1>5, <1>6 DEF createswap

LEMMA SaveClaimInv == ASSUME ClaimInv, KeyInv', NEW s \in Swaps, SaveSwap(s) PROVE ClaimInv'
<1> DEFINE r == [swapId |-> s, timeoutBlockheight |-> setups[s].timeout,
                 onchainAmount |-> setups[s].onchain, lockedUp |-> FALSE]
<1>1. setups[s] \in Setups /\ setups[s].pc = "save" /\ setups[s].onchain \in Onchain
  BY DEF SaveSwap, ClaimInv, KeyInv, BoltzTypes, Rowed
<1>2. /\ setups'[s].pc = "created" /\ setups'[s].timeout = setups[s].timeout
      /\ setups'[s].onchain = setups[s].onchain
      /\ \A t \in Swaps \ {s} : setups'[t] = setups[t]
  BY <1>1 DEF SaveSwap, ClaimInv, KeyInv, BoltzTypes, Setups
<1>3. /\ rsub' = rsub \cup {r}
      /\ UNCHANGED <<claim, checks, blocking, confirmed, troubled, lockup, service_height, server>>
  BY DEF SaveSwap, worldVars, historyVars
<1>4. r.swapId = s /\ r.timeoutBlockheight = setups[s].timeout
      /\ r.onchainAmount = setups[s].onchain /\ ~r.lockedUp
  OBVIOUS
<1> HIDE DEF r
<1>5. /\ \A q \in rsub : q.swapId \in Swaps \ {s}
      /\ claim[s] = NoClaim /\ s \notin confirmed /\ confirmed \subseteq Swaps
  <2>1. \A q \in rsub : q.swapId \in Swaps
    BY DEF ClaimInv, KeyInv, BoltzTypes, Rows
  <2> QED
    BY <1>1, <2>1 DEF ClaimInv, Rowed, Sound, Reported, ClaimTypes, Standing
<1>6. ClaimTypes'
  BY <1>3 DEF ClaimInv, ClaimTypes
<1>7. Rowed'
  <2>1. \A t \in Swaps : setups'[t].pc = "save" => setups'[t].onchain \in Onchain
    BY <1>2 DEF ClaimInv, Rowed
  <2>2. ASSUME NEW q \in rsub'
        PROVE  /\ setups'[q.swapId].pc \in Standing
               /\ q.timeoutBlockheight = setups'[q.swapId].timeout
               /\ q.onchainAmount = setups'[q.swapId].onchain
               /\ q.onchainAmount \in Onchain
    <3>1. CASE q = r
      BY <3>1, <1>1, <1>2, <1>4 DEF Standing
    <3>2. CASE q \in rsub
      BY <3>2, <1>2, <1>5 DEF ClaimInv, Rowed
    <3> QED
      BY <3>1, <3>2, <1>3
  <2> QED
    BY <2>1, <2>2 DEF Rowed
<1>8. Sound'
  BY <1>2, <1>3, <1>5 DEF ClaimInv, Sound
<1>9. Locked'
  BY <1>3, <1>4 DEF ClaimInv, Locked
<1>10. Checking'
  BY <1>3 DEF ClaimInv, Checking
<1>11. Reported'
  BY <1>2, <1>3, <1>5 DEF ClaimInv, Reported, Settled
<1> QED
  BY <1>6, <1>7, <1>8, <1>9, <1>10, <1>11 DEF ClaimInv

(* What ends setups without touching what was agreed keeps the rest.       *)
LEMMA EndedClaimInv ==
    ASSUME ClaimInv, KeyInv', UNCHANGED <<rsub, claim, lockup, server>>,
           \A s \in Swaps : /\ setups'[s].timeout = setups[s].timeout
                            /\ setups'[s].onchain = setups[s].onchain
                            /\ setups'[s].pc # "save" \/ setups[s].pc = "save"
                            /\ setups[s].pc \in Standing => setups'[s].pc \in Standing,
           confirmed' \subseteq Swaps, Checking', Reported'
    PROVE  ClaimInv'
<1>1. ClaimTypes'
  BY DEF ClaimInv, ClaimTypes
<1>2. \A r \in rsub : r.swapId \in Swaps
  BY DEF ClaimInv, KeyInv, BoltzTypes, Rows
<1>3. Rowed'
  BY <1>2 DEF ClaimInv, Rowed
<1>4. Sound' /\ Locked'
  BY DEF ClaimInv, Sound, Locked
<1> QED
  BY <1>1, <1>3, <1>4 DEF ClaimInv

LEMMA CreationClaimInv == ASSUME ClaimInv, KeyInv', NEW s \in Swaps, SwapCreation(s) PROVE ClaimInv'
<1>1. setups[s] \in Setups /\ setups[s].pc = "created"
  BY DEF SwapCreation, ClaimInv, KeyInv, BoltzTypes
<1>2. UNCHANGED <<rsub, claim, checks, blocking, confirmed, troubled, lockup, service_height, server>>
  BY DEF SwapCreation, worldVars, historyVars
<1>3. /\ setups'[s].pc = "done" /\ setups'[s].timeout = setups[s].timeout
      /\ setups'[s].onchain = setups[s].onchain
      /\ \A t \in Swaps \ {s} : setups'[t] = setups[t]
  BY <1>1 DEF SwapCreation, ClaimInv, KeyInv, BoltzTypes, Setups
<1>4. Checking'
  BY <1>2 DEF ClaimInv, Checking
<1>5. confirmed' \subseteq Swaps
  BY <1>2 DEF ClaimInv, ClaimTypes
<1>6. Reported'
  BY <1>1, <1>2, <1>3, <1>5 DEF ClaimInv, Reported, Settled, Standing
<1> QED
  BY <1>1, <1>2, <1>3, <1>4, <1>5, <1>6, EndedClaimInv DEF Standing

LEMMA CrashClaimInv == ASSUME ClaimInv, KeyInv', CrashClient PROVE ClaimInv'
<1>1. /\ setups' = [s \in Swaps |-> IF setups[s].pc = "idle" THEN setups[s] ELSE Done(setups[s])]
      /\ checks' = [s \in Swaps |-> "none"] /\ blocking' = FALSE
      /\ confirmed' = {} /\ UNCHANGED <<rsub, claim, lockup, server>>
  BY DEF CrashClient, worldVars
<1>2. ASSUME NEW s \in Swaps
      PROVE  /\ setups'[s].timeout = setups[s].timeout /\ setups'[s].onchain = setups[s].onchain
             /\ setups'[s].pc \in {"idle", "done"}
             /\ setups'[s].pc = "idle" => setups[s].pc = "idle"
  <2>1. setups[s] \in Setups
    BY DEF ClaimInv, KeyInv, BoltzTypes
  <2>2. Done(setups[s]).onchain = setups[s].onchain
    BY DEF Done
  <2> QED
    BY <1>1, <2>1, <2>2, DoneType
<1>3. Checking' /\ Reported'
  BY <1>1 DEF Checking, Reported
<1> QED
  BY <1>1, <1>2, <1>3, EndedClaimInv DEF Standing

(* Rows past their timeout go before anything is reported in the block.    *)
LEMMA OnBlockClaimInv == ASSUME ClaimInv, KeyInv', on_block PROVE ClaimInv'
<1>1. /\ rsub' = {r \in rsub : r.timeoutBlockheight > service_height}
      /\ blocking' = FALSE
      /\ checks' = [s \in Swaps |-> IF \E r \in rsub' : r.swapId = s THEN "swapstatus" ELSE "none"]
      /\ UNCHANGED <<setups, claim, confirmed, lockup, server>>
  BY DEF on_block, worldVars, historyVars
<1>2. confirmed = {}
  BY DEF on_block, ClaimInv, Checking
<1>3. ClaimTypes' /\ Rowed' /\ Sound' /\ Locked'
  BY <1>1 DEF ClaimInv, ClaimTypes, Rowed, Sound, Locked
<1>4. Checking'
  BY <1>1 DEF Checking
<1>5. Reported'
  BY <1>1, <1>2 DEF Reported
<1> QED
  BY <1>3, <1>4, <1>5 DEF ClaimInv

(* The check of a swap takes a step, and no other check does.              *)
LEMMA OtherChecks ==
    ASSUME ClaimInv, NEW s \in Swaps, NEW c, checks' = [checks EXCEPT ![s] = c],
           UNCHANGED <<setups, service_height, lockup, server>>,
           confirmed \subseteq confirmed', confirmed' \subseteq confirmed \cup {s},
           troubled \subseteq troubled',
           \A t \in Swaps \ {s} : claim'[t] = claim[t]
    PROVE  /\ checks'[s] = c /\ \A t \in Swaps \ {s} : checks'[t] = checks[t]
           /\ \A t \in confirmed' \ {s} :
                 /\ setups'[t].pc \in Standing
                 /\ server'[t] \notin {"unknown", "swap.created"}
                 /\ checks'[t] \in {"none", "fetch", "broadcast", "update"}
                 /\ checks'[t] = "none" => Settled(t)'
<1>1. checks'[s] = c /\ \A t \in Swaps \ {s} : checks'[t] = checks[t]
  BY DEF ClaimInv, KeyInv, BoltzTypes
<1>2. confirmed \subseteq Swaps
  BY DEF ClaimInv, ClaimTypes
<1>3. ASSUME NEW t \in confirmed' \ {s}
      PROVE  /\ setups'[t].pc \in Standing
             /\ server'[t] \notin {"unknown", "swap.created"}
             /\ checks'[t] \in {"none", "fetch", "broadcast", "update"}
             /\ checks'[t] = "none" => Settled(t)'
  <2>1. t \in confirmed /\ t \in Swaps \ {s}
    BY <1>2
  <2>2. Settled(t) => Settled(t)'
    BY <2>1 DEF Settled
  <2> QED
    BY <1>1, <2>1, <2>2 DEF ClaimInv, Reported
<1> QED
  BY <1>1, <1>3

LEMMA DeleteClaimInv == ASSUME ClaimInv, KeyInv', NEW s \in Swaps, delete_swap(s) PROVE ClaimInv'
<1>1. /\ rsub' = {r \in rsub : r.swapId # s}
      /\ checks' = [checks EXCEPT ![s] = "none"] /\ checks[s] = "delete_swap"
      /\ UNCHANGED <<setups, blocking, service_height, claim, confirmed, troubled, lockup, server>>
  BY DEF delete_swap, worldVars, historyVars
<1>2. s \notin confirmed
  BY <1>1 DEF ClaimInv, Reported
<1>3. checks'[s] = "none" /\ \A t \in Swaps \ {s} : checks'[t] = checks[t]
  BY <1>1, OtherChecks
<1>4. ClaimTypes' /\ Rowed' /\ Sound' /\ Locked'
  BY <1>1 DEF ClaimInv, ClaimTypes, Rowed, Sound, Locked
<1>5. Checking'
  BY <1>1, <1>3 DEF ClaimInv, Checking
<1>6. Reported'
  BY <1>1, <1>2, OtherChecks DEF Reported
<1> QED
  BY <1>4, <1>5, <1>6 DEF ClaimInv

(* Only what was claimed is marked.                                        *)
LEMMA MarkClaimInv == ASSUME ClaimInv, KeyInv', NEW s \in Swaps, MarkLockedUp(s) PROVE ClaimInv'
<1> DEFINE Marked(r) == IF r.swapId = s THEN [r EXCEPT !.lockedUp = TRUE] ELSE r
<1>1. /\ rsub' = {Marked(r) : r \in rsub}
      /\ checks' = [checks EXCEPT ![s] = "none"] /\ checks[s] = "update"
      /\ UNCHANGED <<setups, blocking, service_height, claim, confirmed, troubled, lockup, server>>
  BY DEF MarkLockedUp, worldVars, historyVars
<1>2. ASSUME NEW r \in rsub
      PROVE  /\ Marked(r).swapId = r.swapId
             /\ Marked(r).timeoutBlockheight = r.timeoutBlockheight
             /\ Marked(r).onchainAmount = r.onchainAmount
             /\ Marked(r).lockedUp => r.lockedUp \/ r.swapId = s
  <2>1. r \in Rows
    BY DEF ClaimInv, KeyInv, BoltzTypes
  <2> QED
    BY <2>1 DEF Rows
<1> HIDE DEF Marked
<1>3. claim[s] # NoClaim
  BY <1>1 DEF ClaimInv, Checking
<1>4. checks'[s] = "none" /\ \A t \in Swaps \ {s} : checks'[t] = checks[t]
  BY <1>1, OtherChecks
<1>5. ClaimTypes' /\ Sound'
  BY <1>1 DEF ClaimInv, ClaimTypes, Sound
<1>6. Rowed' /\ Locked'
  BY <1>1, <1>2, <1>3 DEF ClaimInv, Rowed, Locked
<1>7. Checking'
  BY <1>1, <1>2, <1>4 DEF ClaimInv, Checking
<1>8. Reported'
  <2>1. s \in confirmed => /\ setups'[s].pc \in Standing
                           /\ server'[s] \notin {"unknown", "swap.created"} /\ Settled(s)'
    BY <1>1, <1>3 DEF ClaimInv, Reported, Settled
  <2> QED
    BY <1>1, <1>4, <2>1, OtherChecks DEF Reported
<1> QED
  BY <1>5, <1>6, <1>7, <1>8 DEF ClaimInv

(* A status is that of a row, and of the server.                           *)
LEMMA StatusClaimInv == ASSUME ClaimInv, KeyInv', NEW s \in Swaps, swap_on_block(s) PROVE ClaimInv'
<1>1. /\ checks[s] = "swapstatus"
      /\ UNCHANGED <<setups, rsub, blocking, service_height, claim, troubled, lockup, server>>
  BY DEF swap_on_block, worldVars
<1>2. (\E r \in rsub : r.swapId = s) /\ setups[s].pc \in Standing /\ ~blocking
  BY <1>1 DEF ClaimInv, Checking, Rowed
<1>3. s \notin confirmed /\ confirmed \subseteq Swaps
  BY <1>1 DEF ClaimInv, Reported, ClaimTypes
<1>4. PICK answer \in api({server[s], "error", "invalid JSON"}) :
         /\ checks' = [checks EXCEPT ![s] = Continuation(answer)]
         /\ confirmed' = IF answer = "transaction.confirmed" THEN confirmed \cup {s} ELSE confirmed
  BY DEF swap_on_block
<1>5. /\ Continuation(answer) \in {"delete_swap", "fetch", "none"}
      /\ answer = "transaction.confirmed" => Continuation(answer) = "fetch"
  BY DEF Continuation, Failed
<1>6. answer = "transaction.confirmed" => server[s] = "transaction.confirmed"
  BY DEF api
<1> DEFINE c == Continuation(answer)
<1>7. checks' = [checks EXCEPT ![s] = c]
  BY <1>4
<1>8. confirmed \subseteq confirmed' /\ confirmed' \subseteq confirmed \cup {s}
  BY <1>4
<1>9. s \in confirmed' => c = "fetch" /\ server[s] = "transaction.confirmed"
  BY <1>3, <1>4, <1>5, <1>6
<1>10. c \in {"delete_swap", "fetch", "none"}
  BY <1>5
<1> HIDE DEF c
<1>11. /\ checks'[s] = c /\ \A t \in Swaps \ {s} : checks'[t] = checks[t]
       /\ \A t \in confirmed' \ {s} :
             /\ setups'[t].pc \in Standing
             /\ server'[t] \notin {"unknown", "swap.created"}
             /\ checks'[t] \in {"none", "fetch", "broadcast", "update"}
             /\ checks'[t] = "none" => Settled(t)'
  BY <1>1, <1>7, <1>8, OtherChecks
<1>12. ClaimTypes'
  BY <1>1, <1>3, <1>8 DEF ClaimInv, ClaimTypes
<1>13. Checking'
  BY <1>1, <1>2, <1>10, <1>11 DEF ClaimInv, Checking
<1>14. Reported'
  BY <1>1, <1>2, <1>9, <1>11 DEF Reported
<1> QED
  BY <1>1, <1>12, <1>13, <1>14, StillInv

(* Without a way to claim, the row tells why.                              *)
LEMMA FetchClaimInv == ASSUME ClaimInv, KeyInv', NEW s \in Swaps, FetchRow(s) PROVE ClaimInv'
<1> DEFINE c == IF MayClaim(s) THEN "broadcast" ELSE "none"
<1>1. /\ checks[s] = "fetch" /\ checks' = [checks EXCEPT ![s] = c]
      /\ UNCHANGED <<setups, rsub, blocking, service_height, claim, confirmed, troubled, lockup, server>>
  BY DEF FetchRow, worldVars, historyVars
<1>2. c = "broadcast" \/ (c = "none" /\ ~MayClaim(s))
  OBVIOUS
<1> HIDE DEF c
<1>3. PICK r \in rsub : r.swapId = s
  BY <1>1 DEF ClaimInv, Checking
<1>4. r.timeoutBlockheight = setups[s].timeout /\ (r.lockedUp => claim[s] # NoClaim)
  BY <1>3 DEF ClaimInv, Rowed, Locked
<1>5. c = "none" => Settled(s)'
  <2>1. setups[s].timeout \in Int /\ service_height \in Int /\ claim_margin \in Int
    BY BoltzAssumption DEF ClaimInv, KeyInv, BoltzTypes, Setups
  <2>2. ~MayClaim(s) => Settled(s)
    BY <1>3, <1>4, <2>1 DEF MayClaim, Settled
  <2> QED
    BY <1>1, <1>2, <2>2 DEF Settled
<1>6. /\ checks'[s] = c /\ \A t \in Swaps \ {s} : checks'[t] = checks[t]
      /\ \A t \in confirmed' \ {s} :
            /\ setups'[t].pc \in Standing
            /\ server'[t] \notin {"unknown", "swap.created"}
            /\ checks'[t] \in {"none", "fetch", "broadcast", "update"}
            /\ checks'[t] = "none" => Settled(t)'
  BY <1>1, OtherChecks
<1>7. ClaimTypes'
  BY <1>1 DEF ClaimInv, ClaimTypes
<1>8. Checking'
  BY <1>1, <1>2, <1>3, <1>6 DEF ClaimInv, Checking
<1>9. Reported'
  <2>1. s \in confirmed => setups'[s].pc \in Standing /\ server'[s] \notin {"unknown", "swap.created"}
    BY <1>1 DEF ClaimInv, Reported
  <2> QED
    BY <1>1, <1>2, <1>5, <1>6, <2>1 DEF Reported
<1> QED
  BY <1>1, <1>7, <1>8, <1>9, StillInv

(* What initial_claim_tx pays out and leaves to fees is the amount.        *)
LEMMA ClaimSound ==
    ASSUME NEW amount \in Nat \ {0}, NEW fees \in Nat
    PROVE  LET c == initial_claim_tx(amount, fees)
           IN  /\ c \in Claims /\ c # NoClaim /\ c.output + c.fees = amount
               /\ c.output >= dust_limit \/ c.output = 0
<1>1. dust_limit \in Nat
  BY BoltzAssumption
<1>2. CASE fees + dust_limit > amount
  BY <1>2 DEF initial_claim_tx, Claims, NoClaim
<1>3. CASE ~(fees + dust_limit > amount)
  <2> DEFINE c == [output |-> amount - fees, fees |-> fees]
  <2>1. initial_claim_tx(amount, fees) = c
    BY <1>3 DEF initial_claim_tx
  <2>2. amount - fees \in Int /\ amount - fees >= dust_limit /\ amount - fees + fees = amount
    BY <1>1, <1>3
  <2>3. c \in Claims /\ c.output = amount - fees /\ c.fees = fees
    BY <2>2 DEF Claims
  <2>4. c # NoClaim
    <3>1. c.output + c.fees # 0
      BY <2>2, <2>3
    <3>2. NoClaim.output + NoClaim.fees = 0
      BY DEF NoClaim
    <3> HIDE DEF c
    <3> QED
      BY <3>1, <3>2
  <2> HIDE DEF c
  <2> QED
    BY <2>1, <2>2, <2>3, <2>4
<1> QED
  BY <1>2, <1>3

LEMMA BroadcastClaimInv ==
    ASSUME ClaimInv, KeyInv', NEW s \in Swaps, NEW fees \in Fees, broadcast_tx(s, fees)
    PROVE  ClaimInv'
<1>1. /\ checks[s] = "broadcast"
      /\ UNCHANGED <<setups, rsub, blocking, service_height, confirmed, lockup, server>>
  BY DEF broadcast_tx
<1>2. PICK r \in rsub : r.swapId = s
  BY <1>1 DEF ClaimInv, Checking
<1>3. setups[s].pc \in Standing /\ setups[s].onchain \in Onchain /\ ~blocking
  BY <1>1, <1>2 DEF ClaimInv, Rowed, Checking
<1>4. claim \in [Swaps -> Claims] /\ \A q \in rsub : q.swapId \in Swaps
  BY DEF ClaimInv, ClaimTypes, KeyInv, BoltzTypes, Rows
<1>5. s \in confirmed => setups'[s].pc \in Standing /\ server'[s] \notin {"unknown", "swap.created"}
  BY <1>1 DEF ClaimInv, Reported
<1>6. CASE /\ claim' = [claim EXCEPT ![s] = initial_claim_tx(setups[s].onchain, fees)]
           /\ checks' = [checks EXCEPT ![s] = "update"] /\ UNCHANGED troubled
  <2> DEFINE c == initial_claim_tx(setups[s].onchain, fees)
  <2>1. setups[s].onchain \in Nat \ {0} /\ fees \in Nat
    BY <1>3, BoltzAssumption
  <2>2. /\ c \in Claims /\ c # NoClaim /\ c.output + c.fees = setups[s].onchain
        /\ c.output >= dust_limit \/ c.output = 0
    BY <2>1, ClaimSound
  <2>3. claim' = [claim EXCEPT ![s] = c]
    BY <1>6
  <2> HIDE DEF c
  <2>4. claim' \in [Swaps -> Claims] /\ claim'[s] = c /\ \A t \in Swaps \ {s} : claim'[t] = claim[t]
    BY <1>4, <2>2, <2>3
  <2>5. /\ checks'[s] = "update" /\ \A t \in Swaps \ {s} : checks'[t] = checks[t]
        /\ \A t \in confirmed' \ {s} :
              /\ setups'[t].pc \in Standing
              /\ server'[t] \notin {"unknown", "swap.created"}
              /\ checks'[t] \in {"none", "fetch", "broadcast", "update"}
              /\ checks'[t] = "none" => Settled(t)'
    BY <1>1, <1>6, <2>4, OtherChecks
  <2>6. ClaimTypes' /\ Rowed'
    BY <1>1, <2>4 DEF ClaimInv, ClaimTypes, Rowed
  <2>7. Sound'
    BY <1>1, <1>3, <2>2, <2>4 DEF ClaimInv, Sound
  <2>8. Locked'
    BY <1>1, <1>4, <2>2, <2>4 DEF ClaimInv, Locked
  <2>9. Checking'
    BY <1>1, <1>2, <1>3, <2>2, <2>4, <2>5 DEF ClaimInv, Checking
  <2>10. Reported'
    BY <1>1, <1>5, <2>5 DEF Reported
  <2> QED
    BY <2>6, <2>7, <2>8, <2>9, <2>10 DEF ClaimInv
<1>7. CASE /\ checks' = [checks EXCEPT ![s] = "none"]
           /\ troubled' = troubled \cup {s} /\ UNCHANGED claim
  <2>1. /\ checks'[s] = "none" /\ \A t \in Swaps \ {s} : checks'[t] = checks[t]
        /\ \A t \in confirmed' \ {s} :
              /\ setups'[t].pc \in Standing
              /\ server'[t] \notin {"unknown", "swap.created"}
              /\ checks'[t] \in {"none", "fetch", "broadcast", "update"}
              /\ checks'[t] = "none" => Settled(t)'
    BY <1>1, <1>7, OtherChecks
  <2>2. ClaimTypes'
    BY <1>1, <1>7 DEF ClaimInv, ClaimTypes
  <2>3. Checking'
    BY <1>1, <1>3, <1>7, <2>1 DEF ClaimInv, Checking
  <2>4. Reported'
    BY <1>1, <1>5, <1>7, <2>1 DEF Reported, Settled
  <2> QED
    BY <1>1, <1>7, <2>2, <2>3, <2>4, StillInv
<1> QED
  BY <1>6, <1>7 DEF broadcast_tx

LEMMA RaiseBlockClaimInv == ASSUME ClaimInv, KeyInv', RaiseBlock PROVE ClaimInv'
<1>1. /\ confirmed' = {} /\ \A s \in Swaps : checks[s] = "none"
      /\ UNCHANGED <<setups, rsub, checks, claim, lockup, server>>
  BY DEF RaiseBlock, Idle, worldVars
<1>2. ClaimTypes' /\ Checking' /\ Reported'
  BY <1>1 DEF ClaimInv, ClaimTypes, Checking, Reported
<1> QED
  BY <1>1, <1>2, StillInv

(* The lockup is made once, before a status can be confirmed.              *)
LEMMA ServerClaimInv == ASSUME ClaimInv, KeyInv', NEW s \in Swaps, ServerStep(s) PROVE ClaimInv'
<1>1. UNCHANGED <<setups, rsub, blocking, checks, service_height, claim, confirmed, troubled>>
  BY DEF ServerStep, clientVars, historyVars
<1>2. /\ server \in [Swaps -> Statuses] /\ lockup \in [Swaps -> {"none", "agreed", "other"}]
      /\ confirmed \subseteq Swaps
  BY DEF ClaimInv, ClaimTypes
<1>3. PICK status \in ServerStatus(s) :
         /\ server' = [server EXCEPT ![s] = status]
         /\ IF status = "transaction.mempool"
            THEN \E l \in {"agreed", "other"} : lockup' = [lockup EXCEPT ![s] = l]
            ELSE UNCHANGED lockup
  BY DEF ServerStep
<1>4. /\ status \in Statuses \ {"unknown", "swap.created"}
      /\ status = "transaction.mempool" => server[s] = "swap.created"
  BY DEF ServerStatus, Statuses
<1>5. /\ server' \in [Swaps -> Statuses] /\ server'[s] = status
      /\ \A t \in Swaps \ {s} : server'[t] = server[t]
  BY <1>2, <1>3, <1>4
<1>6. /\ lockup' \in [Swaps -> {"none", "agreed", "other"}]
      /\ \A t \in Swaps \ {s} : lockup'[t] = lockup[t]
      /\ lockup'[s] = lockup[s] \/ server[s] = "swap.created"
  BY <1>2, <1>3, <1>4
<1>7. ClaimTypes'
  BY <1>1, <1>5, <1>6 DEF ClaimInv, ClaimTypes
<1>8. Checking'
  BY <1>1 DEF ClaimInv, Checking
<1>9. Reported'
  <2> SUFFICES ASSUME NEW t \in confirmed
               PROVE  /\ setups'[t].pc \in Standing
                      /\ server'[t] \notin {"unknown", "swap.created"}
                      /\ checks'[t] \in {"none", "fetch", "broadcast", "update"}
                      /\ checks'[t] = "none" => Settled(t)'
    BY <1>1 DEF Reported
  <2>1. server'[t] \notin {"unknown", "swap.created"} /\ lockup'[t] = lockup[t]
    BY <1>2, <1>4, <1>5, <1>6 DEF ClaimInv, Reported
  <2> QED
    BY <1>1, <2>1 DEF ClaimInv, Reported, Settled
<1> QED
  BY <1>1, <1>7, <1>8, <1>9, StillInv

LEMMA UntouchedClaimInv ==
    ASSUME ClaimInv, KeyInv',
           UNCHANGED <<setups, rsub, blocking, checks, service_height, claim, confirmed, troubled,
                       lockup, server>>
    PROVE  ClaimInv'
  BY DEF ClaimInv, ClaimTypes, Rowed, Sound, Locked, Checking, Reported, Settled

LEMMA ClaimNextInv == ClaimInv /\ [BoltzStep]_boltzVars => ClaimInv'
<1> SUFFICES ASSUME ClaimInv, [BoltzStep]_boltzVars PROVE ClaimInv'
  OBVIOUS
<1>1. KeyInv'
  BY BoltzNextInv DEF ClaimInv
<1>2. CASE core_run
  BY <1>1, <1>2, UntouchedClaimInv DEF core_run, worldVars, historyVars
<1>3. CASE TipRises
  BY <1>1, <1>3, UntouchedClaimInv DEF TipRises, clientVars, historyVars
<1>4. CASE RaiseBlock \/ on_block \/ CrashClient
  BY <1>1, <1>4, RaiseBlockClaimInv, OnBlockClaimInv, CrashClaimInv
<1>5. ASSUME NEW s \in Swaps, SolicitSwapQuotation(s) PROVE ClaimInv'
  BY <1>1, <1>5, UntouchedClaimInv DEF SolicitSwapQuotation, worldVars, historyVars
<1>6. ASSUME NEW s \in Swaps,
             AcceptSwapQuotation(s) \/ createswap(s) \/ SaveSwap(s) \/ SwapCreation(s)
      PROVE  ClaimInv'
  BY <1>1, <1>6, AcceptClaimInv, CreateswapClaimInv, SaveClaimInv, CreationClaimInv
<1>7. ASSUME NEW s \in Swaps,
             \/ swap_on_block(s) \/ delete_swap(s) \/ FetchRow(s) \/ MarkLockedUp(s)
             \/ ServerStep(s)
      PROVE  ClaimInv'
  BY <1>1, <1>7, StatusClaimInv, DeleteClaimInv, FetchClaimInv, MarkClaimInv, ServerClaimInv
<1>8. ASSUME NEW s \in Swaps, NEW fees \in Fees, broadcast_tx(s, fees) PROVE ClaimInv'
  BY <1>1, <1>8, BroadcastClaimInv
<1>9. CASE UNCHANGED boltzVars
  BY <1>1, <1>9, UntouchedClaimInv DEF boltzVars, clientVars, worldVars, historyVars
<1> QED
  BY <1>2, <1>3, <1>4, <1>5, <1>6, <1>7, <1>8, <1>9 DEF BoltzStep

LEMMA ClaimInvClaims == ClaimInv => ConfirmedIsClaimed
<1> SUFFICES ASSUME ClaimInv PROVE ConfirmedIsClaimed
  OBVIOUS
<1>1. \A s \in confirmed : checks[s] = "none" => Settled(s)
  BY DEF ClaimInv, Reported
<1>2. ASSUME NEW r \in rsub, r.lockedUp
      PROVE  LET c == claim[r.swapId]
             IN  c # NoClaim /\ c.output + c.fees = r.onchainAmount
                 /\ (c.output >= dust_limit \/ c.output = 0)
  <2>1. r.swapId \in Swaps /\ claim[r.swapId] # NoClaim /\ r.onchainAmount = setups[r.swapId].onchain
    BY <1>2 DEF ClaimInv, KeyInv, BoltzTypes, Rows, Locked, Rowed
  <2> QED
    BY <2>1 DEF ClaimInv, Sound
<1> QED
  BY <1>1, <1>2 DEF ConfirmedIsClaimed, Settled

(* Whatever the order of blocks, statuses, refusals and restarts, a lockup *)
(* that ClaimTxHandler was told of is claimed in that block or has one of  *)
(* the reasons of the handler against it; a row is marked lockedUp only    *)
(* for a claim that was accepted, which loses nothing and leaves no dust.  *)
THEOREM ConfirmedIsClaimedAlways == BoltzSpec => []ConfirmedIsClaimed
<1>1. BoltzInit => ClaimInv
  BY ClaimInitInv
<1>2. ClaimInv /\ [BoltzStep]_boltzVars => ClaimInv'
  BY ClaimNextInv
<1>3. ClaimInv => ConfirmedIsClaimed
  BY ClaimInvClaims
<1> QED
  BY <1>1, <1>2, <1>3, PTL DEF BoltzSpec
=============================================================================
