------------------------------- MODULE Swapper -------------------------------
(***************************************************************************)
(* Boss::ModG::Swapper, the base of the modules that decide when to swap,  *)
(* composed with what the SwapManager promises them (SwapService).  A      *)
(* request and the handling of a response run in one transaction with the  *)
(* table of the SwapManager.  Its two derived classes decide when and how  *)
(* much to swap: NodeBalanceSwapper and NeedsOnchainFundsSwapper.  Whether *)
(* the operator has onchain funds ignored is a free choice.                *)
(***************************************************************************)
EXTENDS SwapService, Integers, FiniteSetsExt

CONSTANTS
    Listings,       \* channel listings NodeBalanceSwapper may get
    Needs,          \* amounts that may be reported as needed onchain
    max_needed,     \* no swap is made for more than this
    ignored_blocks, \* blocks to wait between swaps
    swap_timeout,   \* blocks after which a swap is forgotten
    Never,          \* the default of forget_after
    MaxHeight,      \* bound: last block
    MaxRestarts     \* bound: number of process restarts

ASSUME SwapperBlocksAssumption ==
    /\ ignored_blocks \in Nat /\ swap_timeout \in Nat
    /\ MaxHeight \in Nat /\ Never \in Nat /\ Never >= MaxHeight
    /\ "none" \notin Uuid

Swappers == {"NodeBalanceSwapper", "NeedsOnchainFundsSwapper"}

VARIABLES
    fees_low,    \* the member of each derived class: "low", "high" or "unknown"
    row,         \* table ModG::Swapper
    blockheight, \* the member, once a Block was seen; -1 before
    forgetting,  \* swappers whose on_block transaction is pending
    height,      \* chain height
    restarts,    \* restarts so far
    request      \* who requested a swap, and at what height, for the properties

swapperVars == <<fees_low, row, blockheight, forgetting, height, restarts, request>>
swapVars == <<serviceVars, swapperVars>>

SwapperInit ==
    /\ ServiceInit
    /\ fees_low = [s \in Swappers |-> "unknown"]
    /\ row = [s \in Swappers |-> [swapUuid |-> "none", blocked_until |-> 0, forget_after |-> Never]]
    /\ blockheight = -1
    /\ forgetting = {}
    /\ height = 1
    /\ restarts = 0
    /\ request = [u \in Uuid |-> [by |-> "none", at |-> 0]]

\* Msg::Block: the member is set at once, on_block runs in a transaction.
SwapperBlock ==
    /\ height < MaxHeight
    /\ height' = height + 1
    /\ blockheight' = height'
    /\ forgetting' = Swappers
    /\ UNCHANGED <<serviceVars, fees_low, row, restarts, request>>

\* BlockTracker's first message after a start: the current block.
SwapperFirstBlock ==
    /\ blockheight = -1
    /\ blockheight' = height
    /\ forgetting' = Swappers
    /\ UNCHANGED <<serviceVars, fees_low, row, height, restarts, request>>

\* on_block
ForgetOnBlock(s) ==
    /\ s \in forgetting
    /\ forgetting' = forgetting \ {s}
    /\ row' = IF row[s].forget_after < blockheight
              THEN [row EXCEPT ![s] = [swapUuid |-> "none", forget_after |-> Never,
                                       blocked_until |-> @.blocked_until]]
              ELSE row
    /\ UNCHANGED <<serviceVars, fees_low, blockheight, height, restarts, request>>

\* What continue_swap checks in its transaction.
MaySwap(s) ==
    /\ blockheight # -1
    /\ row[s].swapUuid = "none"
    /\ row[s].blocked_until < blockheight

\* continue_swap, the policy says no.
Decline(s) ==
    /\ row' = [row EXCEPT ![s].blocked_until = blockheight + ignored_blocks]
    /\ UNCHANGED <<serviceVars, blockheight, forgetting, height, restarts, request>>

\* Mutant of RequestSwap: the swap is forgotten when the next may start.
RequestSwapForgetsEarly(s, u) ==
    /\ Accept(u)
    /\ row' = [row EXCEPT ![s] = [swapUuid |-> u, blocked_until |-> blockheight + ignored_blocks,
                                  forget_after |-> blockheight + ignored_blocks]]
    /\ request' = [request EXCEPT ![u] = [by |-> s, at |-> height]]
    /\ UNCHANGED <<blockheight, forgetting, height, restarts>>

\* continue_swap, the policy says yes: the row is written and SwapRequest
\* raised in one transaction, which the SwapManager commits.
RequestSwap(s, u) ==
    /\ Accept(u)
    /\ row' = [row EXCEPT ![s] = [swapUuid |-> u, blocked_until |-> blockheight + ignored_blocks,
                                  forget_after |-> blockheight + swap_timeout]]
    /\ request' = [request EXCEPT ![u] = [by |-> s, at |-> height]]
    /\ UNCHANGED <<blockheight, forgetting, height, restarts>>

\* trigger_swap, which stops when onchain funds are ignored, and continue_swap.
trigger_swap(s, ok, amount) ==
    \/ UNCHANGED <<serviceVars, row, blockheight, forgetting, height, restarts, request>>
    \/ /\ MaySwap(s)
       /\ IF ok /\ amount > 0 THEN \E u \in Uuid : RequestSwap(s, u) ELSE Decline(s)

\* Msg::OnchainFee, which both classes take.
OnchainFee(fees) ==
    /\ fees_low' = [s \in Swappers |-> fees]
    /\ fees_low' # fees_low
    /\ UNCHANGED <<serviceVars, row, blockheight, forgetting, height, restarts, request>>

FlooredMinus(a, b) == IF a > b THEN a - b ELSE 0

\* What a channel can send and receive beyond the reserves.
sendable(c) == FlooredMinus(c.to_us, c.our_reserve)
receivable(c) == FlooredMinus(FlooredMinus(FlooredMinus(c.total, c.to_us), c.htlcs), c.their_reserve)

SumActive(amount, channels) ==
    MapThenSumSet(LAMBDA i : IF channels[i].active THEN amount[i] ELSE 0, DOMAIN channels)

\* NodeBalanceSwapper: less than 35% receivable asks for a swap of two thirds
\* of the difference, at high fees only when no more than 2.5% is receivable.
ListpeersResult(channels) ==
    LET s == "NodeBalanceSwapper"
        recv == SumActive([i \in DOMAIN channels |-> receivable(channels[i])], channels)
        send == SumActive([i \in DOMAIN channels |-> sendable(channels[i])], channels)
    IN  /\ fees_low' = [fees_low EXCEPT ![s] = IF @ = "unknown" THEN "high" ELSE @]
        /\ IF recv + send = 0 \/ 100 * recv >= 35 * (recv + send)
           THEN UNCHANGED <<serviceVars, row, blockheight, forgetting, height, restarts, request>>
           ELSE trigger_swap(s, fees_low'[s] = "low" \/ 1000 * recv <= 25 * (recv + send),
                             (2 * FlooredMinus(send, recv)) \div 3)

\* NeedsOnchainFundsSwapper: a small need is met with some to spare, at low fees.
NeedsOnchainFunds(needed) ==
    LET s == "NeedsOnchainFundsSwapper"
    IN  /\ fees_low[s] # "unknown"
        /\ trigger_swap(s, fees_low[s] = "low" /\ needed <= max_needed, (needed * 112) \div 100)
        /\ UNCHANGED fees_low

\* Mutant of OnSwapResponse: a failed swap is not cleared.
OnSwapResponseSuccessOnly(u, result) ==
    IF result = "failed" THEN row
    ELSE [s \in Swappers |-> IF row[s].swapUuid = u
                             THEN [row[s] EXCEPT !.swapUuid = "none"] ELSE row[s]]

\* on_swap_response: the swapper that waits for u is freed and held back.
OnSwapResponse(u, result) ==
    [s \in Swappers |->
       IF row[s].swapUuid # u THEN row[s]
       ELSE [swapUuid |-> "none", forget_after |-> Never,
             blocked_until |->
                IF blockheight = -1 THEN row[s].blocked_until + ignored_blocks
                ELSE IF blockheight + ignored_blocks > row[s].blocked_until
                THEN blockheight + ignored_blocks ELSE row[s].blocked_until]]

RespondSwap(u, result) ==
    /\ Answer(u, result)
    /\ row' = OnSwapResponse(u, result)
    /\ UNCHANGED <<fees_low, blockheight, forgetting, height, restarts, request>>

\* The process is restarted; blocks may have passed.
SwapperRestart ==
    /\ restarts < MaxRestarts
    /\ restarts' = restarts + 1
    /\ height' \in height .. MaxHeight
    /\ blockheight' = -1
    /\ fees_low' = [s \in Swappers |-> "unknown"]
    /\ forgetting' = {}
    /\ UNCHANGED <<serviceVars, row, request>>

SwapperStep ==
    \/ SwapperBlock \/ SwapperFirstBlock \/ SwapperRestart
    \/ \E s \in Swappers : ForgetOnBlock(s)
    \/ \E fees \in {"low", "high"} : OnchainFee(fees)
    \/ \E channels \in Listings : ListpeersResult(channels)
    \/ \E needed \in Needs : NeedsOnchainFunds(needed)
    \/ \E u \in Uuid, r \in {"success", "failed"} : RespondSwap(u, r)

SwapperSpec == SwapperInit /\ [][SwapperStep]_swapVars

-----------------------------------------------------------------------------

\* A swapper never waits for a swap that the SwapManager does not have: the
\* shared transaction makes request and response atomic, across restarts too.
\* Waiting for a swap that is gone would stop the swapper until forget_after.
WaitsForPending ==
    \A s \in Swappers : row[s].swapUuid # "none" =>
       row[s].swapUuid \in pending /\ request[row[s].swapUuid].by = s

Apart(u, v, blocks) ==
    request[u].at > request[v].at + blocks \/ request[v].at > request[u].at + blocks

\* "swapper modules should only have one swap in-flight at a time"
\* (Swapper.hpp): the SwapManager works on two swaps of one swapper only if the
\* later was requested more than swap_timeout blocks after the earlier.
OneInFlightForTimeout ==
    \A u, v \in pending :
       u # v /\ request[u].by = request[v].by => Apart(u, v, swap_timeout)
=============================================================================
