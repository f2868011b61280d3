------------------------------- MODULE Boltz -------------------------------
(***************************************************************************)
(* The client of a Boltz server, one provider of swaps: the module that    *)
(* quotes, sets a swap up (SwapSetupHandler) and at every block asks for   *)
(* its status and claims the lockup transaction (ClaimTxHandler).  A swap  *)
(* is known by its number, which stands for the id of the server, the      *)
(* preimage and the invoice.  The server and the chain are external.       *)
(***************************************************************************)
EXTENDS Integers, FiniteSets

CONSTANTS
    Swaps,          \* swaps that may be set up
    offchainAmount, \* what each swap sends
    Onchain,        \* the amounts a server may offer in return
    Pairs,          \* the answers a server may give to /getpairs
    Fees,           \* what a claim transaction may cost at the feerates met
    dust_limit,     \* the least output of a claim transaction
    min_timeout,    \* a timeout is at least so many blocks away
    max_timeout,    \* and at most so many
    claim_margin,   \* no claim is made in the last blocks before the timeout
    MaxTip,         \* bound: last block of the chain
    MaxCrashes      \* bound: number of restarts

ASSUME BoltzAssumption ==
    /\ MaxTip \in Nat /\ Onchain \subseteq Nat \ {0}
    /\ Fees \subseteq Nat /\ dust_limit \in Nat /\ claim_margin \in Nat

VARIABLES
    tip,            \* height of the chain
    tracked,        \* height of the last Msg::Block
    subscribed,     \* the ServiceModule exists
    service_height, \* its member blockheight, -1 for none
    quoted,         \* the fee quoted for a swap, -1 for none
    setups,         \* the SwapSetupHandlers
    creation,       \* the SwapCreation of a swap
    rsub,           \* table BoltzServiceFactory_rsub
    blocking,       \* the transaction of on_block is due
    checks,         \* swap_on_block of each swap, with its ClaimTxHandler
    crashes,        \* restarts so far
    server,         \* the status of a swap at the server
    lockup,         \* whether the lockup transaction pays what was agreed
    claim,          \* the claim transaction bitcoind accepted
    confirmed,      \* swaps reported confirmed in this block, for the properties
    troubled,       \* swaps whose claim was refused in this block
    over            \* swaps the server called finished or failed

clientVars == <<tracked, subscribed, service_height, quoted, setups, creation,
                rsub, blocking, checks, crashes>>
worldVars == <<tip, server, lockup, claim>>
historyVars == <<confirmed, troubled, over>>
boltzVars == <<clientVars, worldVars, historyVars>>

NoSetup == [pc |-> "idle", at |-> 0, timeout |-> 0, onchain |-> 0]
Done(setup) == [pc |-> "done", at |-> 0, timeout |-> setup.timeout, onchain |-> setup.onchain]
NoClaim == [output |-> 0, fees |-> 0]

BoltzInit ==
    /\ tip = 1 /\ tracked = 0 /\ crashes = 0
    /\ subscribed = FALSE /\ service_height = -1
    /\ quoted = [s \in Swaps |-> -1]
    /\ setups = [s \in Swaps |-> NoSetup]
    /\ creation = [s \in Swaps |-> "none"]
    /\ rsub = {}
    /\ blocking = FALSE
    /\ checks = [s \in Swaps |-> "none"]
    /\ server = [s \in Swaps |-> "unknown"]
    /\ lockup = [s \in Swaps |-> "none"]
    /\ claim = [s \in Swaps |-> NoClaim]
    /\ confirmed = {} /\ troubled = {} /\ over = {}

-----------------------------------------------------------------------------

(* An api call in a thread of the pool: one of the answers, or ApiError.   *)
api(answers) == answers \cup {"ApiError"}

(* The table exists and the module takes messages.                         *)
create_service_detailed == subscribed' = TRUE

(* ServiceCreator, in a greenthread of its own after Init.                 *)
core_run ==
    /\ ~subscribed
    /\ create_service_detailed
    /\ UNCHANGED <<tracked, service_height, quoted, setups, creation, rsub, blocking,
                   checks, crashes, worldVars, historyVars>>

(* What is lost when this amount is swapped; -1 when the server does not   *)
(* offer the swap.                                                         *)
get_quotation(pair) ==
    IF pair.unsupported \/ pair.minimal > offchainAmount \/ pair.maximal < offchainAmount
    THEN -1
    ELSE LET swapped == (offchainAmount * pair.rate) \div (100 + pair.percentage)
             capped == IF swapped > offchainAmount THEN offchainAmount ELSE swapped
         IN  offchainAmount - (IF capped > pair.lockup THEN capped - pair.lockup ELSE 0)

(* ApiError and malformed answers give no quotation either.                *)
SolicitSwapQuotation(s) ==
    /\ subscribed /\ service_height # -1
    /\ setups[s].pc = "idle"
    /\ \E pair \in Pairs : quoted' = [quoted EXCEPT ![s] = get_quotation(pair)]
    /\ quoted' # quoted
    /\ UNCHANGED <<tracked, subscribed, service_height, setups, creation, rsub, blocking,
                   checks, crashes, worldVars, historyVars>>

(* The SwapManager takes the quotation; /createswap is sent.               *)
AcceptSwapQuotation(s) ==
    /\ setups[s].pc = "idle" /\ quoted[s] # -1
    /\ setups' = [setups EXCEPT ![s] =
          [pc |-> "createswap", at |-> service_height, timeout |-> 0, onchain |-> 0]]
    /\ quoted' = [quoted EXCEPT ![s] = -1]
    /\ UNCHANGED <<tracked, subscribed, service_height, creation, rsub, blocking,
                   checks, crashes, worldVars, historyVars>>

(* The script is ours and its timeout the announced one, enough is offered *)
(* and, seen from the height at which the swap was asked for, the timeout  *)
(* is neither near nor far.                                                *)
Acceptable(s, offer) ==
    /\ offer.script_ok
    /\ 10 * offer.onchain >= 9 * offchainAmount
    /\ setups[s].at + min_timeout <= offer.timeout
    /\ setups[s].at + max_timeout >= offer.timeout

Offers == [script_ok : BOOLEAN, onchain : Onchain, timeout : 1 .. MaxTip]

(* The answer to /createswap is checked; Fail ends in a failed creation.   *)
createswap(s) ==
    /\ setups[s].pc = "createswap"
    /\ \/ \E offer \in Offers :
             /\ server' = [server EXCEPT ![s] = "swap.created"]
             /\ IF Acceptable(s, offer)
                THEN /\ setups' = [setups EXCEPT ![s] =
                           [pc |-> "save", at |-> 0, timeout |-> offer.timeout, onchain |-> offer.onchain]]
                     /\ UNCHANGED creation
                ELSE /\ setups' = [setups EXCEPT ![s] = Done(@)]
                     /\ creation' = [creation EXCEPT ![s] = "failed"]
       \/ /\ setups' = [setups EXCEPT ![s] = Done(@)]
          /\ creation' = [creation EXCEPT ![s] = "failed"]
          /\ UNCHANGED server
    /\ UNCHANGED <<tracked, subscribed, service_height, quoted, rsub, blocking, checks,
                   crashes, tip, lockup, claim, historyVars>>

(* The row is committed.  The ids of a server are distinct, so the check   *)
(* for an existing row does not fail.                                      *)
SaveSwap(s) ==
    /\ setups[s].pc = "save"
    /\ rsub' = rsub \cup {[swapId |-> s, timeoutBlockheight |-> setups[s].timeout,
                           onchainAmount |-> setups[s].onchain, lockedUp |-> FALSE]}
    /\ setups' = [setups EXCEPT ![s].pc = "created"]
    /\ UNCHANGED <<tracked, subscribed, service_height, quoted, creation, blocking, checks,
                   crashes, worldVars, historyVars>>

(* The invoice goes to the SwapManager.                                    *)
SwapCreation(s) ==
    /\ setups[s].pc = "created"
    /\ setups' = [setups EXCEPT ![s].pc = "done"]
    /\ creation' = [creation EXCEPT ![s] = "invoice"]
    /\ UNCHANGED <<tracked, subscribed, service_height, quoted, rsub, blocking, checks,
                   crashes, worldVars, historyVars>>

-----------------------------------------------------------------------------

Idle == ~blocking /\ \A s \in Swaps : checks[s] = "none"

(* BlockTracker raises the next Block when every handler of the last is    *)
(* done.                                                                   *)
RaiseBlock ==
    /\ Idle /\ tracked < tip
    /\ tracked' = tip
    /\ IF subscribed THEN service_height' = tip /\ blocking' = TRUE
                     ELSE UNCHANGED <<service_height, blocking>>
    /\ confirmed' = {} /\ troubled' = {}
    /\ UNCHANGED <<subscribed, quoted, setups, creation, rsub, checks, crashes, worldVars, over>>

(* on_block: rows past their timeout go, the others are checked at once.   *)
on_block ==
    /\ blocking
    /\ blocking' = FALSE
    /\ rsub' = {r \in rsub : r.timeoutBlockheight > service_height}
    /\ checks' = [s \in Swaps |-> IF \E r \in rsub' : r.swapId = s THEN "swapstatus" ELSE "none"]
    /\ UNCHANGED <<tracked, subscribed, service_height, quoted, setups, creation, crashes,
                   worldVars, historyVars>>

Failed == {"error", "transaction.failed", "transaction.refunded", "swap.expired"}

(* Mutant: a server that cannot be reached is taken for one that failed.   *)
ContinuationAllErrors(answer) ==
    IF answer \in Failed \cup {"invoice.settled", "ApiError"} THEN "delete_swap"
    ELSE IF answer = "transaction.confirmed" THEN "fetch" ELSE "none"

(* What swap_on_block does with an answer.                                 *)
Continuation(answer) ==
    IF answer \in Failed \cup {"invoice.settled"} THEN "delete_swap"
    ELSE IF answer = "transaction.confirmed" THEN "fetch" ELSE "none"

swap_on_block(s) ==
    /\ checks[s] = "swapstatus"
    /\ \E answer \in api({server[s], "error", "invalid JSON"}) :
          /\ checks' = [checks EXCEPT ![s] = Continuation(answer)]
          /\ over' = IF answer \in Failed \cup {"invoice.settled"} THEN over \cup {s} ELSE over
          /\ confirmed' = IF answer = "transaction.confirmed" THEN confirmed \cup {s} ELSE confirmed
    /\ UNCHANGED <<tracked, subscribed, service_height, quoted, setups, creation, rsub,
                   blocking, crashes, worldVars, troubled>>

(* swap_errored and swap_finished                                          *)
delete_swap(s) ==
    /\ checks[s] = "delete_swap"
    /\ checks' = [checks EXCEPT ![s] = "none"]
    /\ rsub' = {r \in rsub : r.swapId # s}
    /\ UNCHANGED <<tracked, subscribed, service_height, quoted, setups, creation, blocking,
                   crashes, worldVars, historyVars>>

(* ClaimTxHandler goes on with a row that is not claimed yet, whose        *)
(* timeout is not near and whose lockup pays the script and the amount.    *)
MayClaim(s) ==
    \E r \in rsub : /\ r.swapId = s /\ ~r.lockedUp
                    /\ r.timeoutBlockheight > service_height + claim_margin
                    /\ lockup[s] = "agreed"

FetchRow(s) ==
    /\ checks[s] = "fetch"
    /\ checks' = [checks EXCEPT ![s] = IF MayClaim(s) THEN "broadcast" ELSE "none"]
    /\ UNCHANGED <<tracked, subscribed, service_height, quoted, setups, creation, rsub,
                   blocking, crashes, worldVars, historyVars>>

(* The amount less the fees, or all of it to fees when dust would be left. *)
initial_claim_tx(amount, fees) ==
    IF fees + dust_limit > amount THEN [output |-> 0, fees |-> amount]
    ELSE [output |-> amount - fees, fees |-> fees]

(* Mutant: the row is marked whether or not the node took the transaction. *)
broadcast_txUnchecked(s, fees) ==
    /\ checks[s] = "broadcast"
    /\ checks' = [checks EXCEPT ![s] = "update"]
    /\ \/ /\ claim[s] = NoClaim /\ server[s] # "transaction.refunded"
          /\ claim' = [claim EXCEPT ![s] = initial_claim_tx(setups[s].onchain, fees)]
       \/ UNCHANGED claim
    /\ UNCHANGED <<tracked, subscribed, service_height, quoted, setups, creation, rsub,
                   blocking, crashes, tip, server, lockup, historyVars>>

(* get_feerate and broadcast_tx.  The node refuses a second spend of the   *)
(* lockup, and may refuse the first.  A feerate that cannot be had ends    *)
(* the plugin: a Crash.                                                    *)
broadcast_tx(s, fees) ==
    /\ checks[s] = "broadcast"
    /\ \/ /\ claim[s] = NoClaim /\ server[s] # "transaction.refunded"
          /\ claim' = [claim EXCEPT ![s] = initial_claim_tx(setups[s].onchain, fees)]
          /\ checks' = [checks EXCEPT ![s] = "update"]
          /\ UNCHANGED troubled
       \/ /\ checks' = [checks EXCEPT ![s] = "none"]
          /\ troubled' = troubled \cup {s}
          /\ UNCHANGED claim
    /\ UNCHANGED <<tracked, subscribed, service_height, quoted, setups, creation, rsub,
                   blocking, crashes, tip, server, lockup, confirmed, over>>

MarkLockedUp(s) ==
    /\ checks[s] = "update"
    /\ checks' = [checks EXCEPT ![s] = "none"]
    /\ rsub' = {IF r.swapId = s THEN [r EXCEPT !.lockedUp = TRUE] ELSE r : r \in rsub}
    /\ UNCHANGED <<tracked, subscribed, service_height, quoted, setups, creation, blocking,
                   crashes, worldVars, historyVars>>

-----------------------------------------------------------------------------

(* The invoice is paid and the server locks the funds up; it refunds       *)
(* itself after the timeout, and settles when it sees the preimage.        *)
ServerStatus(s) ==
    CASE server[s] = "swap.created" ->
            (IF creation[s] = "invoice" THEN {"transaction.mempool", "transaction.failed"} ELSE {})
            \cup (IF tip >= setups[s].timeout THEN {"swap.expired"} ELSE {})
      [] server[s] \in {"transaction.mempool", "transaction.confirmed"} ->
            IF claim[s] # NoClaim THEN {"invoice.settled"}
            ELSE {"transaction.confirmed"} \cup
                 (IF tip >= setups[s].timeout THEN {"transaction.refunded"} ELSE {})
      [] OTHER -> {}

ServerStep(s) ==
    /\ \E status \in ServerStatus(s) \ {server[s]} :
          /\ server' = [server EXCEPT ![s] = status]
          /\ IF status = "transaction.mempool"
             THEN \E l \in {"agreed", "other"} : lockup' = [lockup EXCEPT ![s] = l]
             ELSE UNCHANGED lockup
    /\ UNCHANGED <<clientVars, tip, claim, historyVars>>

TipRises ==
    /\ tip < MaxTip
    /\ tip' = tip + 1
    /\ UNCHANGED <<clientVars, server, lockup, claim, historyVars>>

(* The plugin ends and is started again: the table and the server remain.  *)
CrashClient ==
    /\ crashes < MaxCrashes
    /\ crashes' = crashes + 1
    /\ tracked' = 0 /\ subscribed' = FALSE /\ service_height' = -1
    /\ quoted' = [s \in Swaps |-> -1]
    /\ setups' = [s \in Swaps |-> IF setups[s].pc = "idle" THEN setups[s]
                                  ELSE Done(setups[s])]
    /\ blocking' = FALSE
    /\ checks' = [s \in Swaps |-> "none"]
    /\ confirmed' = {} /\ troubled' = {}
    /\ UNCHANGED <<creation, rsub, worldVars, over>>

BoltzStep ==
    \/ core_run \/ RaiseBlock \/ on_block \/ TipRises \/ CrashClient
    \/ \E s \in Swaps : \/ SolicitSwapQuotation(s) \/ AcceptSwapQuotation(s)
                        \/ createswap(s) \/ SaveSwap(s) \/ SwapCreation(s)
                        \/ swap_on_block(s) \/ delete_swap(s) \/ FetchRow(s) \/ MarkLockedUp(s)
                        \/ ServerStep(s)
                        \/ \E fees \in Fees : broadcast_tx(s, fees)

BoltzSpec == BoltzInit /\ [][BoltzStep]_boltzVars

-----------------------------------------------------------------------------

(* Once its invoice was handed out, the preimage and the key of a swap     *)
(* stay in the table, over crashes and errors of the connection, until the *)
(* server called the swap over or its timeout came: a swap that may be     *)
(* paid can be claimed.                                                    *)
PaidStaysClaimable ==
    \A s \in Swaps : creation[s] = "invoice" =>
       \/ \E r \in rsub : r.swapId = s /\ r.timeoutBlockheight = setups[s].timeout
       \/ s \in over
       \/ tip >= setups[s].timeout

(* A lockup reported confirmed is claimed in that block, unless it is      *)
(* wrong, the timeout is near or the node refuses the transaction; what a  *)
(* row calls claimed was claimed, so that no later block skips it; and a   *)
(* claim leaves no dust and loses nothing.                                 *)
ConfirmedIsClaimed ==
    /\ \A s \in confirmed : checks[s] = "none" =>
          \/ claim[s] # NoClaim \/ s \in troubled \/ lockup[s] # "agreed"
          \/ setups[s].timeout <= service_height + claim_margin
    /\ \A r \in rsub : r.lockedUp =>
          LET c == claim[r.swapId]
          IN  c # NoClaim /\ c.output + c.fees = r.onchainAmount
              /\ (c.output >= dust_limit \/ c.output = 0)
=============================================================================
