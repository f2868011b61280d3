----------------------------- MODULE SwapManager -----------------------------
(***************************************************************************)
(* Boss::Mod::SwapManager: drives offchain-to-onchain swaps from request   *)
(* to response, through its database tables and two in-memory queues.      *)
(*                                                                         *)
(* A step is what one greenthread does between two switch points; a        *)
(* database transaction is one step, since Sqlite3::Db runs them one at a  *)
(* time.  The swap provider, the payment and the chain are environment     *)
(* actions.  Amounts are small integers that keep the code's arithmetic.   *)
(***************************************************************************)
EXTENDS Integers, Sequences, SequencesExt, FiniteSets

CONSTANTS
    Uuid,        \* swap ids the requesters may draw
    Addr,        \* onchain addresses lightningd may hand out
    MaxHash,     \* bound: number of swap setups (payment hashes)
    MaxHeight,   \* bound: last block
    MaxReduces,  \* bound: pending swap_reduce_or_fail calls of one swap
    MaxCrashes,  \* bound: number of process restarts
    MaxQuotes,   \* number of swap providers
    Lifetime,    \* blocks from the setup of a swap to its timeout
    ClaimMargin, \* the provider's client claims only this long before timeout
    MinAmount,   \* min_offchain_amount of a request
    MaxAmount,   \* max_offchain_amount of a request
    Reliable     \* RPC calls and providers always answer, with a quotation

ASSUME SwapAmountsAssumption ==
    MinAmount \in Nat \ {0} /\ MaxAmount \in Nat /\ MinAmount <= MaxAmount
ASSUME SwapBlocksAssumption ==
    ClaimMargin \in Nat /\ Lifetime \in Nat /\ ClaimMargin < Lifetime

VARIABLES
    swaps,         \* table SwapManager
    addrcache,     \* table SwapManager_addrcache, by id
    comp_onchain,  \* table SwapManager_comp_onchain
    comp_pay,      \* table SwapManager_comp_pay
    resp,          \* the first SwapResponse raised for each swap
    completed,     \* number of SwapCompleted raised for each hash
    needs_address, \* the queue of swaps that need an address
    needs_invoice, \* the queue of swaps that need an invoice
    aloop,         \* where loop_needs_address is
    iloop,         \* where loop_needs_invoice is
    wake,          \* pending process_needs_address / process_needs_invoice
    periodic,      \* where on_periodic is
    reduces,       \* pending swap_reduce_or_fail calls, by swap
    seen,          \* hashes whose on_onchain_funds_seen is pending
    listpays,      \* hashes whose RequestListpays is unanswered
    funds,         \* onchain_funds: addresses not yet looked at
    blocks,        \* heights whose on_block is pending
    hashes,        \* every swap setup: what is paid, where funds go
    used,          \* addresses handed out by lightningd
    onchain,       \* addresses that hold an output
    height,        \* chain height
    crashes        \* restarts so far

rows     == <<swaps, addrcache, resp>>
compl    == <<comp_onchain, comp_pay, seen, completed>>
address  == <<needs_address, aloop>>
invoice  == <<needs_invoice, iloop>>
polls    == <<listpays, funds, blocks>>
world    == <<hashes, used, onchain, height, crashes>>
swapVars == <<rows, compl, address, invoice, wake, periodic, reduces, polls, world>>

Hash == 1 .. MaxHash
NoHash == 0

\* The states of enum State; a swap in no such state is not in the table.
Live == {"NeedsOnchainAddress", "NeedsInvoice", "AwaitingResult"}
LiveSwap(u) == swaps[u].state \in Live
Gone == [state |-> "gone", amount |-> 0, address |-> "none", hash |-> NoHash]

\* The members amount and address, the quotations left, and the swap or the
\* setup that the current round of the invoice loop is about.
LoopStart == [at |-> "idle", amount |-> 0, address |-> "none", quotes |-> 0,
              uuid |-> "none", hash |-> NoHash]

NoSetup == [st |-> "none", uuid |-> "none", amount |-> 0, address |-> "none", timeout |-> 0]

Init ==
    /\ swaps = [u \in Uuid |-> [Gone EXCEPT !.state = "new"]]
    /\ addrcache = << >>
    /\ resp = [u \in Uuid |-> "none"]
    /\ comp_onchain = {} /\ comp_pay = {} /\ seen = {} /\ completed = [h \in Hash |-> 0]
    /\ needs_address = << >> /\ needs_invoice = << >>
    /\ aloop = [at |-> "idle", address |-> "none"]
    /\ iloop = LoopStart
    /\ wake = {}
    /\ periodic = "address"
    /\ reduces = [u \in Uuid |-> 0]
    /\ listpays = {} /\ funds = {} /\ blocks = {}
    /\ hashes = [h \in Hash |-> NoSetup]
    /\ used = {} /\ onchain = {} /\ height = 0 /\ crashes = 0

-----------------------------------------------------------------------------
\* Requests and the address loop.

\* on_swap_request, in the transaction of the requester.
SwapRequest(u) ==
    /\ swaps[u].state = "new"
    /\ swaps' = [swaps EXCEPT ![u].state = "NeedsOnchainAddress", ![u].amount = MaxAmount]
    /\ needs_address' = Append(needs_address, u)
    /\ wake' = wake \cup {"address"}
    /\ UNCHANGED <<addrcache, resp, compl, aloop, invoice, periodic, reduces, polls, world>>

\* process_needs_address: getting_address is `aloop.at # "idle"'.
StartAddressLoop(queue) ==
    aloop' = IF aloop.at = "idle" /\ queue # << >> THEN [aloop EXCEPT !.at = "cache"] ELSE aloop

ProcessNeedsAddress ==
    /\ "address" \in wake
    /\ wake' = wake \ {"address"}
    /\ StartAddressLoop(needs_address)
    /\ UNCHANGED <<rows, compl, needs_address, invoice, periodic, reduces, polls, world>>

\* load_address starts the invoice loop if its queue was empty.
WakeInvoiceLoop == wake' = IF needs_invoice = << >> THEN wake \cup {"invoice"} ELSE wake

\* load_address
LoadAddress(u, a) ==
    /\ swaps' = IF swaps[u].state = "NeedsOnchainAddress"
                THEN [swaps EXCEPT ![u].address = a, ![u].state = "NeedsInvoice"]
                ELSE swaps
    /\ needs_address' = Tail(needs_address)
    /\ WakeInvoiceLoop
    /\ needs_invoice' = Append(needs_invoice, u)
    /\ aloop' = [at |-> "next", address |-> "none"]
    /\ UNCHANGED <<resp, compl, iloop, periodic, reduces, polls, world>>

\* Mutant of AddressFromCache: the address taken from the cache stays there.
AddressFromCacheKeeps ==
    /\ aloop.at = "cache"
    /\ addrcache # << >>
    /\ UNCHANGED addrcache
    /\ LoadAddress(Head(needs_address), Head(addrcache))

\* loop_needs_address, an address in the cache.
AddressFromCache ==
    /\ aloop.at = "cache"
    /\ addrcache # << >>
    /\ addrcache' = Tail(addrcache)
    /\ LoadAddress(Head(needs_address), Head(addrcache))

\* loop_needs_address, cache empty: RequestNewaddr is raised.  NewaddrHandler
\* answers with a new address; if the RPC fails nothing answers, ever.
RequestNewaddr ==
    /\ aloop.at = "cache"
    /\ addrcache = << >>
    /\ \/ \E a \in Addr \ used :
             /\ used' = used \cup {a}
             /\ aloop' = [at |-> "load", address |-> a]
       \/ /\ ~Reliable
          /\ aloop' = [aloop EXCEPT !.at = "stuck"]
          /\ UNCHANGED used
    /\ UNCHANGED <<rows, compl, needs_address, invoice, wake, periodic, reduces, polls,
                   hashes, onchain, height, crashes>>

\* on_response_newaddr
OnResponseNewaddr ==
    /\ aloop.at = "load"
    /\ LoadAddress(Head(needs_address), aloop.address)
    /\ UNCHANGED addrcache

\* The loop goes round after its yield, or clears getting_address.
NextAddress ==
    /\ aloop.at = "next"
    /\ aloop' = [aloop EXCEPT !.at = IF needs_address = << >> THEN "idle" ELSE "cache"]
    /\ UNCHANGED <<rows, compl, needs_address, invoice, wake, periodic, reduces, polls, world>>

-----------------------------------------------------------------------------
\* The invoice loop.  getting_invoice is `iloop.at # "idle"'.

LoopNeedsInvoice(loop, queue) ==
    [loop EXCEPT !.at = IF queue = << >> THEN "idle" ELSE "fetch",
                 !.quotes = 0, !.uuid = "none", !.hash = NoHash]

ProcessNeedsInvoice ==
    /\ "invoice" \in wake
    /\ wake' = wake \ {"invoice"}
    /\ iloop' = IF iloop.at = "idle" THEN LoopNeedsInvoice(iloop, needs_invoice) ELSE iloop
    /\ UNCHANGED <<rows, compl, address, needs_invoice, periodic, reduces, polls, world>>

\* What every step of the invoice loop leaves alone.
InvoiceLoopFrame == UNCHANGED <<addrcache, resp, compl, address, wake, periodic, reduces, polls,
                                used, onchain, height, crashes>>

\* loop_needs_invoice, its transaction, and SolicitSwapQuotation: n providers
\* answer.  If the swap is not in the table, the members amount and address
\* keep what the previous round left in them.
SolicitSwapQuotation ==
    /\ iloop.at = "fetch"
    /\ \E n \in (IF Reliable THEN {MaxQuotes} ELSE 0 .. MaxQuotes) :
         LET u == Head(needs_invoice)
             round == [iloop EXCEPT !.at = "offers", !.quotes = n]
         IN iloop' = IF LiveSwap(u)
                     THEN [round EXCEPT !.amount = swaps[u].amount, !.address = swaps[u].address]
                     ELSE round
    /\ UNCHANGED <<swaps, needs_invoice, hashes>>
    /\ InvoiceLoopFrame

\* loop_quotations, none left: the swap is popped, and reduced after a yield.
GiveUpQuotations ==
    /\ iloop.at = "offers"
    /\ iloop.quotes = 0
    /\ iloop' = [iloop EXCEPT !.at = "reduce", !.uuid = Head(needs_invoice)]
    /\ needs_invoice' = Tail(needs_invoice)
    /\ UNCHANGED <<swaps, hashes>>
    /\ InvoiceLoopFrame

\* AcceptSwapQuotation, and SwapCreation with a failure: the quotation is
\* dropped.  A provider that throws never answers.
SwapCreationFailed ==
    /\ iloop.at = "offers"
    /\ iloop.quotes > 0
    /\ ~Reliable
    /\ \/ iloop' = [iloop EXCEPT !.quotes = @ - 1]
       \/ iloop' = [iloop EXCEPT !.at = "stuck"]
    /\ UNCHANGED <<swaps, needs_invoice, hashes>>
    /\ InvoiceLoopFrame

\* AcceptSwapQuotation, and SwapCreation: the provider has set up a swap of the
\* accepted amount to the accepted address, under a new hash.
SwapCreationSucceeded ==
    /\ iloop.at = "offers"
    /\ iloop.quotes > 0
    /\ \E h \in Hash :
         /\ \A k \in Hash : hashes[k].st = "none" <=> k >= h
         /\ hashes' = [hashes EXCEPT ![h] =
               [st |-> "unpaid", uuid |-> Head(needs_invoice), amount |-> iloop.amount,
                address |-> iloop.address, timeout |-> height + Lifetime]]
         /\ iloop' = [iloop EXCEPT !.at = "created", !.hash = h]
    /\ UNCHANGED <<swaps, needs_invoice>>
    /\ InvoiceLoopFrame

\* on_swap_creation, its transaction.  The row of the swap may be gone; then
\* the INSERT of the provider violates the foreign key and throws.
OnSwapCreation ==
    /\ iloop.at = "created"
    /\ LET u == Head(needs_invoice)
       IN \/ /\ LiveSwap(u)
             /\ swaps' = [swaps EXCEPT ![u].state = "AwaitingResult", ![u].hash = iloop.hash]
             /\ iloop' = [iloop EXCEPT !.at = "pay"]
          \/ /\ ~LiveSwap(u)
             /\ iloop' = [iloop EXCEPT !.at = "stuck"]
             /\ UNCHANGED swaps
    /\ UNCHANGED <<needs_invoice, hashes>>
    /\ InvoiceLoopFrame

\* PayInvoice is raised: InvoicePayer starts the payment, or its RPC fails
\* before lightningd knows of the payment.
PayInvoice ==
    /\ iloop.at = "pay"
    /\ \/ hashes' = [hashes EXCEPT ![iloop.hash].st = "pending"]
       \/ ~Reliable /\ UNCHANGED hashes
    /\ iloop' = [iloop EXCEPT !.at = "pop"]
    /\ UNCHANGED <<swaps, needs_invoice>>
    /\ InvoiceLoopFrame

\* on_swap_creation, its end: the swap is popped and the loop goes round.
PopInvoice ==
    /\ iloop.at = "pop"
    /\ needs_invoice' = Tail(needs_invoice)
    /\ iloop' = LoopNeedsInvoice(iloop, needs_invoice')
    /\ UNCHANGED <<swaps, hashes>>
    /\ InvoiceLoopFrame

-----------------------------------------------------------------------------
\* Reducing and failing swaps.

\* SwapResponse, handled by the requester in the same transaction.
SwapResponse(u, result) ==
    resp' = IF resp[u] = "none" THEN [resp EXCEPT ![u] = result] ELSE resp

\* The amounts swap_reduce_or_fail may draw.
ReducedAmounts(amount) ==
    {IF n < MinAmount THEN MinAmount ELSE n : n \in (amount \div 4) .. ((amount * 3) \div 4)}

\* swap_reduce_or_fail and fail_swap, in one transaction.  The state of the
\* swap is not looked at; a swap not in the table reads as amount = min = 0.
SwapReduceOrFail(u) ==
    \/ /\ LiveSwap(u)
       /\ swaps[u].amount # MinAmount
       /\ \E n \in ReducedAmounts(swaps[u].amount) :
             swaps' = [swaps EXCEPT ![u].state = "NeedsInvoice", ![u].amount = n,
                                    ![u].hash = NoHash]
       /\ needs_invoice' = Append(needs_invoice, u)
       /\ wake' = wake \cup {"invoice"}
       /\ UNCHANGED <<addrcache, resp>>
    \/ /\ LiveSwap(u)
       /\ swaps[u].amount = MinAmount
       /\ addrcache' = Append(addrcache, swaps[u].address)
       /\ swaps' = [swaps EXCEPT ![u] = Gone]
       /\ SwapResponse(u, "failed")
       /\ UNCHANGED <<needs_invoice, wake>>
    \/ /\ ~LiveSwap(u)
       /\ SwapResponse(u, "failed")
       /\ UNCHANGED <<swaps, addrcache, needs_invoice, wake>>

\* The invoice loop reduces the swap nobody quoted for.
ReduceInLoop ==
    /\ iloop.at = "reduce"
    /\ SwapReduceOrFail(iloop.uuid)
    /\ iloop' = [iloop EXCEPT !.at = "again"]
    /\ UNCHANGED <<address, periodic, reduces, compl, polls, world>>

NextInvoice ==
    /\ iloop.at = "again"
    /\ iloop' = LoopNeedsInvoice(iloop, needs_invoice)
    /\ UNCHANGED <<swaps, needs_invoice, hashes>>
    /\ InvoiceLoopFrame

\* A swap_reduce_or_fail that on_block or on_response_listpays has called.
Reduce(u) ==
    /\ reduces[u] > 0
    /\ SwapReduceOrFail(u)
    /\ reduces' = [reduces EXCEPT ![u] = @ - 1]
    /\ UNCHANGED <<address, iloop, periodic, compl, polls, world>>

-----------------------------------------------------------------------------
\* The timer: on_periodic, one transaction after the other.

Timer10Minutes ==
    /\ periodic = "idle"
    /\ periodic' = "address"
    /\ UNCHANGED <<rows, compl, address, invoice, wake, reduces, polls, world>>

\* load_queue: the rows of state s in some order, if the queue is empty.
LoadQueue(queue, s) ==
    IF queue = << >> THEN SetToSeqs({u \in Uuid : swaps[u].state = s}) ELSE {queue}

PeriodicAddress ==
    /\ periodic = "address"
    /\ needs_address' \in LoadQueue(needs_address, "NeedsOnchainAddress")
    /\ StartAddressLoop(needs_address')
    /\ periodic' = "invoice"
    /\ UNCHANGED <<rows, compl, invoice, wake, reduces, polls, world>>

PeriodicInvoice ==
    /\ periodic = "invoice"
    /\ needs_invoice' \in LoadQueue(needs_invoice, "NeedsInvoice")
    /\ iloop' = IF iloop.at = "idle" THEN LoopNeedsInvoice(iloop, needs_invoice') ELSE iloop
    /\ periodic' = "check"
    /\ UNCHANGED <<rows, compl, address, wake, reduces, polls, world>>

\* initiate_check_payments
PeriodicCheck ==
    /\ periodic = "check"
    /\ listpays' = listpays \cup
          {swaps[u].hash : u \in {v \in Uuid : swaps[v].state = "AwaitingResult"}}
    /\ periodic' = "idle"
    /\ UNCHANGED <<rows, compl, address, invoice, wake, reduces, funds, blocks, world>>

-----------------------------------------------------------------------------
\* Results of the payment and of the chain.

\* The swaps selected here are reduced later, each in its own transaction.
Select(selected) ==
    /\ \A u \in selected : reduces[u] < MaxReduces
    /\ reduces' = [u \in Uuid |-> reduces[u] + (IF u \in selected THEN 1 ELSE 0)]

\* Mutant of ListpaysFailed: a failed payment is treated like a pending one.
ListpaysFailedIgnored(h) ==
    /\ h \in listpays
    /\ hashes[h].st = "failed"
    /\ listpays' = listpays \ {h}
    /\ UNCHANGED <<rows, compl, address, invoice, wake, periodic, reduces, funds, blocks, world>>

\* on_response_listpays, status failed.
ListpaysFailed(h) ==
    /\ h \in listpays
    /\ hashes[h].st = "failed"
    /\ listpays' = listpays \ {h}
    /\ Select({u \in Uuid : LiveSwap(u) /\ swaps[u].hash = h})
    /\ UNCHANGED <<rows, compl, address, invoice, wake, periodic, funds, blocks, world>>

\* on_response_listpays, pending or nonexistent (an RPC error reads as that).
ListpaysIgnored(h) ==
    /\ h \in listpays
    /\ Reliable => hashes[h].st \in {"unpaid", "pending", "claimed"}
    /\ listpays' = listpays \ {h}
    /\ UNCHANGED <<rows, compl, address, invoice, wake, periodic, reduces, funds, blocks, world>>

\* Mutant of OnPaySuccess: the onchain record is not consulted.
OnPaySuccessBlind(h) ==
    /\ h \in listpays
    /\ hashes[h].st = "complete"
    /\ listpays' = listpays \ {h}
    /\ comp_pay' = comp_pay \cup {h}
    /\ UNCHANGED <<rows, comp_onchain, seen, completed, address, invoice, wake, periodic, reduces,
                   funds, blocks, world>>

\* on_pay_success and broadcast_completed, one transaction.
OnPaySuccess(h) ==
    /\ h \in listpays
    /\ hashes[h].st = "complete"
    /\ listpays' = listpays \ {h}
    /\ \/ /\ h \in comp_onchain
          /\ comp_onchain' = comp_onchain \ {h}
          /\ completed' = [completed EXCEPT ![h] = @ + 1]
          /\ UNCHANGED comp_pay
       \/ /\ h \notin comp_onchain
          /\ comp_pay' = comp_pay \cup {h}
          /\ UNCHANGED <<comp_onchain, completed>>
    /\ UNCHANGED <<rows, seen, address, invoice, wake, periodic, reduces, funds, blocks, world>>

\* on_onchain_funds_seen and broadcast_completed, one transaction.
OnOnchainFundsSeen(h) ==
    /\ h \in seen
    /\ seen' = seen \ {h}
    /\ \/ /\ h \in comp_pay
          /\ comp_pay' = comp_pay \ {h}
          /\ completed' = [completed EXCEPT ![h] = @ + 1]
          /\ UNCHANGED comp_onchain
       \/ /\ h \notin comp_pay
          /\ comp_onchain' = comp_onchain \cup {h}
          /\ UNCHANGED <<comp_pay, completed>>
    /\ UNCHANGED <<rows, address, invoice, wake, periodic, reduces, polls, world>>

\* on_listfunds_result: every output of the wallet is queued.
OnListfundsResult ==
    /\ ~ (onchain \subseteq funds)
    /\ funds' = funds \cup onchain
    /\ UNCHANGED <<rows, compl, address, invoice, wake, periodic, reduces, listpays, blocks, world>>

\* Mutant of LoopOnchainFunds: the swap is deleted and nobody is told.
LoopOnchainFundsSilent(a) ==
    /\ a \in funds
    /\ funds' = funds \ {a}
    /\ \E u \in Uuid :
         /\ swaps[u].state = "AwaitingResult" /\ swaps[u].address = a
         /\ seen' = seen \cup {swaps[u].hash}
         /\ swaps' = [swaps EXCEPT ![u] = Gone]
    /\ UNCHANGED <<addrcache, resp, comp_onchain, comp_pay, completed, address, invoice, wake,
                   periodic, reduces, listpays, blocks, world>>

\* loop_onchain_funds, one output: a swap that awaits its result at that
\* address has completed.
LoopOnchainFunds(a) ==
    /\ a \in funds
    /\ funds' = funds \ {a}
    /\ LET found == {u \in Uuid : swaps[u].state = "AwaitingResult" /\ swaps[u].address = a}
       IN \/ \E u \in found :
                /\ seen' = seen \cup {swaps[u].hash}
                /\ swaps' = [swaps EXCEPT ![u] = Gone]
                /\ SwapResponse(u, "success")
          \/ found = {} /\ UNCHANGED <<swaps, seen, resp>>
    /\ UNCHANGED <<addrcache, comp_onchain, comp_pay, completed, address, invoice, wake, periodic,
                   reduces, listpays, blocks, world>>

\* on_block selects the timed-out swaps.
OnBlock(b) ==
    /\ b \in blocks
    /\ blocks' = blocks \ {b}
    /\ Select({u \in Uuid : swaps[u].state = "AwaitingResult" /\ hashes[swaps[u].hash].timeout <= b})
    /\ UNCHANGED <<rows, compl, address, invoice, wake, periodic, listpays, funds, world>>

-----------------------------------------------------------------------------
\* Environment.

Environment ==
    UNCHANGED <<rows, compl, address, invoice, wake, periodic, reduces, listpays, funds, used, crashes>>

\* BlockTracker raises Block.
Block ==
    /\ height < MaxHeight
    /\ height' = height + 1
    /\ blocks' = blocks \cup {height'}
    /\ UNCHANGED <<hashes, onchain>>
    /\ Environment

\* The provider has locked the funds and our claim transaction takes them.
Claim(h) ==
    /\ hashes[h].st = "pending"
    /\ height + ClaimMargin < hashes[h].timeout
    /\ hashes' = [hashes EXCEPT ![h].st = "claimed"]
    /\ onchain' = onchain \cup {hashes[h].address}
    /\ UNCHANGED <<height, blocks>>
    /\ Environment

\* The provider learns the preimage from the claim and takes the payment; a
\* payment whose funds were not claimed fails.
PayEnds(h) ==
    /\ \/ hashes[h].st = "claimed" /\ hashes' = [hashes EXCEPT ![h].st = "complete"]
       \/ hashes[h].st = "pending" /\ hashes' = [hashes EXCEPT ![h].st = "failed"]
    /\ UNCHANGED <<height, blocks, onchain>>
    /\ Environment

\* The process dies and is started again: on_init runs on_periodic, and
\* BlockTracker announces the current block.
Crash ==
    /\ crashes < MaxCrashes
    /\ crashes' = crashes + 1
    /\ needs_address' = << >> /\ needs_invoice' = << >>
    /\ aloop' = [at |-> "idle", address |-> "none"]
    /\ iloop' = LoopStart
    /\ wake' = {}
    /\ periodic' = "address"
    /\ reduces' = [u \in Uuid |-> 0]
    /\ listpays' = {} /\ seen' = {} /\ funds' = {}
    /\ blocks' = {height}
    /\ UNCHANGED <<rows, comp_onchain, comp_pay, completed, hashes, used, onchain, height>>

AddressStep ==
    \/ ProcessNeedsAddress \/ AddressFromCache \/ RequestNewaddr
    \/ OnResponseNewaddr \/ NextAddress

InvoiceStep ==
    \/ ProcessNeedsInvoice \/ SolicitSwapQuotation \/ GiveUpQuotations
    \/ SwapCreationFailed \/ SwapCreationSucceeded \/ OnSwapCreation
    \/ PayInvoice \/ PopInvoice \/ ReduceInLoop \/ NextInvoice

PeriodicStep == Timer10Minutes \/ PeriodicAddress \/ PeriodicInvoice \/ PeriodicCheck

ResultStep ==
    \/ \E u \in Uuid : Reduce(u)
    \/ \E h \in Hash :
          ListpaysFailed(h) \/ ListpaysIgnored(h) \/ OnPaySuccess(h) \/ OnOnchainFundsSeen(h)
    \/ \E a \in Addr : LoopOnchainFunds(a)
    \/ \E b \in 0 .. MaxHeight : OnBlock(b)
    \/ OnListfundsResult

WorldStep == Block \/ \E h \in Hash : Claim(h) \/ PayEnds(h)

Next ==
    \/ \E u \in Uuid : SwapRequest(u)
    \/ AddressStep \/ InvoiceStep \/ PeriodicStep \/ ResultStep \/ WorldStep
    \/ Crash

Spec == Init /\ [][Next]_swapVars

\* Every ready greenthread is run, the timer and the polls recur, and every
\* payment ends.
Fairness ==
    /\ WF_swapVars(AddressStep) /\ WF_swapVars(InvoiceStep) /\ WF_swapVars(PeriodicStep)
    /\ WF_swapVars(OnListfundsResult)
    /\ \A u \in Uuid : WF_swapVars(Reduce(u))
    /\ \A a \in Addr : WF_swapVars(LoopOnchainFunds(a))
    /\ \A h \in Hash :
         /\ WF_swapVars(ListpaysFailed(h) \/ ListpaysIgnored(h) \/ OnPaySuccess(h))
         /\ WF_swapVars(OnOnchainFundsSeen(h))
         /\ WF_swapVars(Claim(h) \/ PayEnds(h))

FairSpec == Spec /\ Fairness

-----------------------------------------------------------------------------

\* An onchain address belongs to one owner: a swap in the table, a place in
\* the cache of addresses of failed swaps, or the answer the address loop is
\* about to store.  Otherwise two swaps would be completed by one output.
AddressExclusive ==
    /\ \A u, v \in Uuid : u # v /\ swaps[u].address # "none" => swaps[u].address # swaps[v].address
    /\ \A i, j \in 1 .. Len(addrcache) : addrcache[i] = addrcache[j] => i = j
    /\ \A u \in Uuid, i \in 1 .. Len(addrcache) : swaps[u].address # addrcache[i]
    /\ aloop.at = "load" =>
          /\ \A u \in Uuid : swaps[u].address # aloop.address
          /\ \A i \in 1 .. Len(addrcache) : addrcache[i] # aloop.address

\* The two halves of a completed swap meet: a hash is never recorded both as
\* paid and as seen onchain, and SwapCompleted is raised once for it.
CompletionMeets ==
    /\ comp_onchain \cap comp_pay = {}
    /\ \A h \in Hash : completed[h] <= 1
    /\ \A h \in comp_onchain \cup seen : completed[h] = 0

Service == INSTANCE SwapService WITH pending <- {u \in Uuid : LiveSwap(u)}, answer <- resp

\* What the requesters rely on (SwapService): a swap is answered once, when it
\* leaves the table, and in the same transaction.
ImplementsService == Service!ServiceSpec

\* Every swap that is requested is answered with a SwapResponse, as long as
\* lightningd and the providers answer and the process is not restarted.
EverySwapAnswered == \A u \in Uuid : LiveSwap(u) ~> resp[u] # "none"

\* "Limits of the offchain amount to swap" (SwapRequest.hpp): what one
\* swap has paid for, for good, does not exceed the limit of its request.
PaidWithinLimit ==
    \A u \in Uuid :
       MapThenSumSet(LAMBDA h : hashes[h].amount,
                     {h \in Hash : hashes[h].uuid = u
                                   /\ hashes[h].st \in {"claimed", "complete"}})
       <= MaxAmount
=============================================================================
