--------------------------- MODULE ChannelCreator ---------------------------
(***************************************************************************)
(* Channel creation cycles: the OnchainFundsAnnouncer polls the wallet, the *)
(* ChannelCreationDecider asks for a cycle, the Manager of the             *)
(* ChannelCreator runs it and its Carpenter opens the channels and reports *)
(* the outcome.  The table of candidates, the wallet and the peers are the *)
(* environment.                                                            *)
(*                                                                         *)
(* A cycle is a chain of continuations: everything else can happen between *)
(* two of its steps.  The Planner is used by what its own module shows: it *)
(* plans no more than the amount, no single channel for a node with fewer  *)
(* than two, and its assertions abort the process.                         *)
(***************************************************************************)
EXTENDS Integers, FiniteSets, FiniteSetsExt

CONSTANTS
    Peers,
    Cycles,     \* greenthreads that can run a cycle
    Settings,   \* the AmountSettings that the validation lets through
    Funds,      \* what a deposit can bring the wallet to
    ChanFunds,  \* what ChannelFunds can announce
    HoldOff,    \* max_onchain_holdoff
    MaxEvents,  \* bound on deposits, settings changes and new candidates
    MaxPolls,   \* bound on polls of the wallet (one per block)
    MaxOpens    \* bound on channels that the peers or the operator open

Nil == -1

VARIABLES
    settings,   \* the last AmountSettings
    wallet,     \* onchain funds
    polled,     \* what fundpsbt answered last, while OnchainFunds is due
    low_fee, channels_total, saved_onchain, \* what the decider heard, or unset
    requests,   \* amounts of RequestChannelCreation not delivered yet
    cycle_running,
    cycle,      \* the state of each greenthread
    candidates, \* the investigator's table
    channels,   \* peers that have a channel with us
    reports,    \* ChannelCreateResult not delivered yet: <<peer, ok>>
    aborted,    \* an assert of the Planner failed
    doubled,    \* peers that CLBOSS opened a second channel to
    late,       \* peers that opened one after the Carpenter's check
    events, polls, opens

decider == <<low_fee, channels_total, saved_onchain>>
manager == <<cycle_running, cycle>>
world == <<wallet, candidates, channels, reports>>
history == <<doubled, late>>
bounds == <<events, polls, opens>>
creatorVars == <<settings, polled, decider, requests, manager, world, aborted, history, bounds>>

Setting == [min_channel: Nat, max_channel: Nat, reserve: Nat,
            min_amount: Nat, min_remaining: Nat]

\* What AmountSettingsHandler publishes.
Validated(s) ==
    /\ s.min_channel > 0
    /\ s.min_amount = 2 * s.min_channel
    /\ s.min_remaining > s.min_amount
    /\ s.min_channel + s.min_remaining <= s.max_channel

ASSUME CreatorAssumption ==
    /\ Settings \subseteq Setting
    /\ \A s \in Settings : Validated(s)
    /\ Funds \subseteq Nat /\ ChanFunds \subseteq Nat
    /\ HoldOff \in Nat /\ MaxEvents \in Nat /\ MaxPolls \in Nat /\ MaxOpens \in Nat

Idle == [phase |-> "idle", amt |-> 0, existing |-> 0, nodes |-> {},
         fails |-> {}, passes |-> {}]

CreatorInit ==
    /\ settings \in Settings
    /\ polled = Nil
    /\ low_fee = "unset" /\ channels_total = Nil /\ saved_onchain = Nil
    /\ requests = {}
    /\ cycle_running = FALSE /\ cycle = [c \in Cycles |-> Idle]
    /\ wallet = 0 /\ candidates = Peers /\ channels = {} /\ reports = {}
    /\ aborted = FALSE
    /\ doubled = {} /\ late = {}
    /\ events = 0 /\ polls = 0 /\ opens = 0

-----------------------------------------------------------------------------
\* OnchainFundsAnnouncer.

\* announce: fundpsbt fails without funds.
Fundpsbt ==
    /\ wallet > 0
    /\ polls < MaxPolls
    /\ polls' = polls + 1
    /\ polled' = wallet
    /\ UNCHANGED <<settings, decider, requests, manager, world, aborted, history, events, opens>>

-----------------------------------------------------------------------------
\* ChannelCreationDecider.

\* run: what the onchain funds must reach before a cycle is worth it.
WorthIt(total) ==
    Min({Max({total \div 10, settings.min_amount}), HoldOff}) + settings.reserve

\* run and decide: the amount to request, if any.
Decide(onchain, low, total) ==
    IF /\ onchain > settings.reserve
       /\ onchain >= WorthIt(total)
       /\ low \/ onchain * 100 > 33 * total
    THEN {onchain - settings.reserve}
    ELSE {}

\* run with what was heard so far; a complete trigger uses the funds up.
Run(fee, chans, onchain) ==
    /\ low_fee' = fee /\ channels_total' = chans
    /\ IF fee # "unset" /\ chans # Nil /\ onchain # Nil
       THEN /\ saved_onchain' = Nil
            /\ requests' = requests \union Decide(onchain, fee = "low", chans + onchain)
       ELSE /\ saved_onchain' = onchain
            /\ UNCHANGED requests
    /\ UNCHANGED <<settings, manager, world, aborted, history, bounds>>

OnchainFunds ==
    /\ polled # Nil
    /\ Run(low_fee, channels_total, polled)
    /\ polled' = Nil

ChannelFunds(f) == Run(low_fee, f, saved_onchain) /\ UNCHANGED polled

OnchainFee(fee) == Run(fee, channels_total, saved_onchain) /\ UNCHANGED polled

-----------------------------------------------------------------------------
\* Manager.

\* on_request_channel_creation: will the assertions of the Planner hold?
Plannable(amt) ==
    /\ amt >= 2 * settings.min_channel
    /\ settings.min_channel + settings.min_remaining <= settings.max_channel

StartCycle(amt) ==
    \E c \in Cycles :
       /\ cycle[c].phase = "idle"
       /\ cycle_running' = TRUE
       /\ cycle' = [cycle EXCEPT ![c] =
             [Idle EXCEPT !.phase = IF Plannable(amt) THEN "getinfo" ELSE "end", !.amt = amt]]

\* A request is skipped while a cycle runs, and starts one otherwise.
RequestChannelCreation(amt) ==
    /\ requests' = requests \ {amt}
    /\ \/ cycle_running /\ UNCHANGED manager
       \/ ~cycle_running /\ StartCycle(amt)
    /\ UNCHANGED <<settings, polled, decider, world, aborted, history, bounds>>

\* A step of a cycle that changes only the cycle.
OnlyCycle ==
    UNCHANGED <<settings, polled, decider, requests, cycle_running, world, aborted,
                history, bounds>>

\* getinfo: how many channels there are now.
GetInfo(c) ==
    /\ cycle[c].phase = "getinfo"
    /\ cycle' = [cycle EXCEPT ![c].phase = "candidates", ![c].existing = Cardinality(channels)]
    /\ OnlyCycle

\* investigator.get_channel_candidates
GetCandidates(c) ==
    /\ cycle[c].phase = "candidates"
    /\ cycle' = [cycle EXCEPT ![c].phase = "drop", ![c].nodes = candidates]
    /\ OnlyCycle

\* drop_channeled: no proposals are left when listpeerchannels fails.
DropChanneled(c) ==
    /\ cycle[c].phase = "drop"
    /\ \E left \in {cycle[c].nodes \ channels, {}} :
          cycle' = [cycle EXCEPT ![c].phase = "order", ![c].nodes = left]
    /\ OnlyCycle

\* Mutant of CycleError: the exception ends the greenthread.
CycleErrorLoses(c) ==
    /\ cycle[c].phase \in {"getinfo", "candidates", "order"}
    /\ cycle' = [cycle EXCEPT ![c] = Idle]
    /\ OnlyCycle

\* An exception that on_request_channel_creation lets through to run_cycle.
CycleError(c) ==
    /\ cycle[c].phase \in {"getinfo", "candidates", "order"}
    /\ cycle' = [cycle EXCEPT ![c].phase = "end"]
    /\ OnlyCycle

\* The proposals have been rearranged (the dowser was asked about each), and
\* the Planner is built with the limits of this moment.
Plan(c) ==
    /\ cycle[c].phase = "order"
    /\ \/ /\ ~Plannable(cycle[c].amt)
          /\ aborted' = TRUE
          /\ UNCHANGED cycle
       \/ /\ Plannable(cycle[c].amt)
          /\ \E fund \in SUBSET cycle[c].nodes : \E zero \in SUBSET (cycle[c].nodes \ fund) :
                /\ Cardinality(fund) * settings.min_channel <= cycle[c].amt
                /\ cycle[c].existing < 2 => Cardinality(fund) # 1
                /\ cycle' = [cycle EXCEPT
                      ![c].phase = IF fund # {} THEN "connect"
                                   ELSE IF zero # {} THEN "report" ELSE "end",
                      ![c].nodes = fund,
                      ![c].fails = zero]
          /\ UNCHANGED aborted
    /\ UNCHANGED <<settings, polled, decider, requests, cycle_running, world, history, bounds>>

-----------------------------------------------------------------------------
\* Carpenter.

\* construct: the connects, whose errors do not matter, and the wait.
Connect(c) ==
    /\ cycle[c].phase = "connect"
    /\ cycle' = [cycle EXCEPT ![c].phase = "check"]
    /\ OnlyCycle

\* Mutant of Check: the nodes are funded as planned.
CheckSkipped(c) ==
    /\ cycle[c].phase = "check"
    /\ cycle' = [cycle EXCEPT ![c].phase = "fund"]
    /\ OnlyCycle

\* construct: listpeerchannels right before funding.  When it fails the plan
\* is skipped and its nodes are not reported.
Check(c) ==
    /\ cycle[c].phase = "check"
    /\ \/ cycle' = [cycle EXCEPT ![c].phase = "report", ![c].nodes = {}]
       \/ LET left == cycle[c].nodes \ channels
          IN cycle' = [cycle EXCEPT
                ![c].phase = IF left = {} THEN "report" ELSE "fund",
                ![c].nodes = left,
                ![c].fails = @ \union (cycle[c].nodes \intersect channels)]
    /\ OnlyCycle

\* multifundchannel opens channels to some of the nodes.  Reading the result
\* stops at an entry that is malformed.
Fund(c) ==
    /\ cycle[c].phase = "fund"
    /\ \E opened \in SUBSET cycle[c].nodes \ {{}}, spent \in 1 .. Min({cycle[c].amt, wallet}) :
          /\ wallet' = wallet - spent
          /\ channels' = channels \union opened
          /\ doubled' = doubled \union (opened \intersect channels)
          /\ \/ cycle' = [cycle EXCEPT ![c].phase = "report", ![c].passes = opened,
                                       ![c].fails = @ \union (cycle[c].nodes \ opened)]
             \/ \E read \in SUBSET opened :
                   cycle' = [cycle EXCEPT ![c].phase = "report", ![c].passes = read]
    /\ UNCHANGED <<settings, polled, decider, requests, cycle_running, candidates, reports,
                   aborted, late, bounds>>

\* multifundchannel fails, and all of the nodes with it.
FundError(c) ==
    /\ cycle[c].phase = "fund"
    /\ cycle' = [cycle EXCEPT ![c].phase = "report", ![c].fails = @ \union cycle[c].nodes]
    /\ OnlyCycle

\* construct starts a greenthread for each kind of result and returns.
Report(c) ==
    /\ cycle[c].phase = "report"
    /\ reports' = reports \union (cycle[c].fails \X {FALSE}) \union (cycle[c].passes \X {TRUE})
    /\ cycle' = [cycle EXCEPT ![c].phase = "end"]
    /\ UNCHANGED <<settings, polled, decider, requests, cycle_running, wallet, candidates,
                   channels, aborted, history, bounds>>

\* run_cycle: however the cycle ended.
EndCycle(c) ==
    /\ cycle[c].phase = "end"
    /\ cycle_running' = FALSE
    /\ cycle' = [cycle EXCEPT ![c] = Idle]
    /\ late' = {}
    /\ UNCHANGED <<settings, polled, decider, requests, world, aborted, doubled, bounds>>

\* report_channelings, and the investigator that drops the candidate.
ChannelCreateResult(r) ==
    /\ r \in reports
    /\ reports' = reports \ {r}
    /\ candidates' = candidates \ {r[1]}
    /\ UNCHANGED <<settings, polled, decider, requests, manager, wallet, channels, aborted,
                   history, bounds>>

-----------------------------------------------------------------------------
\* The environment.

Event ==
    /\ events < MaxEvents
    /\ events' = events + 1
    /\ UNCHANGED <<polled, decider, requests, manager, channels, reports, aborted, history,
                   polls, opens>>

\* AmountSettings, raised by a setconfig at any time.
AmountSettings(s) == Event /\ settings' = s /\ UNCHANGED <<wallet, candidates>>

Deposit(f) == Event /\ f > wallet /\ wallet' = f /\ UNCHANGED <<settings, candidates>>

ProposeCandidate(p) ==
    Event /\ candidates' = candidates \union {p} /\ UNCHANGED <<settings, wallet>>

\* A peer or the operator opens a channel.
OtherOpen(p) ==
    /\ opens < MaxOpens
    /\ p \notin channels
    /\ channels' = channels \union {p}
    /\ opens' = opens + 1
    /\ late' = IF \E c \in Cycles : cycle[c].phase = "fund" THEN late \union {p} ELSE late
    /\ UNCHANGED <<settings, polled, decider, requests, manager, wallet, candidates, reports,
                   aborted, doubled, events, polls>>

Environment ==
    \/ \E s \in Settings \ {settings} : AmountSettings(s)
    \/ \E f \in Funds : Deposit(f)
    \/ \E p \in Peers \ candidates : ProposeCandidate(p)
    \/ \E p \in Peers : OtherOpen(p)

-----------------------------------------------------------------------------

DeciderStep ==
    \/ Fundpsbt \/ OnchainFunds
    \/ \E f \in ChanFunds : ChannelFunds(f)
    \/ \E fee \in {"low", "high"} : OnchainFee(fee)

CycleStep(c) ==
    \/ GetInfo(c) \/ GetCandidates(c) \/ DropChanneled(c) \/ CycleError(c) \/ Plan(c)
    \/ Connect(c) \/ Check(c) \/ Fund(c) \/ FundError(c) \/ Report(c) \/ EndCycle(c)

\* The assert that fails ends the process.
CreatorStep ==
    /\ ~aborted
    /\ \/ DeciderStep
       \/ \E amt \in requests : RequestChannelCreation(amt)
       \/ \E c \in Cycles : CycleStep(c)
       \/ \E r \in reports : ChannelCreateResult(r)
       \/ Environment

-----------------------------------------------------------------------------

\* "CLBOSS keeps one channel per peer and never opens a second one itself"
\* (README.md), as far as the check right before funding reaches (Carpenter::
\* construct): a second channel to a peer needs one that someone else opens
\* between that check and multifundchannel.
SecondChannelOnlyLate == [][doubled' \ doubled \subseteq late]_creatorVars

\* A cycle that started ends, whatever fails on the way, so that a later block
\* can start another (run_cycle).
CycleEnds == cycle_running ~> (~cycle_running \/ aborted)

\* "The Planner asserts both of these at construction; check here and skip the
\* cycle instead of aborting" (Manager.cpp).
NeverAborts == ~aborted
=============================================================================
