------------------------------ MODULE Candidates ------------------------------
(***************************************************************************)
(* How nodes become candidates for channels: the Preinvestigator, which    *)
(* connects to the nodes of a batch until enough of them are proposed, the *)
(* Matchmaker, which finds a patron for a proposal without one, and the    *)
(* ChannelCandidateInvestigator (Manager, Secretary, Gumshoe, Janitor,     *)
(* EvictionPolicy) with the tag "open" of the UnmanagedManager.            *)
(*                                                                         *)
(* All of them share the Connector, whose ResponseConnect goes to every    *)
(* listener, whoever asked.  RequestConnect returns only when the response *)
(* to it has been handled, so what the Preinvestigator does on a response  *)
(* is work of the greenthread that asked: todo[t] is the work that the     *)
(* greenthread t has left, in order.                                       *)
(***************************************************************************)
EXTENDS Integers, Sequences, FiniteSets, SequencesExt, TLC

CONSTANTS
    Nodes,        \* node ids
    Cases,        \* preinvestigations; each is used once
    Probes,       \* investigations of the Gumshoe; each is used once
    Others,       \* connects of other modules; each is used once
    NoCase,       \* the case of a connect that no case asked for
    Batches,      \* the candidates a finder may send, best first
    MaxCandidates, \* the values of max_candidates of a batch
    min_score,    \* score below which a candidate is dropped
    max_score,    \* score above which none rises
    max_candidates, \* candidates above which one is evicted
    max_investigation, \* candidates that one hour investigates
    Verdict,      \* the track record of each node
    Spliceable,   \* nodes that can splice
    MaxEvents     \* bound: timers, commands, sweeps, restarts and connects of others

ASSUME CandidatesAssumption ==
    /\ Batches \subseteq Seq(Nodes) /\ MaxCandidates \subseteq Nat \ {0}
    /\ min_score \in Int /\ max_score \in Int /\ min_score <= 0 /\ 0 <= max_score
    /\ max_candidates \in Nat /\ max_investigation \in Nat

VARIABLES
    phase,      \* of each case: "unused", "matching", "live", "done"
    candidates, \* of each case: the nodes it has left (Case::candidates)
    remaining,  \* of each case: proposals it may still make
    cases,      \* Impl::cases: who waits for the connect to a node
    guide,      \* of each case: the nodes the Matchmaker has yet to try
    todo,       \* of each greenthread: its work
    gcases,     \* Gumshoe::Impl::cases
    probe,      \* of each probe and other connect: its node while it asks listpeers,
                \* "unused" before and "gone" after
    reports,    \* reports of the Gumshoe whose transaction is pending
    hourly,     \* the TimerRandomHourly handler in progress
    score,      \* table ChannelCandidateInvestigator
    tags,       \* nodes with the tag "open" in the UnmanagedManager's tables
    unmanaged,  \* Manager::unmanaged
    removing,   \* nodes whose removal by the inform function is pending
    events,     \* of those, how many so far
    hist        \* for the properties: see below

caseVars == <<phase, candidates, remaining, cases, guide>>
gumshoeVars == <<gcases, probe, reports>>
tagVars == <<tags, unmanaged, removing>>
vars == <<caseVars, todo, gumshoeVars, hourly, score, tagVars, events, hist>>

Threads == Cases \cup Probes \cup Others
Idle == [stage |-> "idle", all |-> {}, picked |-> {}]

\* overtaken: proposals whose node was unmanaged after their check.
\* raced: candidates that such proposals inserted.
NoHist == [overtaken |-> {}, raced |-> {}]

\* The memory of a new process.
Fresh == [phase |-> [c \in Cases |-> "unused"],
          candidates |-> [c \in Cases |-> <<>>],
          remaining |-> [c \in Cases |-> 0],
          cases |-> [n \in Nodes |-> <<>>],
          guide |-> [c \in Cases |-> <<>>],
          todo |-> [t \in Threads |-> <<>>],
          probe |-> [p \in Probes \cup Others |-> "unused"]]

Init ==
    /\ phase = Fresh.phase /\ candidates = Fresh.candidates /\ remaining = Fresh.remaining
    /\ cases = Fresh.cases /\ guide = Fresh.guide /\ todo = Fresh.todo
    /\ gcases = {} /\ probe = Fresh.probe /\ reports = <<>>
    /\ hourly = Idle
    /\ score = <<>>
    /\ tags = {} /\ unmanaged = {} /\ removing = {}
    /\ events = 0
    /\ hist = NoHist

Event == events < MaxEvents /\ events' = events + 1

-----------------------------------------------------------------------------
(* The Preinvestigator. *)

Item(op, n, c) == [op |-> op, n |-> n, c |-> c]

\* The Preinvestigator as it is, and the work its next calls leave.
Pre == [phase |-> phase, candidates |-> candidates, remaining |-> remaining,
        cases |-> cases, out |-> <<>>]

Become(s) ==
    /\ phase' = s.phase /\ candidates' = s.candidates
    /\ remaining' = s.remaining /\ cases' = s.cases

\* Case::loop and add_case: the first case to wait for a node connects to it.
Loop(s, c) ==
    LET q == s.candidates[c] IN
    IF q = <<>> \/ s.remaining[c] = 0 THEN [s EXCEPT !.phase[c] = "done"]
    ELSE [s EXCEPT !.cases[Head(q)] = Append(@, c),
                   !.out = IF s.cases[Head(q)] = <<>>
                           THEN Append(@, Item("connect", Head(q), c)) ELSE @]

\* Case::on_connect_response.  The proposal of a success is work left to do; a
\* failure moves to the next candidate at once.
OnConnectResponse(success, s, c) ==
    LET popped == [s EXCEPT !.candidates[c] = Tail(@)] IN
    IF success
    THEN [popped EXCEPT !.remaining[c] = @ - 1,
                        !.out = Append(@, Item("propose", Head(s.candidates[c]), c))]
    ELSE Loop(popped, c)

\* Mutant of OnConnect: the entry stays.
OnConnectKeeps(n, success) ==
    FoldLeft(LAMBDA a, c : OnConnectResponse(success, a, c), Pre, cases[n])

\* on_connect: the entry of the node is erased, then its cases are answered.
OnConnect(n, success) ==
    FoldLeft(LAMBDA a, c : OnConnectResponse(success, a, c),
             [Pre EXCEPT !.cases[n] = <<>>], cases[n])

\* on_preinv, offline mode apart: a case runs on the greenthread that raised it.
Preinvestigate(c, b, max) ==
    LET s == Loop([Pre EXCEPT !.phase[c] = "live", !.candidates[c] = b, !.remaining[c] = max], c)
    IN  /\ Become(s)
        /\ todo' = [todo EXCEPT ![c] = s.out]

\* A finder sends a batch: Msg::PreinvestigateChannelCandidates.
Find(c) ==
    /\ phase[c] = "unused"
    /\ \E b \in Batches, max \in MaxCandidates : Preinvestigate(c, b, max)
    /\ UNCHANGED <<guide, gumshoeVars, hourly, score, tagVars, events, hist>>

-----------------------------------------------------------------------------
(* The Matchmaker. *)

\* Secretary::get_for_channeling: candidates with a positive score, best first,
\* or all of them if there is none.
ForChanneling ==
    LET good == {n \in DOMAIN score : score[n] > 0}
        them == IF good # {} THEN good ELSE DOMAIN score
    IN  {q \in SetToSeqs(them) : \A i, j \in DOMAIN q : i < j => score[q[i]] >= score[q[j]]}

\* Msg::ProposePatronlessChannelCandidate and Msg::PatronizeChannelCandidate.
Patronize(c, n) ==
    /\ phase[c] = "unused" /\ n \notin DOMAIN score /\ Event
    /\ phase' = [phase EXCEPT ![c] = "matching"]
    /\ candidates' = [candidates EXCEPT ![c] = <<n>>]
    /\ \E q \in ForChanneling : guide' = [guide EXCEPT ![c] = q]
    /\ UNCHANGED <<remaining, cases, todo, gumshoeVars, hourly, score, tagVars, hist>>

\* Run::core_run and step: getroutes finds no route to the next guide, ...
NoRoute(c) ==
    /\ phase[c] = "matching" /\ guide[c] # <<>>
    /\ guide' = [guide EXCEPT ![c] = Tail(@)]
    /\ UNCHANGED <<phase, candidates, remaining, cases, todo, gumshoeVars, hourly, score,
                   tagVars, events, hist>>

\* ... or there is none left, ...
NoPatron(c) ==
    /\ phase[c] = "matching" /\ guide[c] = <<>>
    /\ phase' = [phase EXCEPT ![c] = "done"]
    /\ candidates' = [candidates EXCEPT ![c] = <<>>]
    /\ UNCHANGED <<remaining, cases, guide, todo, gumshoeVars, hourly, score, tagVars, events, hist>>

\* ... or the first hop of the route is the patron, and the node is preinvestigated.
Match(c) ==
    /\ phase[c] = "matching" /\ guide[c] # <<>>
    /\ guide' = [guide EXCEPT ![c] = <<>>]
    /\ Preinvestigate(c, candidates[c], 1)
    /\ UNCHANGED <<gumshoeVars, hourly, score, tagVars, events, hist>>

-----------------------------------------------------------------------------
(* The Manager: a proposal on its way into the table. *)

First(t, op) == todo[t] # <<>> /\ Head(todo[t]).op = op
Continue(t, op) == todo' = [todo EXCEPT ![t] = <<[Head(@) EXCEPT !.op = op]>> \o Tail(@)]

\* Mutant of CheckUnmanaged: the check is missing.
CheckUnmanagedMissing(t) ==
    /\ First(t, "propose")
    /\ Continue(t, "dowse")
    /\ UNCHANGED <<caseVars, gumshoeVars, hourly, score, tagVars, events, hist>>

\* Msg::ProposeChannelCandidates: unmanaged nodes are refused ...
CheckUnmanaged(t) ==
    /\ First(t, "propose")
    /\ Continue(t, IF Head(todo[t]).n \in unmanaged THEN "loop" ELSE "dowse")
    /\ UNCHANGED <<caseVars, gumshoeVars, hourly, score, tagVars, events, hist>>

\* ... and so are nodes whose dowsed amount is below min_channel (check_acceptable).
Dowse(t) ==
    /\ First(t, "dowse")
    /\ \E acceptable \in BOOLEAN : Continue(t, IF acceptable THEN "insert" ELSE "loop")
    /\ UNCHANGED <<caseVars, gumshoeVars, hourly, score, tagVars, events, hist>>

\* add_candidate: INSERT OR IGNORE.
Insert(t) ==
    LET n == Head(todo[t]).n
        c == Head(todo[t]).c
    IN  /\ First(t, "insert")
        /\ score' = score @@ (n :> 0)
        /\ Continue(t, "loop")
        /\ hist' = [hist EXCEPT !.overtaken = @ \ {c},
                                !.raced = IF n \in DOMAIN score THEN @
                                          ELSE IF c \in hist.overtaken THEN @ \cup {n} ELSE @ \ {n}]
        /\ UNCHANGED <<caseVars, gumshoeVars, hourly, tagVars, events>>

\* Mutant of NextCandidate: a case ends its work with its first proposal.
NextCandidateNever(t) ==
    /\ First(t, "loop")
    /\ todo' = [todo EXCEPT ![t] = Tail(@)]
    /\ UNCHANGED <<caseVars, gumshoeVars, hourly, score, tagVars, events, hist>>

\* The raise of the proposal is over; the case looks at its next candidate.
NextCandidate(t) ==
    LET s == Loop(Pre, Head(todo[t]).c)
    IN  /\ First(t, "loop")
        /\ Become(s)
        /\ todo' = [todo EXCEPT ![t] = s.out \o Tail(@)]
        /\ UNCHANGED <<guide, gumshoeVars, hourly, score, tagVars, events, hist>>

-----------------------------------------------------------------------------
(* The Connector, and the Gumshoe. *)

\* Msg::RequestConnect: the connect command is sent.
RequestConnect(t) ==
    /\ First(t, "connect")
    /\ Continue(t, "rpc")
    /\ UNCHANGED <<caseVars, gumshoeVars, hourly, score, tagVars, events, hist>>

\* Gumshoe::Impl::on_response_connect.  The disconnect after a success changes
\* nothing here.
OnResponseConnect(n, success) ==
    IF n \in gcases
    THEN /\ gcases' = gcases \ {n}
         /\ reports' = Append(reports, <<n, success>>)
         /\ UNCHANGED probe
    ELSE UNCHANGED gumshoeVars

\* The connect command returns and Msg::ResponseConnect is raised: both
\* listeners handle it.
ResponseConnect(t, success) ==
    LET n == Head(todo[t]).n
        s == OnConnect(n, success)
    IN  /\ First(t, "rpc")
        /\ Become(s)
        /\ todo' = [todo EXCEPT ![t] = s.out \o Tail(@)]
        /\ OnResponseConnect(n, success)
        /\ UNCHANGED <<guide, hourly, score, tagVars, events, hist>>

\* Another module connects to a node.
OtherConnect(o, n) ==
    /\ probe[o] = "unused" /\ Event
    /\ probe' = [probe EXCEPT ![o] = "gone"]
    /\ todo' = [todo EXCEPT ![o] = <<Item("connect", n, NoCase)>>]
    /\ UNCHANGED <<caseVars, gcases, reports, hourly, score, tagVars, hist>>

\* investigate_core, is_connected: a node that is connected is online, ...
AlreadyConnected(p) ==
    /\ probe[p] \in Nodes
    /\ probe' = [probe EXCEPT ![p] = "gone"]
    /\ reports' = Append(reports, <<probe[p], TRUE>>)
    /\ UNCHANGED <<caseVars, todo, gcases, hourly, score, tagVars, events, hist>>

\* ... to any other the Gumshoe connects.
Investigate(p) ==
    /\ probe[p] \in Nodes
    /\ probe' = [probe EXCEPT ![p] = "gone"]
    /\ gcases' = gcases \cup {probe[p]}
    /\ todo' = [todo EXCEPT ![p] = <<Item("connect", probe[p], NoCase)>>]
    /\ UNCHANGED <<caseVars, reports, hourly, score, tagVars, events, hist>>

\* The report function and Secretary::update_score, in one transaction.
UpdateScore ==
    LET n == Head(reports)[1]
        raised == score[n] + (IF Head(reports)[2] THEN 1 ELSE -1)
        new == IF raised > max_score THEN max_score ELSE raised
    IN  /\ reports # <<>>
        /\ reports' = Tail(reports)
        /\ score' = IF n \notin DOMAIN score THEN score
                    ELSE IF new < min_score THEN Restrict(score, DOMAIN score \ {n})
                    ELSE [score EXCEPT ![n] = new]
        /\ UNCHANGED <<caseVars, todo, gcases, probe, hourly, tagVars, events, hist>>

-----------------------------------------------------------------------------
(* The Manager: timers, sweeps and commands. *)

\* Msg::TimerRandomHourly, its first transaction.
Hourly(picked) ==
    /\ hourly = Idle /\ Event
    /\ picked \subseteq DOMAIN score
    /\ IF Cardinality(DOMAIN score) <= max_investigation THEN picked = DOMAIN score
       ELSE Cardinality(picked) = max_investigation
    /\ Cardinality(picked) <= Cardinality({p \in Probes : probe[p] = "unused"})
    /\ hourly' = [stage |-> IF Cardinality(DOMAIN score) > max_candidates THEN "evict" ELSE "hand over",
                  all |-> IF Cardinality(DOMAIN score) > max_candidates THEN DOMAIN score ELSE {},
                  picked |-> picked]
    /\ UNCHANGED <<caseVars, todo, gumshoeVars, score, tagVars, hist>>

\* EvictionPolicy::pick: the first stratum that is not empty.
Expendable(pool) ==
    LET of(v) == {n \in pool : Verdict[n] = v}
        plain == of("NoRecord") \ Spliceable
    IN  IF of("Underperformer") # {} THEN of("Underperformer")
        ELSE IF plain # {} THEN plain
        ELSE IF of("NoRecord") # {} THEN of("NoRecord")
        ELSE of("Keeper")

RemoveCandidates(gone) == score' = Restrict(score, DOMAIN score \ gone)

\* pick_eviction_victim, on the candidates of the first transaction, and the
\* transaction that drops the victim.
Evict ==
    /\ hourly.stage = "evict"
    /\ \E victim \in Expendable(hourly.all) : RemoveCandidates({victim})
    /\ hourly' = [hourly EXCEPT !.stage = "hand over", !.all = {}]
    /\ UNCHANGED <<caseVars, todo, gumshoeVars, tagVars, events, hist>>

\* The Internet is unreachable, or all cases are handed over.
HourlyEnds ==
    /\ hourly.stage = "hand over"
    /\ hourly' = Idle
    /\ UNCHANGED <<caseVars, todo, gumshoeVars, score, tagVars, events, hist>>

HandOver(n, p) ==
    /\ hourly.stage = "hand over" /\ n \in hourly.picked
    /\ probe[p] = "unused"
    /\ hourly' = [hourly EXCEPT !.picked = @ \ {n}]
    /\ probe' = [probe EXCEPT ![p] = n]
    /\ UNCHANGED <<caseVars, todo, gcases, reports, score, tagVars, events, hist>>

\* Msg::TimerTwiceDaily, Msg::ListpeersAnalyzedResult and Msg::ChannelCreateResult:
\* candidates whose dowsed amount has fallen (Janitor::clean_up), that have a
\* channel, or that were tried are removed, each in one transaction.
Sweep(gone) ==
    /\ Event /\ gone # {} /\ gone \subseteq DOMAIN score
    /\ RemoveCandidates(gone)
    /\ UNCHANGED <<caseVars, todo, gumshoeVars, hourly, tagVars, hist>>

\* Cases whose proposal of n has passed the check.
Checked(n) ==
    {c \in Cases : \E t \in Threads : \E i \in DOMAIN todo[t] :
        todo[t][i].c = c /\ todo[t][i].n = n /\ todo[t][i].op \in {"dowse", "insert"}}

\* UnmanagedManager::unmanage with the tag "open", and the inform function: the
\* member changes within the transaction, the row is removed after it.
Unmanage(n) ==
    /\ n \notin tags /\ Event
    /\ tags' = tags \cup {n} /\ unmanaged' = unmanaged \cup {n} /\ removing' = removing \cup {n}
    /\ hist' = [hist EXCEPT !.overtaken = @ \cup Checked(n)]
    /\ UNCHANGED <<caseVars, todo, gumshoeVars, hourly, score>>

RemoveUnmanaged(n) ==
    /\ n \in removing
    /\ removing' = removing \ {n}
    /\ RemoveCandidates({n})
    /\ UNCHANGED <<caseVars, todo, gumshoeVars, hourly, tags, unmanaged, events, hist>>

\* unmanage without the tag.
Manage(n) ==
    /\ n \in tags /\ Event
    /\ tags' = tags \ {n} /\ unmanaged' = unmanaged \ {n}
    /\ UNCHANGED <<caseVars, todo, gumshoeVars, hourly, score, removing, hist>>

\* A new process: the UnmanagedManager informs of the tags (initial_inform),
\* Msg::Init removes the unmanaged candidates.
Restart ==
    /\ Event
    /\ Become([Fresh EXCEPT !.phase = [c \in Cases |-> IF phase[c] = "unused" THEN "unused" ELSE "done"]])
    /\ guide' = Fresh.guide /\ todo' = Fresh.todo
    /\ gcases' = {} /\ reports' = <<>>
    /\ probe' = [p \in Probes \cup Others |-> IF probe[p] = "unused" THEN "unused" ELSE "gone"]
    /\ hourly' = Idle
    /\ unmanaged' = tags /\ removing' = {}
    /\ RemoveCandidates(tags)
    /\ hist' = NoHist
    /\ UNCHANGED tags

-----------------------------------------------------------------------------

ThreadStep(t) ==
    \/ CheckUnmanaged(t) \/ Dowse(t) \/ Insert(t) \/ NextCandidate(t) \/ RequestConnect(t)
    \/ \E success \in BOOLEAN : ResponseConnect(t, success)

MatchStep(c) == NoRoute(c) \/ NoPatron(c) \/ Match(c)

Next ==
    \/ \E t \in Threads : ThreadStep(t)
    \/ \E c \in Cases : Find(c) \/ MatchStep(c) \/ \E n \in Nodes : Patronize(c, n)
    \/ \E p \in Probes : AlreadyConnected(p) \/ Investigate(p) \/ \E n \in Nodes : HandOver(n, p)
    \/ \E o \in Others, n \in Nodes : OtherConnect(o, n)
    \/ \E ns \in SUBSET Nodes : Hourly(ns) \/ Sweep(ns)
    \/ \E n \in Nodes : Unmanage(n) \/ RemoveUnmanaged(n) \/ Manage(n)
    \/ UpdateScore \/ Evict \/ HourlyEnds \/ Restart

\* Some greenthread that can run does, lightningd answers connect and getroutes,
\* and the Dowser answers whatever its probes do.  No more is asked: which
\* greenthread runs is open.
Fairness == WF_vars((\E t \in Threads : ThreadStep(t)) \/ (\E c \in Cases : MatchStep(c)))

Spec == Init /\ [][Next]_vars /\ Fairness

-----------------------------------------------------------------------------

Work(t, c) == {i \in DOMAIN todo[t] : todo[t][i].c = c /\ todo[t][i].op \notin {"connect", "rpc"}}
Places(c) == {<<t, i>> \in Threads \X (1 .. 8) : i \in Work(t, c)}
Waits(c) == {<<n, i>> \in Nodes \X (1 .. 8) : i \in DOMAIN cases[n] /\ cases[n][i] = c}

\* A live case is in one place: it waits for one connect, and that is the
\* connect to the candidate it will pop on the answer, or one proposal of it is
\* on its way.  A case in two places would pop candidates it never tried.
CaseInOnePlace ==
    \A c \in Cases :
       /\ Cardinality(Places(c)) + Cardinality(Waits(c)) = IF phase[c] = "live" THEN 1 ELSE 0
       /\ \A w \in Waits(c) : candidates[c] # <<>> /\ Head(candidates[c]) = w[1]

\* What the Manager believes about the tag "open" is what the tables say, which
\* makes the erase of the inform function safe; and an unmanaged node is a
\* candidate only until the inform function's removal, unless its proposal had
\* passed the check when the node was unmanaged.
UnmanagedRefused ==
    /\ unmanaged = tags
    /\ \A n \in unmanaged \cap DOMAIN score : n \in removing \cup hist.raced

\* Every preinvestigation ends, also when cases share nodes, when the answer they
\* get is to the connect of another module, and when they wait on one greenthread.
EveryCaseEnds ==
    \A c \in Cases : (phase[c] = "live") ~> (phase[c] # "live")
=============================================================================
