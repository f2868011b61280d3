---------------------------- MODULE Connections ----------------------------
(***************************************************************************)
(* How the node gets, and stays, connected: InternetConnectionMonitor,     *)
(* whose checks use Waiter's timeouts; NeedsConnectSolicitor with the      *)
(* finders of candidates, and Connector; Reconnector, InitialConnect and   *)
(* AutoDisconnector.  They share the peers of lightningd, and each works   *)
(* from a listing, a notification or an answer that may be out of date.    *)
(***************************************************************************)
EXTENDS Integers, Sequences, FiniteSets, SequencesExt

CONSTANTS
    Nodes,
    Hardcoded,      \* what ConnectFinderByHardcode knows for this network
    Seeded,         \* what a DNS seed may return
    Dead,           \* nodes that never answer
    Channeled,      \* peers with a channel
    max_unchanneled_connections,
    MaxLate,        \* bound: ended pings with an answer or a timer still due
    MaxTries,       \* bound: connects under way to one node
    MaxEvents       \* bound: faults, and what others do

VARIABLES
    internet,       \* whether the Internet can be reached
    connected,      \* peers of lightningd
    disconnects,    \* disconnect notifications on their way
    initial,        \* the next listing of the peers is the first
    offline,        \* lightningd runs with --offline
    online, checking_connectivity,
    checks,         \* place -> number of checks of the monitor there
    late,           \* second events of pings that ended
    connects_running, soliciting, connects1, connects2,
    requests,       \* connects under way, per node
    events

worldVars == <<internet, connected, disconnects, events>>
monitorVars == <<online, checking_connectivity, checks, late>>
solicitorVars == <<connects_running, soliciting, connects1, connects2, requests>>
connectionVars == <<worldVars, initial, offline, monitorVars, solicitorVars>>

Places == {"server", "all", "wait", "ping"}

(* Init is raised: the monitor begins with a check of a server.            *)
ConnectionsInit ==
    /\ internet = TRUE /\ connected \in {{}, Channeled} /\ disconnects = 0 /\ events = 0
    /\ initial = TRUE /\ offline \in BOOLEAN
    /\ online = FALSE /\ checking_connectivity = TRUE
    /\ checks = [p \in Places |-> IF p = "server" THEN 1 ELSE 0] /\ late = 0
    /\ connects_running = FALSE /\ soliciting = FALSE
    /\ connects1 = << >> /\ connects2 = << >> /\ requests = [n \in Nodes |-> 0]

Less(f, p) == [f EXCEPT ![p] = @ - 1]
More(f, p) == [f EXCEPT ![p] = @ + 1]
Moves(from, to) == checks' = More(Less(checks, from), to)

-----------------------------------------------------------------------------
(* NeedsConnectSolicitor.                                                  *)
NeedsConnect(needed) ==
    IF needed /\ ~offline /\ ~connects_running
    THEN /\ connects_running' = TRUE /\ soliciting' = TRUE
         /\ connects1' = << >> /\ connects2' = << >>
         /\ UNCHANGED requests
    ELSE UNCHANGED solicitorVars

(* RequestConnect for the front of each queue.                             *)
RequestFronts(q1, q2) ==
    LET fronts == {Head(q) : q \in {q1, q2} \ {<< >>}}
    IN requests' = [n \in Nodes |-> requests[n] + IF n \in fronts THEN 1 ELSE 0]

(* TaskCompletion, as InternetConnectionMonitor takes it: a failure may    *)
(* mean that we are offline.                                               *)
TaskCompletion(failed) ==
    IF failed /\ ~checking_connectivity
    THEN /\ checking_connectivity' = TRUE
         /\ checks' = More(checks, "server")
         /\ UNCHANGED <<online, late>>
    ELSE UNCHANGED monitorVars

finish ==
    /\ connects_running' = FALSE /\ connects1' = << >> /\ connects2' = << >>
    /\ UNCHANGED soliciting
    /\ TaskCompletion(FALSE)

(* Mutant: fail leaves connects_running set.                               *)
failStuck == UNCHANGED connects_running /\ TaskCompletion(TRUE)

fail == connects_running' = FALSE /\ TaskCompletion(TRUE)

(* The finders have answered: hardcoded nodes, two picks that may be the   *)
(* same, and what a seed returned, nothing without the Internet.           *)
ByHardcode == {{a, b} : a \in Hardcoded, b \in Hardcoded}
ByDns == SUBSET (IF internet THEN Seeded ELSE {})
Halves(deck) == <<SubSeq(deck, 1, Len(deck) \div 2), SubSeq(deck, Len(deck) \div 2 + 1, Len(deck))>>

Solicited ==
    /\ soliciting /\ soliciting' = FALSE
    /\ \E h \in ByHardcode \cup (IF Hardcoded = {} THEN {{}} ELSE {}), d \in ByDns :
         IF h \cup d = {}
         THEN fail /\ UNCHANGED <<connects1, connects2, requests>>
         ELSE \E deck \in SetToSeqs(h \cup d) :
                LET q == Halves(deck)
                IN /\ connects1' = q[1] /\ connects2' = q[2]
                   /\ RequestFronts(q[1], q[2])
                   /\ UNCHANGED connects_running
                   /\ UNCHANGED monitorVars
    /\ UNCHANGED <<worldVars, initial, offline>>

(* response_connect1 and response_connect2: own is the queue that n is the *)
(* front of; what remains of it is q.                                      *)
NextOf(q, other, after) ==
    IF q = << >>
    THEN /\ requests' = after
         /\ IF other = << >> THEN fail
            ELSE UNCHANGED <<connects_running, monitorVars>>
    ELSE /\ requests' = More(after, Head(q))
         /\ UNCHANGED <<connects_running, monitorVars>>

response_connect1(success, after) ==
    IF success THEN finish /\ requests' = after
    ELSE /\ connects1' = Tail(connects1) /\ UNCHANGED <<connects2, soliciting>>
         /\ NextOf(Tail(connects1), connects2, after)

response_connect2(success, after) ==
    IF success THEN finish /\ requests' = after
    ELSE /\ connects2' = Tail(connects2) /\ UNCHANGED <<connects1, soliciting>>
         /\ NextOf(Tail(connects2), connects1, after)

IsFront(n, q) == q # << >> /\ n = Head(q)

response_connect(n, success, after) ==
    IF connects_running /\ IsFront(n, connects1) THEN response_connect1(success, after)
    ELSE IF connects_running /\ IsFront(n, connects2) THEN response_connect2(success, after)
    ELSE /\ requests' = after
         /\ UNCHANGED <<connects_running, soliciting, connects1, connects2, monitorVars>>

(* Connector has its answer from lightningd, or refused at once, and       *)
(* raises ResponseConnect.  A connect may fail for a while (an event).     *)
Fault == events < MaxEvents /\ events' = events + 1
Reachable(n) == internet /\ n \notin Dead

Connect(n) ==
    /\ requests[n] > 0
    /\ LET after == Less(requests, n)
       IN IF offline
          THEN response_connect(n, FALSE, after) /\ UNCHANGED <<connected, events>>
          ELSE \/ /\ Reachable(n) /\ connected' = connected \cup {n}
                  /\ response_connect(n, TRUE, after) /\ UNCHANGED events
               \/ /\ ~Reachable(n) \/ events < MaxEvents
                  /\ events' = IF Reachable(n) THEN events + 1 ELSE events
                  /\ response_connect(n, FALSE, after) /\ UNCHANGED connected
    /\ UNCHANGED <<internet, disconnects, initial, offline>>

(* Another module asks for a connection.                                   *)
OtherRequest(n) ==
    /\ Fault /\ requests[n] < MaxTries /\ requests' = More(requests, n)
    /\ UNCHANGED <<internet, connected, disconnects, initial, offline, monitorVars,
                   connects_running, soliciting, connects1, connects2>>

-----------------------------------------------------------------------------
(* InternetConnectionMonitor.                                              *)
set_online(n_online, from) ==
    /\ online' = n_online
    /\ checking_connectivity' = ~n_online
    /\ IF n_online THEN checks' = Less(checks, from) ELSE Moves(from, "wait")
    /\ NeedsConnect(n_online /\ ~online)
    /\ UNCHANGED late

(* One server, at random; some can be reached when the Internet can.       *)
check_server_connectivity ==
    /\ checks["server"] > 0
    /\ \/ internet /\ set_online(TRUE, "server")
       \/ Moves("server", "all") /\ UNCHANGED <<online, checking_connectivity, late, solicitorVars>>
    /\ UNCHANGED <<worldVars, initial, offline>>

check_all_servers ==
    /\ checks["all"] > 0
    /\ set_online(internet, "all")
    /\ UNCHANGED <<worldVars, initial, offline>>

offline_quick_loop ==
    /\ checks["wait"] > 0 /\ Moves("wait", "server")
    /\ UNCHANGED <<worldVars, initial, offline, online, checking_connectivity, late, solicitorVars>>

(* ln_ping_check: the answer or the timer, whichever is first; the other   *)
(* is late.                                                                *)
ln_ping_check ==
    /\ checks["ping"] > 0 /\ late' = late + 1
    /\ \/ /\ internet /\ connected # {}
          /\ online' = TRUE /\ checking_connectivity' = FALSE
          /\ checks' = Less(checks, "ping")
          /\ NeedsConnect(~online)
       \/ Moves("ping", "server") /\ UNCHANGED <<online, checking_connectivity, solicitorVars>>
    /\ UNCHANGED <<worldVars, initial, offline>>

(* Waiter::timed_core: its flag is set, and a late event does nothing.     *)
timed_core ==
    /\ late > 0 /\ late' = late - 1
    /\ UNCHANGED <<worldVars, initial, offline, online, checking_connectivity, checks, solicitorVars>>

-----------------------------------------------------------------------------
(* ListpeersAnalyzedResult and its handlers.                               *)
(* InitialConnect: disconnected peers with channels count at first only.   *)
InitialConnect ==
    IF initial THEN Channeled = {} ELSE connected = {}

(* InternetConnectionMonitor's check.                                      *)
periodic_check ==
    IF checking_connectivity THEN UNCHANGED monitorVars
    ELSE /\ checking_connectivity' = TRUE
         /\ checks' = More(checks, IF connected = {} THEN "server" ELSE "ping")
         /\ UNCHANGED <<online, late>>

(* AutoDisconnector: all but a few of the peers without channels.          *)
Unchanneled == connected \ Channeled
AutoDisconnects ==
    IF Cardinality(Unchanneled) <= max_unchanneled_connections THEN {{}}
    ELSE {d \in SUBSET Unchanneled :
            Cardinality(d) = Cardinality(Unchanneled) - max_unchanneled_connections}

ListpeersAnalyzed ==
    /\ late < MaxLate /\ initial' = FALSE
    /\ NeedsConnect(InitialConnect)
    /\ periodic_check
    /\ \E d \in AutoDisconnects :
         /\ connected' = connected \ d
         /\ disconnects' = disconnects + Cardinality(d)
    /\ UNCHANGED <<internet, events, offline>>

(* Reconnector: a disconnect notification, then listpeers.                 *)
on_disconnect ==
    /\ disconnects > 0 /\ disconnects' = disconnects - 1
    /\ NeedsConnect(connected = {})
    /\ UNCHANGED <<internet, connected, events, initial, offline, monitorVars>>

-----------------------------------------------------------------------------
(* The world: a peer is lost, for good reason when there is no Internet;   *)
(* lightningd gets a peer by itself; the Internet goes and comes.          *)
PeerLost(n) ==
    /\ n \in connected /\ connected' = connected \ {n} /\ disconnects' = disconnects + 1
    /\ IF internet THEN Fault ELSE UNCHANGED events
    /\ UNCHANGED <<internet, initial, offline, monitorVars, solicitorVars>>

PeerGained(n) ==
    /\ Fault /\ internet /\ n \notin connected /\ connected' = connected \cup {n}
    /\ UNCHANGED <<internet, disconnects, initial, offline, monitorVars, solicitorVars>>

InternetChanges ==
    /\ IF internet THEN Fault ELSE UNCHANGED events
    /\ internet' = ~internet
    /\ UNCHANGED <<connected, disconnects, initial, offline, monitorVars, solicitorVars>>

MonitorStep == check_server_connectivity \/ check_all_servers \/ offline_quick_loop \/ ln_ping_check
ConnectionsStep ==
    \/ Solicited \/ MonitorStep \/ timed_core \/ ListpeersAnalyzed \/ on_disconnect
    \/ InternetChanges
    \/ \E n \in Nodes : Connect(n) \/ OtherRequest(n) \/ PeerLost(n) \/ PeerGained(n)

-----------------------------------------------------------------------------
(* Once the Internet is back for good, the node notices, and it gets and   *)
(* keeps a peer, unless lightningd was told to stay offline                *)
(* (InternetConnectionMonitor.cpp:237-246, NeedsConnectSolicitor.cpp:150). *)
NodeReconnects ==
    <>[]internet /\ ~offline => <>[](online /\ connected # {})
=============================================================================
