----------------------------- MODULE Complaints -----------------------------
(***************************************************************************)
(* PeerComplaintsDesk with its Recorder and Exempter, and the two modules  *)
(* that complain: twice a day the metrics are judged and the complaints    *)
(* recorded, every ten minutes the peers with too many are closed, those   *)
(* that are offline only after a patience that a restart must not reset.   *)
(***************************************************************************)
EXTENDS PeerStatistics, Sequences, SequencesExt

CONSTANTS
    min_age, min_lifetime, max_complaint_age, max_closed_complaint_age,
    max_acceptable_complaints, close_patience,
    high_earner_percentile,
    MinSuccess, WarnSuccess,    \* min_ and warn_success_per_day, as rates
    max_probes

VARIABLES
    connectedNow,   \* lightningd: the peers that are connected
    withChannel,    \* lightningd: the peers we have a channel with
    unmanaged,      \* peers with the `close` tag
    enabled, fees_low,
    round,          \* solicit(): where it is, and what it holds
    exempted_nodes, pending_complaints,
    start_time, pending_probe,  \* ComplainerByLowSuccessPerDay
    dbPeers, complaints, closedcomplaints, closepending,    \* Recorder's tables
    closers,        \* close_channel greenthreads
    slacked         \* history: peers seen disconnected while we were connected

worldVars == <<connectedNow, withChannel, unmanaged, enabled, fees_low>>
roundVars == <<round, exempted_nodes, pending_complaints>>
probeVars == <<start_time, pending_probe>>
recordVars == <<dbPeers, complaints, closedcomplaints, closepending>>
deskVars == <<worldVars, roundVars, probeVars, recordVars, closers, slacked>>

Idle == [pc |-> "idle"]

DeskInit(up, auto_close, rows) ==
    /\ connectedNow = up /\ withChannel = Peers /\ unmanaged = {}
    /\ enabled = auto_close /\ fees_low = FALSE
    /\ round = Idle /\ exempted_nodes = {} /\ pending_complaints = << >>
    /\ start_time = 0 /\ pending_probe = {}
    /\ dbPeers = {c.peer : c \in rows} /\ complaints = rows /\ closedcomplaints = {} /\ closepending = << >>
    /\ closers = {}
    /\ slacked = {}

(* A restart: the members are as start() leaves them, the tables stay.     *)
DeskRestart ==
    /\ fees_low' = FALSE
    /\ round' = Idle /\ exempted_nodes' = {} /\ pending_complaints' = << >>
    /\ pending_probe' = {} /\ closers' = {}
    /\ UNCHANGED <<connectedNow, withChannel, unmanaged, enabled, start_time, recordVars, slacked>>

-----------------------------------------------------------------------------
(* Exempter: who is not to be complained about.                            *)

(* std::sort from highest to lowest.  With a score that is not a number    *)
(* the comparison is no order, and any order may come out.                 *)
SortedBy(score) ==
    {order \in SetToSeqs(DOMAIN score) :
        (\E p \in DOMAIN score : NotANumber(score[p]))
        \/ \A i, j \in DOMAIN order : i < j => ~RateLess(score[order[i]], score[order[j]])}

PercentilePoint(n) ==
    LET ind == (high_earner_percentile * n + 99) \div 100
    IN IF ind = n THEN n - 1 ELSE ind

exempt_top_earner(score) ==
    {LET min_score == score[order[PercentilePoint(Len(order)) + 1]]
     IN {p \in DOMAIN score :
            IF min_score[1] = 0 /\ min_score[2] > 0
            THEN ~RateLeq(score[p], <<0, 1>>)
            ELSE ~RateLess(score[p], min_score)} : order \in SortedBy(score)}

TopEarners(score) ==
    IF \E p \in DOMAIN score : score[p][1] > 0 THEN exempt_top_earner(score) ELSE {{}}

get_exemptions ==
    LET mets == get_metrics.day3
        young == {p \in DOMAIN mets : mets[p].age < min_age}
        in == [p \in DOMAIN mets |-> mets[p].in_fee_msat_per_day]
        out == [p \in DOMAIN mets |-> mets[p].out_fee_msat_per_day]
    IN {young \cup i \cup o \cup unmanaged : i \in TopEarners(in), o \in TopEarners(out)}

-----------------------------------------------------------------------------
(* The complainers, on SolicitPeerComplaints.                              *)
ByLowConnectRate(metrics) ==
    {p \in DOMAIN metrics.day3 :
        metrics.day3[p].connect_rate[2] # 0 /\ RateLess(metrics.day3[p].connect_rate, <<1, 4>>)}

(* Uptime, lifetime and age come before the rate: a rate over no time at   *)
(* all is not a number, and not at least the minimum.                      *)
ByLowSuccessPerDay(metrics) ==
    LET uptime == calc_uptime(Weeks2)
        adjusted(r) == <<r[1] * uptime[2], r[2] * uptime[1]>>
    IN {p \in DOMAIN metrics.weeks2 :
            /\ uptime[1] * 2 >= uptime[2]
            /\ now - start_time >= min_lifetime
            /\ metrics.weeks2[p].age >= min_lifetime
            /\ ~(RateLeq(MinSuccess, adjusted(metrics.weeks2[p].success_per_day)))}

Warned(metrics) ==
    {p \in DOMAIN metrics.weeks2 : RateLeq(metrics.weeks2[p].success_per_day, WarnSuccess)}

(* RaisePeerComplaint: complaints about one peer become one.               *)
Merged(metrics) ==
    LET byConnect == ByLowConnectRate(metrics)
        bySuccess == ByLowSuccessPerDay(metrics)
    IN [p \in byConnect \cup bySuccess |->
            {why \in {"connect", "success"} : p \in (IF why = "connect" THEN byConnect ELSE bySuccess)}]

-----------------------------------------------------------------------------
(* solicit(), one step for each of its waits.                              *)
Solicit ==
    /\ round.pc = "idle"
    /\ round' = [pc |-> "exempt"]
    /\ pending_complaints' = << >>
    /\ UNCHANGED exempted_nodes

Exempted ==
    /\ round.pc = "exempt"
    /\ exempted_nodes' \in get_exemptions
    /\ round' = [pc |-> "metrics"]
    /\ UNCHANGED <<worldVars, pending_complaints, probeVars, recordVars, closers, slacked>>

MetricsCame ==
    /\ round.pc = "metrics"
    /\ round' = [pc |-> "raise", message |-> get_metrics]
    /\ UNCHANGED <<worldVars, exempted_nodes, pending_complaints, probeVars, recordVars,
                   closers, slacked>>

ComplaintsRaised ==
    /\ round.pc = "raise"
    /\ pending_complaints' = Merged(round.message)
    /\ pending_probe' = pending_probe \cup Warned(round.message)
    /\ round' = [pc |-> "record"]
    /\ UNCHANGED <<worldVars, exempted_nodes, start_time, recordVars, closers, slacked>>

(* add_complaint and add_ignored_complaint, with get_peerdbid.             *)
add_complaint(p) == [peer |-> p, time |-> now, why |-> pending_complaints[p],
                     ignored |-> p \in exempted_nodes]

Recorded ==
    /\ round.pc = "record"
    /\ complaints' = complaints \cup {add_complaint(p) : p \in DOMAIN pending_complaints}
    /\ dbPeers' = dbPeers \cup DOMAIN pending_complaints
    /\ round' = Idle /\ exempted_nodes' = {} /\ pending_complaints' = << >>
    /\ UNCHANGED <<worldVars, probeVars, closedcomplaints, closepending, closers, slacked>>

(* Recorder::cleanup: old rows go, and a peer with no complaint left loses *)
(* its row and its put-off close.                                          *)
cleanup ==
    LET rows == {c \in complaints : ~(c.time < now - max_complaint_age)}
        gone == {c \in closedcomplaints : ~(c.time < now - max_closed_complaint_age)}
    IN /\ complaints' = rows
       /\ closedcomplaints' = gone
       /\ dbPeers' = {c.peer : c \in rows} \cup {c.peer : c \in gone}
       /\ closepending' = RestrictDomain(closepending, LAMBDA p : p \in dbPeers')

(* TimerTwiceDaily: a round in progress is left alone.                     *)
TwiceDaily ==
    /\ Solicit \/ (round.pc # "idle" /\ UNCHANGED roundVars)
    /\ cleanup
    /\ UNCHANGED <<worldVars, probeVars, closers, slacked>>

(* TimerRandomHourly of ComplainerByLowSuccessPerDay: some of the peers    *)
(* with a low rate are probed.                                             *)
ProbePending ==
    \E selected \in SUBSET pending_probe :
      /\ Cardinality(selected) = Min({max_probes, Cardinality(pending_probe)})
      /\ selected # {}
      /\ pending_probe' = pending_probe \ selected
      /\ UNCHANGED <<worldVars, roundVars, start_time, recordVars, closers, slacked>>

-----------------------------------------------------------------------------
check_complaints(p) == Cardinality({c \in complaints : c.peer = p /\ ~c.ignored})
ToClose == {p \in Peers \ unmanaged : check_complaints(p) >= max_acceptable_complaints}

check_close ==
    /\ closepending' = RestrictDomain(closepending, LAMBDA p : p \in ToClose)
    /\ closers' = closers \cup (IF enabled THEN {[peer |-> p, pc |-> "list"] : p \in ToClose} ELSE {})
    /\ UNCHANGED <<worldVars, roundVars, probeVars, dbPeers, complaints, closedcomplaints,
                   slacked>>

clear_close_pending(p) == closepending' = RestrictDomain(closepending, LAMBDA q : q # p)

(* INSERT OR IGNORE: the first note stands.                                *)
note_close_pending(p) == closepending' = closepending @@ (p :> now)

Moved(c, pc) == closers' = (closers \ {c}) \cup (IF pc = "done" THEN {} ELSE {[c EXCEPT !.pc = pc]})
Unmoved == UNCHANGED <<worldVars, roundVars, probeVars, complaints, closedcomplaints, slacked>>

(* close_channel: listpeerchannels answers that the peer is connected.     *)
ListedConnected(c) ==
    /\ c \in closers /\ c.pc = "list" /\ c.peer \in connectedNow \cap withChannel
    /\ clear_close_pending(c.peer)
    /\ Moved(c, "close")
    /\ Unmoved /\ UNCHANGED dbPeers

(* It answers that the peer is not, or has no channel any more.            *)
ListedOffline(c) ==
    LET p == c.peer
        go == now - closepending'[p] >= close_patience /\ fees_low
    IN /\ c \in closers /\ c.pc = "list" /\ p \notin connectedNow \cap withChannel
       /\ dbPeers' = dbPeers \cup {p}
       /\ note_close_pending(p)
       /\ Moved(c, IF go THEN "close" ELSE "done")
       /\ Unmoved

(* do_close, or the RpcError of either command.  A close that is accepted  *)
(* ends the channel.                                                       *)
do_close(c) ==
    /\ c \in closers
    /\ \/ c.pc = "close" /\ withChannel' = withChannel \ {c.peer}
       \/ UNCHANGED withChannel
    /\ Moved(c, "done")
    /\ UNCHANGED <<connectedNow, unmanaged, enabled, fees_low, roundVars, probeVars,
                   recordVars, slacked>>

(* on_channel_destroy: the complaints move to the closed ones.             *)
on_channel_destroy(p) ==
    /\ clear_close_pending(p)
    /\ dbPeers' = dbPeers \cup {p}
    /\ closedcomplaints' = closedcomplaints \cup
            {[peer |-> p, time |-> c.time] : c \in {d \in complaints : d.peer = p /\ ~d.ignored}}
    /\ complaints' = {c \in complaints : c.peer # p}
    /\ UNCHANGED <<worldVars, roundVars, probeVars, closers, slacked>>

-----------------------------------------------------------------------------
(* Properties.                                                             *)

(* A peer that was connected at every listing at which we had a connection *)
(* is never complained about for its connection rate: neither our own      *)
(* outages, seen by the internet probe or not, nor our restarts are laid   *)
(* at its door (PeerStatistician.cpp:176-209).                             *)
ReliablePeerNotBlamed ==
    \A c \in complaints : "connect" \in c.why => c.peer \in slacked
=============================================================================
