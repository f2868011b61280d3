--------------------------- MODULE PeerStatistics ---------------------------
(***************************************************************************)
(* What is recorded about the peers and about ourselves: PeerStatistician  *)
(* (payment results, connection samples, earned fees), SelfUptimeMonitor   *)
(* and the rates PeerMetrician makes of them.  Tables survive a restart,   *)
(* members do not.  Time is counted in half days; the timers of that span  *)
(* are one occasion each.                                                  *)
(***************************************************************************)
EXTENDS Integers, FiniteSets, FiniteSetsExt, Functions, TLC

CONSTANTS
    Peers,
    max_entry_age,          \* 90 days in the code
    Day3, Weeks2, Month1,   \* the time frames of the metrics
    LastTime                \* bound on time

VARIABLES
    now,
    online,             \* PeerStatistician and SelfUptimeMonitor: internet probe
    peers_polled, all_peers_disconnected,   \* SelfUptimeMonitor
    peers,              \* PeerStatistician_peers: id -> creation
    sendpayresults, connection, forwardfees, externpays,    \* its tables
    upRows              \* table SelfUptimeMonitor: the times we were up

memberVars == <<online, peers_polled, all_peers_disconnected>>
statTables == <<peers, sendpayresults, connection, forwardfees, externpays>>
statVars == <<now, memberVars, statTables, upRows>>

StatInit ==
    /\ now = 0 /\ online = FALSE
    /\ peers_polled = FALSE /\ all_peers_disconnected = FALSE
    /\ peers = << >>
    /\ sendpayresults = {} /\ connection = {} /\ forwardfees = {} /\ externpays = {}
    /\ upRows = {}

MembersAtStart == online' = FALSE /\ peers_polled' = FALSE /\ all_peers_disconnected' = FALSE

-----------------------------------------------------------------------------
(* PeerStatistician                                                        *)

(* INSERT OR IGNORE: a peer keeps the time of its first row.               *)
make_entry(table, ids) == table @@ [p \in ids |-> now]

Fresh(rows) == {r \in rows : ~(r.creation + max_entry_age < now)}
clean_entries ==
    /\ sendpayresults' = Fresh(sendpayresults)
    /\ connection' = Fresh(connection)
    /\ forwardfees' = Fresh(forwardfees)
    /\ externpays' = Fresh(externpays)
    /\ UNCHANGED peers

(* A result of a payment announced by clboss-externpay is not counted.     *)
add_sendpayresult(hash, id, reached, n) ==
    IF \E e \in externpays : e.hash = hash
    THEN UNCHANGED statTables
    ELSE /\ peers' = make_entry(peers, {id})
         /\ sendpayresults' = sendpayresults \cup
                {[id |-> id, creation |-> now, reached |-> reached, n |-> n]}
         /\ UNCHANGED <<connection, forwardfees, externpays>>

externpay(hash) ==
    /\ externpays' = {e \in externpays : e.hash # hash} \cup {[hash |-> hash, creation |-> now]}
    /\ UNCHANGED <<peers, sendpayresults, connection, forwardfees>>

add_forwardfee(in, out, fee) ==
    /\ peers' = make_entry(peers, {in, out})
    /\ forwardfees' = forwardfees \cup
            {[in_id |-> in, out_id |-> out, creation |-> now, fee |-> fee]}
    /\ UNCHANGED <<sendpayresults, connection, externpays>>

(* ListpeersAnalyzer: the bins of a listing.  `any` says whether some peer *)
(* without a channel is connected.                                         *)
Analyzed(channeled_peers, connected, any, initial) ==
    [connected_channeled |-> channeled_peers \cap connected,
     disconnected_channeled |-> channeled_peers \ connected,
     initial |-> initial,
     all_peers_disconnected |-> channeled_peers \ connected # {}
                                /\ channeled_peers \cap connected = {} /\ ~any]

add_connection(ids, up) == {[id |-> p, creation |-> now, connected |-> up] : p \in ids}

(* A peer without a channel loses its row, and with it all others.         *)
destroy_unchanneled(ids, conns) ==
    /\ peers' = RestrictDomain(make_entry(peers, {c.id : c \in conns}), LAMBDA p : p \in ids)
    /\ connection' = {c \in connection \cup conns : c.id \in ids}
    /\ sendpayresults' = {r \in sendpayresults : r.id \in ids}
    /\ forwardfees' = {f \in forwardfees : f.in_id \in ids /\ f.out_id \in ids}
    /\ UNCHANGED externpays

(* Mutant: the samples of a blackout count.                                *)
SamplesAlways(r) == ~r.initial /\ online
                    /\ destroy_unchanneled(r.connected_channeled \cup r.disconnected_channeled,
                          add_connection(r.connected_channeled, TRUE)
                          \cup add_connection(r.disconnected_channeled, FALSE))

Samples(r) == ~r.initial /\ online
              /\ destroy_unchanneled(r.connected_channeled \cup r.disconnected_channeled,
                    add_connection(r.connected_channeled, TRUE)
                    \cup IF r.all_peers_disconnected THEN {}
                         ELSE add_connection(r.disconnected_channeled, FALSE))

(* Both subscriptions to ListpeersAnalyzedResult.                          *)
Polled(r) ==
    /\ Samples(r) \/ ((r.initial \/ ~online) /\ UNCHANGED statTables)
    /\ peers_polled' = (peers_polled \/ ~r.initial)
    /\ all_peers_disconnected' = IF r.initial THEN all_peers_disconnected
                                 ELSE r.all_peers_disconnected

(* SelfUptimeMonitor::timer10minutes.                                      *)
timer10minutes ==
    upRows' = {t \in upRows \cup
                (IF online /\ peers_polled /\ ~all_peers_disconnected THEN {now} ELSE {}) :
               ~(t < now - 2 * Month1)}

(* The timers of a half day are one here, so a frame of n half days        *)
(* expects n rows.                                                         *)
calc_uptime(frame) ==
    <<Min({Cardinality({t \in upRows : t >= now - frame}), frame}), frame>>

-----------------------------------------------------------------------------
(* get_stats and PeerMetrician.  A rate is a pair of numerator and         *)
(* denominator; 0 / 0 is not a number, and no comparison with it holds.    *)
NotANumber(r) == r[1] = 0 /\ r[2] = 0
RateLeq(r, s) == ~NotANumber(r) /\ r[1] * s[2] <= s[1] * r[2]
RateLess(r, s) == ~NotANumber(r) /\ r[1] * s[2] < s[1] * r[2]

(* A frame begins no earlier than the first row about the peer.            *)
get_entry(p, start) == LET first == IF p \in DOMAIN peers THEN peers[p] ELSE 0
                       IN [start |-> Max({start, first}), age |-> now - first]

Sums(rows, v(_)) == MapThenSumSet(v, rows)
InFrame(rows, start) == {r \in rows : start <= r.creation /\ r.creation <= now}
Seen(start) ==
    {r.id : r \in InFrame(sendpayresults, start)} \cup {c.id : c \in InFrame(connection, start)}
    \cup UNION {{f.in_id, f.out_id} : f \in InFrame(forwardfees, start)}

get_stats(start) ==
    [p \in Seen(start) |->
        LET pays == {r \in InFrame(sendpayresults, start) : r.id = p}
            conns == {c \in InFrame(connection, start) : c.id = p}
            fees == InFrame(forwardfees, start)
            fee(f) == f.fee
        IN [entry |-> get_entry(p, start),
            successes |-> Cardinality({r \in pays : r.reached}),
            connects |-> Cardinality({c \in conns : c.connected}),
            connect_checks |-> Cardinality(conns),
            in_fee |-> Sums({f \in fees : f.in_id = p}, fee),
            out_fee |-> Sums({f \in fees : f.out_id = p}, fee)]]

stats_to_mets(s) ==
    LET time == now - s.entry.start
    IN [age |-> s.entry.age,
        success_per_day |-> <<s.successes, time>>,
        connect_rate |-> <<s.connects, s.connect_checks>>,
        in_fee_msat_per_day |-> <<s.in_fee, time>>,
        out_fee_msat_per_day |-> <<s.out_fee, time>>]

map_stats_to_mets(stats) == [p \in DOMAIN stats |-> stats_to_mets(stats[p])]

get_metrics == [day3 |-> map_stats_to_mets(get_stats(now - Day3)),
                weeks2 |-> map_stats_to_mets(get_stats(now - Weeks2)),
                month1 |-> map_stats_to_mets(get_stats(now - Month1))]
=============================================================================
