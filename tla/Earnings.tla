------------------------------ MODULE Earnings ------------------------------
(***************************************************************************)
(* How forwards and rebalance parts become earnings: the notifications of  *)
(* lightningd (ForwardFeeMonitor, XRebalancePartMonitor), the lookup of    *)
(* the peers behind two channels (ReqResp, PeerFromScidMapper, which knows *)
(* them from ListpeersAnnouncer and channel_state_changed), and the daily  *)
(* rows of EarningsTracker with its reports.                               *)
(*                                                                         *)
(* A notification is a forward (in, out) or a part (source, destination):  *)
(* both go from channel `src` to channel `dst`.                            *)
(***************************************************************************)
EXTENDS Integers, Sequences, FiniteSets, FiniteSetsExt

CONSTANTS
    PeerOf,         \* channel -> its peer, what lightningd knows
    OpenAtFirst,    \* the channels that are locked in at first
    Notices,        \* id -> [kind, status, src, dst, fee, amount]
    Legacy,         \* peer -> in_earnings of a table from before the buckets
    LastDay,        \* bound: the days are 1..LastDay, bucket 0 is the legacy one
    MaxListings     \* bound: ListpeersAnnouncer timers

AllScids == DOMAIN PeerOf
Peers == {PeerOf[c] : c \in AllScids}
Unknown == "unknown"
Sides == {"src", "dst"}
Columns == {"in_earnings", "in_forwarded", "in_expenditures", "in_rebalanced",
            "out_earnings", "out_forwarded", "out_expenditures", "out_rebalanced"}

VARIABLES
    open,           \* channels that are locked in, in lightningd
    map, haveMap,   \* PeerFromScidMapper::map
    pendings,       \* its queue of requests from before the first snapshot
    listing,        \* a listpeerchannels result on its way to the mapper
    listings,       \* how many there were
    entries,        \* ReqRespBase::entries, the requests not answered
    answer,         \* <<notice, side>> -> the peer, once answered
    noticeAt,       \* where the handler of a notification is
    schema,         \* which table EarningsTracker finds, then "ready"
    day,            \* bucket_time(get_now())
    rows            \* the table: <<peer, day>> -> columns

mapperVars == <<open, map, haveMap, pendings, listing, listings>>
noticeVars == <<entries, answer, noticeAt>>
tableVars == <<schema, day, rows>>
earnVars == <<mapperVars, noticeVars, tableVars>>

NoMap == [c \in {} |-> Unknown]
Zero == [k \in Columns |-> 0]
Keys == (DOMAIN Notices) \X Sides

EarnInit ==
    /\ open = OpenAtFirst
    /\ map = NoMap /\ haveMap = FALSE
    /\ pendings = << >>
    /\ listing = << >> /\ listings = 0
    /\ entries = {}
    /\ answer = [k \in Keys |-> Unknown]
    /\ noticeAt = [n \in DOMAIN Notices |-> "none"]
    /\ schema \in {"none", "legacy", "buckets"}
    /\ day = 1
    /\ rows = [r \in {} |-> Zero]

-----------------------------------------------------------------------------
(* ListpeersAnnouncer, at Init and every ten minutes: the result is what   *)
(* lightningd had when it answered.                                        *)
Listpeers ==
    /\ listings < MaxListings
    /\ listings' = listings + 1
    /\ listing' = Append(listing, [c \in open |-> PeerOf[c]])
    /\ UNCHANGED <<open, map, haveMap, pendings, noticeVars, tableVars>>

(* The mapper's handler of ListpeersResult: the table is replaced, and the *)
(* requests that were parked are raised again.                             *)
on_response(k, peer) ==
    IF k \in entries
    THEN /\ entries' = entries \ {k}
         /\ answer' = [answer EXCEPT ![k] = peer]
    ELSE UNCHANGED <<entries, answer>>

ListpeersResult ==
    /\ listing # << >>
    /\ map' = Head(listing)
    /\ haveMap' = TRUE
    /\ listing' = Tail(listing)
    /\ UNCHANGED <<open, pendings, listings, noticeVars, tableVars>>

ScidOf(k) == IF k[2] = "src" THEN Notices[k[1]].src ELSE Notices[k[1]].dst

Lookup(c) == IF c \in DOMAIN map THEN map[c] ELSE Unknown

resume_pendings ==
    /\ haveMap
    /\ pendings # << >>
    /\ pendings' = Tail(pendings)
    /\ on_response(Head(pendings), Lookup(ScidOf(Head(pendings))))
    /\ UNCHANGED <<open, map, haveMap, listing, listings, noticeAt, tableVars>>

(* A channel locks in; the mapper learns it from channel_state_changed.    *)
channel_state_changed(c) ==
    /\ c \notin open
    /\ open' = open \cup {c}
    /\ map' = IF haveMap THEN [d \in DOMAIN map \cup {c} |->
                                 IF d = c THEN PeerOf[c] ELSE map[d]] ELSE map
    /\ UNCHANGED <<haveMap, pendings, listing, listings, noticeVars, tableVars>>

-----------------------------------------------------------------------------
(* The handlers of forward_event and xrebalance_part: only what settled    *)
(* carries earnings.  Both peers are asked for at the same time.           *)
ForwardSettled(n) == Notices[n].kind = "forward" /\ Notices[n].status = "settled"
PartComplete(n) == Notices[n].kind = "part" /\ Notices[n].status = "complete"
Concluded(n) == ForwardSettled(n) \/ PartComplete(n)

Notification(n) ==
    /\ noticeAt[n] = "none"
    /\ {Notices[n].src, Notices[n].dst} \subseteq open
    /\ noticeAt' = [noticeAt EXCEPT ![n] = IF Concluded(n) THEN "ask" ELSE "over"]
    /\ entries' = IF Concluded(n) THEN entries \cup ({n} \X Sides) ELSE entries
    /\ UNCHANGED <<mapperVars, answer, tableVars>>

(* The mapper's handler of RequestPeerFromScid.                            *)
RequestPeerFromScid(k) ==
    /\ k \in entries
    /\ k \notin {pendings[i] : i \in DOMAIN pendings}
    /\ \/ /\ ~haveMap
          /\ pendings' = Append(pendings, k)
          /\ UNCHANGED <<entries, answer>>
       \/ /\ haveMap
          /\ on_response(k, Lookup(ScidOf(k)))
          /\ UNCHANGED pendings
    /\ UNCHANGED <<open, map, haveMap, listing, listings, noticeAt, tableVars>>

(* The two halves of cont: a forward with an unknown side is dropped, a    *)
(* part with one is booked on the other.                                   *)
ForwardDropped(src, dst) == src = Unknown \/ dst = Unknown
PartDropped(src, dst) == src = Unknown /\ dst = Unknown

cont(n) ==
    /\ noticeAt[n] = "ask"
    /\ \A s \in Sides : <<n, s>> \notin entries
    /\ noticeAt' = [noticeAt EXCEPT ![n] =
          IF Notices[n].kind = "forward"
          THEN IF ForwardDropped(answer[<<n, "src">>], answer[<<n, "dst">>])
               THEN "over" ELSE "book"
          ELSE IF PartDropped(answer[<<n, "src">>], answer[<<n, "dst">>])
               THEN "over" ELSE "book"]
    /\ UNCHANGED <<mapperVars, entries, answer, tableVars>>

-----------------------------------------------------------------------------
(* EarningsTracker::init, at DbResource: a table without buckets is moved  *)
(* to bucket 0, in the transaction that makes the new one.                 *)
EarningsTrackerInit ==
    /\ schema # "ready"
    /\ schema' = "ready"
    /\ rows' = IF schema = "legacy"
               THEN [r \in (DOMAIN Legacy) \X {0} |->
                        [Zero EXCEPT !.in_earnings = Legacy[r[1]]]]
               ELSE rows
    /\ UNCHANGED <<mapperVars, noticeVars, day>>

(* EarningsTracker: one transaction per message.  A row is made for each   *)
(* known side in the bucket of now, and the columns of that side added to. *)
ensure(t, peers, d) ==
    [r \in DOMAIN t \cup {<<p, d>> : p \in peers} |->
        IF r \in DOMAIN t THEN t[r] ELSE Zero]

Add(t, p, d, k1, v1, k2, v2) ==
    IF <<p, d>> \in DOMAIN t
    THEN [t EXCEPT ![<<p, d>>][k1] = @ + v1, ![<<p, d>>][k2] = @ + v2]
    ELSE t

Known(n) == {answer[<<n, s>>] : s \in Sides} \ {Unknown}

forward_fee(t, n) ==
    LET i == Notices[n]
        t0 == ensure(t, Known(n), day)
        t1 == Add(t0, answer[<<n, "src">>], day, "in_earnings", i.fee, "in_forwarded", i.amount)
    IN  Add(t1, answer[<<n, "dst">>], day, "out_earnings", i.fee, "out_forwarded", i.amount)

(* Mutant: the rows of only one side are made.                             *)
xrebalance_attributionHalf(t, n) ==
    LET i == Notices[n]
        t0 == ensure(t, {answer[<<n, "src">>]} \ {Unknown}, day)
        t1 == Add(t0, answer[<<n, "src">>], day, "in_expenditures", i.fee,
                  "in_rebalanced", i.amount)
    IN  Add(t1, answer[<<n, "dst">>], day, "out_expenditures", i.fee,
            "out_rebalanced", i.amount)

xrebalance_attribution(t, n) ==
    LET i == Notices[n]
        t0 == ensure(t, Known(n), day)
        t1 == Add(t0, answer[<<n, "src">>], day, "in_expenditures", i.fee,
                  "in_rebalanced", i.amount)
    IN  Add(t1, answer[<<n, "dst">>], day, "out_expenditures", i.fee,
            "out_rebalanced", i.amount)

Book(n) ==
    /\ noticeAt[n] = "book"
    /\ schema = "ready"
    /\ noticeAt' = [noticeAt EXCEPT ![n] = "booked"]
    /\ rows' = IF Notices[n].kind = "forward" THEN forward_fee(rows, n)
                                              ELSE xrebalance_attribution(rows, n)
    /\ UNCHANGED <<mapperVars, entries, answer, schema, day>>

NextDay ==
    /\ day < LastDay
    /\ day' = day + 1
    /\ UNCHANGED <<mapperVars, noticeVars, schema, rows>>

EarnStep ==
    \/ \E n \in DOMAIN Notices : Notification(n) \/ cont(n) \/ Book(n)
    \/ \E k \in Keys : RequestPeerFromScid(k)
    \/ resume_pendings \/ Listpeers \/ ListpeersResult
    \/ \E c \in AllScids : channel_state_changed(c)
    \/ EarningsTrackerInit \/ NextDay

-----------------------------------------------------------------------------
(* The queries behind clboss-status, clboss-recent-earnings and            *)
(* clboss-earnings-history.  An EarningsData is a function on Columns; a   *)
(* report is its lines and their total.                                    *)
SumData(data) == [k \in Columns |-> MapThenSumSet(LAMBDA x : data[x][k], DOMAIN data)]

Rows(R) == [r \in R |-> rows[r]]
NodesIn(R) == {r[1] : r \in R}
DaysIn(R) == {r[2] : r \in R}

GroupedByNode(R) == [p \in NodesIn(R) |-> SumData(Rows({r \in R : r[1] = p}))]
GroupedByDay(R) == [d \in DaysIn(R) |-> SumData(Rows({r \in R : r[2] = d}))]

Report(lines) == [lines |-> lines, total |-> SumData(lines)]

request_earnings_info(p) == SumData(Rows({r \in DOMAIN rows : r[1] = p}))

status == Report(GroupedByNode(DOMAIN rows))

recent_earnings_report(days) ==
    Report(GroupedByNode({r \in DOMAIN rows : r[2] >= day - days}))

earnings_history_report(nodeid, by_node) ==
    IF by_node THEN Report(rows)
    ELSE IF nodeid = "" THEN Report(GroupedByDay(DOMAIN rows))
    ELSE Report(GroupedByDay({r \in DOMAIN rows : r[1] = nodeid}))

-----------------------------------------------------------------------------
BookedOn(p, side, kind) ==
    {n \in DOMAIN Notices : /\ noticeAt[n] = "booked"
                            /\ Notices[n].kind = kind
                            /\ answer[<<n, side>>] = p}

FeesOf(N) == MapThenSumSet(LAMBDA n : Notices[n].fee, N)

(* Every booked notification is in the table once, on the peers the mapper *)
(* named, with nothing lost between days, sides or rows or by the move of  *)
(* an old table, and the reports all add up to the same totals.            *)
BooksBalance ==
    /\ \A p \in Peers :
          LET info == request_earnings_info(p)
              moved == IF <<p, 0>> \in DOMAIN rows THEN Legacy[p] ELSE 0
          IN  /\ info.in_earnings = moved + FeesOf(BookedOn(p, "src", "forward"))
              /\ info.out_earnings = FeesOf(BookedOn(p, "dst", "forward"))
              /\ info.in_expenditures = FeesOf(BookedOn(p, "src", "part"))
              /\ info.out_expenditures = FeesOf(BookedOn(p, "dst", "part"))
              /\ earnings_history_report(p, FALSE).total = info
    /\ status.total = recent_earnings_report(LastDay).total
    /\ status.total = earnings_history_report("", FALSE).total
    /\ status.total = earnings_history_report("", TRUE).total
=============================================================================
