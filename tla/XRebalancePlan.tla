--------------------------- MODULE XRebalancePlan ---------------------------
(***************************************************************************)
(* How the XRebalancer turns channels and earnings into one request to the *)
(* xrebalance plugin (the planning half of Boss/Mod/XRebalancer.cpp).      *)
(*                                                                         *)
(* Satoshi and ppm are integers; a rate of the code that is not a whole    *)
(* number has none here.  A division by the ladder ratio 1.6 is kept exact *)
(* by comparing cross products.  std::sort leaves the order of equal       *)
(* elements open, so a pool has a set of possible orders.                  *)
(***************************************************************************)
EXTENDS Integers, Sequences, FiniteSets, FiniteSetsExt, SequencesExt

CONSTANTS
    MinCap,     \* min_cap_sat
    NoisePpm    \* NOISE_PPM of the ladder

NonNeg(v) == IF v > 0 THEN v ELSE 0

SumOver(S, f(_)) == MapThenSumSet(f, S)

Edge(cap, band) == (cap * band) \div 100

(* A row of listpeerchannels: a channel, its peer, its balance, and the    *)
(* splices in flight.  The lowest splice counts, if it takes funds out.    *)
channel_balance(r) ==
    LET outs == {i \in r.inflight : i.splice < 0}
        low == CHOOSE i \in outs : \A k \in outs : i.splice <= k.splice
    IN  IF outs = {} THEN [to_us |-> r.to_us, total |-> r.total]
        ELSE [to_us |-> NonNeg(r.to_us + low.splice), total |-> low.total]

build_chans(rows) ==
    {c \in {[scid |-> r.scid, node |-> r.node, online |-> r.online,
             cap |-> channel_balance(r).total, local |-> channel_balance(r).to_us] :
               r \in {q \in rows : q.state = "CHANNELD_NORMAL"}} : c.cap > 0}

(* One side of the join: earnings e, expenditures x and volume f of a peer *)
(* of capacity cap, credited with the grant while it has little volume.    *)
Credit(f, cap, s) ==
    IF s.grant > 0 THEN NonNeg((cap * s.grant_weight) \div 100 - f) ELSE 0

joined(e, x, f, cap, s) ==
    LET g == Credit(f, cap, s)
    IN  IF f + g > 0
        THEN [has |-> TRUE, net |-> ((e - x + g * s.grant) * s.gain) \div (f + g)]
        ELSE [has |-> FALSE, net |-> 0]

NoRow == [e |-> 0, x |-> 0, f |-> 0]

(* NetPpm: the peers with rows, and with a grant the channelled ones too.  *)
NetPpm(chans, rows, s) ==
    LET CapOf(n) == SumOver({c \in chans : c.node = n}, LAMBDA c : c.cap)
        known == DOMAIN rows \cup
                 (IF s.grant > 0 THEN {c.node : c \in chans} ELSE {})
        Row(n) == IF n \in DOMAIN rows THEN rows[n] ELSE [i |-> NoRow, o |-> NoRow]
    IN  [n \in known |->
           [in  |-> joined(Row(n).i.e, Row(n).i.x, Row(n).i.f, CapOf(n), s),
            out |-> joined(Row(n).o.e, Row(n).o.x, Row(n).o.f, CapOf(n), s)]]

(* Candidacy and deficits live at the granularity of the peer.             *)
Peer(chans, n, s) ==
    LET mine == {c \in chans : c.node = n}
        cap == SumOver(mine, LAMBDA c : c.cap)
        local == SumOver(mine, LAMBDA c : c.local)
    IN  [node |-> n, chans |-> mine, cap |-> cap, local |-> local,
         online |-> \E c \in mine : c.online,
         tgt_fill |-> NonNeg(Edge(cap, s.fill_band) - local),
         tgt_drain |-> NonNeg(local - Edge(cap, s.drain_band))]

Headroom(c, band, fillSide) ==
    NonNeg(IF fillSide THEN Edge(c.cap, band) - c.local
                       ELSE c.local - Edge(c.cap, band))

(* Mutant: a channel's cap is its own headroom, whatever the peer's.       *)
ShareOwn(deficit, h, total) == h

Share(deficit, h, total) == (deficit * h) \div total

distribute_caps(p, band, fillSide, deficit) ==
    LET H(c) == Headroom(c, band, fillSide)
        total == SumOver(p.chans, H)
    IN  IF total <= 0 \/ deficit <= 0 THEN {}
        ELSE {r \in {[scid |-> c.scid, max |-> Share(deficit, H(c), total)] :
                        c \in {d \in p.chans : H(d) > 0}} : r.max >= MinCap}

FillCandidate(p, np, s) ==
    /\ 100 * p.local <= s.fill_band * p.cap
    /\ np.out.has /\ np.out.net > 0
    /\ p.tgt_fill > 0

DrainCandidate(p, np, s) ==
    /\ 100 * p.local >= s.drain_band * p.cap
    /\ np.in.has /\ np.in.net > 0
    /\ p.tgt_drain > 0

(* With overlapping bands a peer could be in both pools: fill wins.        *)
FillFirst(p, np, s) == ~FillCandidate(p, np, s)

Eligible(chans, net, unmanaged, s) ==
    {p \in {Peer(chans, n, s) : n \in {c.node : c \in chans}} :
        /\ p.online
        /\ p.node \notin unmanaged
        /\ p.node \in DOMAIN net}

FillPool(peers, net, s) ==
    {i \in {[pr |-> p, ppm |-> net[p.node].out.net, deficit |-> p.tgt_fill,
             caps |-> distribute_caps(p, s.fill_band, TRUE, p.tgt_fill)] :
               p \in {q \in peers : FillCandidate(q, net[q.node], s)}} : i.caps # {}}

DrainPool(peers, net, s) ==
    {i \in {[pr |-> p, ppm |-> net[p.node].in.net, deficit |-> p.tgt_drain,
             caps |-> distribute_caps(p, s.drain_band, FALSE, p.tgt_drain)] :
               p \in {q \in peers : /\ FillFirst(q, net[q.node], s)
                                    /\ DrainCandidate(q, net[q.node], s)}} :
        i.caps # {}}

(* The pools as std::sort may leave them, the best paid first.             *)
Sorted(pool) ==
    {q \in SetToSeqs(pool) :
        \A i, j \in DOMAIN q : i < j => q[i].ppm >= q[j].ppm}

-----------------------------------------------------------------------------
(* The joint(N) curve: what the marginal unit earns on both sides when N   *)
(* is moved.                                                               *)
cum(pool) ==
    [i \in DOMAIN pool |->
        [acc |-> SumOver(1..i, LAMBDA k : pool[k].deficit), ppm |-> pool[i].ppm]]

Exhausted == -1

threshold_at(c, n) ==
    LET I == {i \in DOMAIN c : n <= c[i].acc}
    IN  IF I = {} THEN Exhausted ELSE c[Min(I)].ppm

Curve(fill, drain) ==
    LET fc == cum(fill)
        dc == cum(drain)
        bps == SetToSortSeq({fc[i].acc : i \in DOMAIN fc}
                              \cup {dc[i].acc : i \in DOMAIN dc}, <)
        Point(n) == [n |-> n, fill_ppm |-> threshold_at(fc, n),
                     drain_ppm |-> threshold_at(dc, n),
                     joint |-> threshold_at(fc, n) + threshold_at(dc, n)]
        Served(i) == \A j \in 1..i : /\ Point(bps[j]).fill_ppm # Exhausted
                                     /\ Point(bps[j]).drain_ppm # Exhausted
    IN  [i \in {k \in DOMAIN bps : Served(k)} |-> Point(bps[i])]

(* The rows of a curve before the first one that fails a test.             *)
Prefix(curve, T(_)) == {i \in DOMAIN curve : \A j \in 1..i : T(curve[j])}

UsefulIdx(curve) ==
    LET P == Prefix(curve, LAMBDA r : r.fill_ppm >= NoisePpm /\ r.drain_ppm >= NoisePpm)
    IN  IF P = {} THEN 1 ELSE Max(P)

(* derive_ladder: floors from the ceiling down to the useful floor, each   *)
(* 1.6 times below the one before, snapped to rows at least 1.25 apart.    *)
derive_ladder(curve) ==
    LET top == curve[1].joint
        useful == UsefulIdx(curve)
        low == curve[useful].joint
        steps == {k \in 0..4 : top * 10^k > low * 16^k}
        Snap(AtLeast(_)) ==
            LET P == {i \in 1..useful : \A j \in 1..i : AtLeast(curve[j].joint)}
            IN  IF P = {} THEN curve[1] ELSE curve[Max(P)]
        snapped == [i \in 1..(Cardinality(steps) + 1) |->
                      IF i <= Cardinality(steps)
                      THEN Snap(LAMBDA j : j * 16^(i-1) >= top * 10^(i-1))
                      ELSE Snap(LAMBDA j : j >= low)]
        already(l, r) == \E i \in DOMAIN l : l[i].n = r.n
        Add(l, r) == IF \/ already(l, r)
                        \/ l # << >> /\ 5 * r.joint > 4 * Last(l).joint
                     THEN l ELSE Append(l, r)
        ladder == FoldLeft(Add, << >>, snapped)
    IN  IF curve = << >> THEN << >>
        ELSE IF already(ladder, curve[useful]) THEN ladder
        ELSE Append(ladder, curve[useful])

(* The cut: the last row before the joint rate drops below the floor.      *)
Cut(curve, floor) ==
    LET P == Prefix(curve, LAMBDA r : r.joint >= floor)
    IN  IF P = {} THEN [n |-> 0, fill_ppm |-> 0, drain_ppm |-> 0, joint |-> 0]
        ELSE curve[Max(P)]

Floors(curve, s) ==
    IF s.floor_auto /\ curve # << >>
    THEN {derive_ladder(curve)[i].joint : i \in DOMAIN derive_ladder(curve)}
    ELSE {s.floor}

(* The prefix of a pool that is accumulated to reach n.                    *)
picks(pool, n) ==
    {pool[i] : i \in {k \in DOMAIN pool :
                        SumOver(1..(k-1), LAMBDA j : pool[j].deficit) < n}}

CapsOf(items) == UNION {i.caps : i \in items}

MatchedPlans(fill, drain, s) ==
    LET curve == Curve(fill, drain)
        cuts == {c \in {Cut(curve, f) : f \in Floors(curve, s)} : c.n > 0}
    IN  {[dests |-> picks(fill, c.n), sources |-> picks(drain, c.n),
          requested |-> c.n, maxfee |-> c.joint] : c \in cuts}

(* plan_demand: the peer a forward just left through is filled from the    *)
(* best paid 20, 50 or 80 percent of the drain pool.                       *)
Rungs == {20, 50, 80}

Keep(size, rung) == Max({1, (size * rung + 99) \div 100})

DemandPlans(fill, drain, scid) ==
    LET owners == {i \in DOMAIN fill : \E c \in fill[i].pr.chans : c.scid = scid}
        target == fill[Min(owners)]
    IN  IF owners = {} THEN {}
        ELSE {[dests |-> {target},
               sources |-> {drain[i] : i \in 1..Keep(Len(drain), r)},
               requested |-> target.deficit,
               maxfee |-> target.ppm + drain[Keep(Len(drain), r)].ppm] : r \in Rungs}

(* plan_and_log: every request one cycle can make of what it has read.     *)
Matched == "matched"

Plans(chans, net, unmanaged, s, scid) ==
    LET peers == Eligible(chans, net, unmanaged, s)
        fill == FillPool(peers, net, s)
        drain == DrainPool(peers, net, s)
    IN  IF fill = {} \/ drain = {} THEN {}
        ELSE UNION {IF scid = Matched THEN MatchedPlans(f, d, s)
                                      ELSE DemandPlans(f, d, scid) :
                      f \in Sorted(fill), d \in Sorted(drain)}
=============================================================================
