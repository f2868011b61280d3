--------------------------- MODULE ProposalOrder ---------------------------
(***************************************************************************)
(* The order in which a cycle of channel creation offers its proposals to  *)
(* the Planner: RearrangerBySize, Reprioritizer and the track records      *)
(* (Boss/Mod/ChannelCreator, Boss/Mod/PeerTrackRecord.cpp).                *)
(*                                                                         *)
(* A proposal is the number of its place in the list that drop_channeled   *)
(* leaves.  The answers that the stages wait for are free choices.         *)
(***************************************************************************)
EXTENDS Integers, Sequences, FiniteSets, SequencesExt

CONSTANTS
    MaxProposals,
    Sizes,              \* what the dowser answers
    Bins,               \* of addresses
    PeersPerBin,        \* how many peers a bin can hold already
    Records,            \* what the tables hold on a node
    records_per_day, min_record_days, keeper_tral_bps

ASSUME OrderAssumption ==
    /\ MaxProposals \in Nat
    /\ Sizes \subseteq Nat /\ PeersPerBin \subseteq Nat /\ PeersPerBin # {}
    /\ Records \subseteq [count: Nat, avg: Nat, net: Int]

VARIABLES
    stage,
    list,               \* the proposals, in the order reached so far
    arranged,           \* what rearrange_by_size returned
    orig_proposals,     \* from proposal_it on
    nodes_per_bin, nodes_per_binsize,
    peers_per_bin, bin, \* what get_peers and get_bin_of found
    tier                \* of every proposal

binning == <<nodes_per_bin, nodes_per_binsize, peers_per_bin, bin>>
orderVars == <<stage, list, arranged, orig_proposals, binning, tier>>

Proposed == ToSet(list)

OrderInit ==
    /\ stage = "dowse"
    /\ list \in {[i \in 1..n |-> i] : n \in 0..MaxProposals}
    /\ arranged = << >> /\ orig_proposals = << >>
    /\ nodes_per_bin = [b \in Bins |-> 0] /\ peers_per_bin = [b \in Bins |-> 0]
    /\ nodes_per_binsize = << >>
    /\ bin = << >>
    /\ tier = << >>

-----------------------------------------------------------------------------
\* RearrangerBySize.

group_by == 3

Group(i) == (i - 1) \div group_by

\* std::sort leaves the order of equals open.
SortedInGroups(s, size) ==
    {out \in {[i \in DOMAIN s |-> s[p[i]]] : p \in SetToSeqs(DOMAIN s)} :
        \A i, k \in DOMAIN s :
            /\ s[i] = out[k] => Group(i) = Group(k)
            /\ i < k /\ Group(i) = Group(k) => size[out[i]] >= size[out[k]]}

rearrange_by_size ==
    /\ stage = "dowse"
    /\ \E size \in [Proposed -> Sizes] : arranged' \in SortedInGroups(list, size)
    /\ list' = arranged'
    /\ stage' = "peers"
    /\ UNCHANGED <<orig_proposals, binning, tier>>

-----------------------------------------------------------------------------
\* Reprioritizer.

\* The bin of a node's address; no address has a bin too.
get_bin_of == Bins

\* How many of the current peers are in each bin.
get_peers == [Bins -> PeersPerBin]

core_run ==
    /\ stage = "peers"
    /\ peers_per_bin' \in get_peers
    /\ nodes_per_bin' = peers_per_bin'
    /\ orig_proposals' = list
    /\ bin' = [n \in Proposed |-> 0]
    /\ nodes_per_binsize' = [s \in 1 .. Len(list) + Max(PeersPerBin) + 1 |-> << >>]
    /\ stage' = "binning"
    /\ UNCHANGED <<list, arranged, tier>>

\* Mutant of reprioritize_step: the proposal is not counted in its bin.
reprioritize_stepUncounted ==
    /\ stage = "binning" /\ orig_proposals # << >>
    /\ \E b \in get_bin_of :
          /\ bin' = [bin EXCEPT ![Head(orig_proposals)] = b]
          /\ nodes_per_binsize' =
                [nodes_per_binsize EXCEPT ![nodes_per_bin[b] + 1] = Append(@, Head(orig_proposals))]
    /\ orig_proposals' = Tail(orig_proposals)
    /\ UNCHANGED <<stage, list, arranged, peers_per_bin, nodes_per_bin, tier>>

\* Entry s + 1 of nodes_per_binsize is the one of size s.
reprioritize_step ==
    /\ stage = "binning" /\ orig_proposals # << >>
    /\ \E b \in get_bin_of :
          /\ bin' = [bin EXCEPT ![Head(orig_proposals)] = b]
          /\ nodes_per_bin' = [nodes_per_bin EXCEPT ![b] = @ + 1]
          /\ nodes_per_binsize' =
                [nodes_per_binsize EXCEPT ![nodes_per_bin[b] + 1] = Append(@, Head(orig_proposals))]
    /\ orig_proposals' = Tail(orig_proposals)
    /\ UNCHANGED <<stage, list, arranged, peers_per_bin, tier>>

build_final_proposals ==
    /\ stage = "binning" /\ orig_proposals = << >>
    /\ list' = FlattenSeq(nodes_per_binsize)
    /\ stage' = IF list' = << >> THEN "ordered" ELSE "records"
    /\ UNCHANGED <<arranged, orig_proposals, binning, tier>>

-----------------------------------------------------------------------------
\* Track records.

\* PeerTrackRecord::compute.  The annual return of a record of count entries,
\* in basis points, is net / avg / (count / records_per_day) * 365 * 10000.
compute(rec) ==
    IF rec.count = 0 \/ rec.count < min_record_days * records_per_day \/ rec.avg <= 0
    THEN "no record"
    ELSE IF rec.net * records_per_day * 3650000 >= keeper_tral_bps * rec.avg * rec.count
         THEN "keeper"
         ELSE "underperformer"

\* on_request: nothing is known while a table is missing.
ResponsePeerTrackRecord ==
    /\ stage = "records"
    /\ tier' \in {[n \in Proposed |-> compute(rec[n])] : rec \in [Proposed -> Records]}
                 \union {[n \in Proposed |-> "no record"]}
    /\ stage' = "splice"
    /\ UNCHANGED <<list, arranged, orig_proposals, binning>>

InTier(t) == SelectSeq(list, LAMBDA n : tier'[n] = t)

\* Those that listnodes shows to splice.  A failed lookup, or the option to
\* leave the lookups, is a node that does not.
get_spliceable_nodes == SUBSET {n \in Proposed : tier[n] = "no record"}

\* Whoever can splice leads the nodes without a record.
prioritize_by_track_record ==
    /\ stage = "splice"
    /\ \E spliceable \in get_spliceable_nodes :
          tier' = [n \in Proposed |-> IF n \in spliceable THEN "spliceable" ELSE tier[n]]
    /\ list' = InTier("keeper") \o InTier("spliceable") \o InTier("no record")
                   \o InTier("underperformer")
    /\ stage' = "ordered"
    /\ UNCHANGED <<arranged, orig_proposals, binning>>

\* An RPC that fails on the way ends the cycle.
OrderError ==
    /\ stage \in {"peers", "binning"}
    /\ stage' = "failed"
    /\ UNCHANGED <<list, arranged, orig_proposals, binning, tier>>

OrderStep ==
    \/ rearrange_by_size \/ core_run \/ reprioritize_step \/ build_final_proposals
    \/ ResponsePeerTrackRecord \/ prioritize_by_track_record \/ OrderError

-----------------------------------------------------------------------------

Rank(t) == CHOOSE i \in 1..4 : <<"keeper", "spliceable", "no record", "underperformer">>[i] = t

\* Where a proposal stood after the first stage.
Place(n) == CHOOSE i \in DOMAIN arranged : arranged[i] = n

\* How many nodes share the bin of a proposal: peers, and proposals before it.
Company(n) ==
    peers_per_bin[bin[n]]
        + Cardinality({m \in Proposed : bin[m] = bin[n] /\ Place(m) < Place(n)})

\* What the three stages promise together (Manager.cpp:271-304).  No proposal is
\* lost or doubled, and the sizes move one by at most two places.  "those two
\* only perturb the order, and must not promote a candidate across a track-
\* record tier boundary"; within a tier the proposal in better company goes
\* first, and the order by size settles the rest.
FundingOrder ==
    stage = "ordered" =>
        /\ Len(list) = Len(arranged) /\ Proposed = ToSet(arranged)
        /\ \A n \in Proposed : Place(n) - n \in -2..2
        /\ \A i, k \in DOMAIN list : i < k =>
               LET a == list[i]
                   b == list[k]
               IN  \/ Rank(tier[a]) < Rank(tier[b])
                   \/ /\ tier[a] = tier[b]
                      /\ \/ Company(a) < Company(b)
                         \/ Company(a) = Company(b) /\ Place(a) < Place(b)
=============================================================================
