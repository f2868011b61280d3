------------------------------- MODULE Planner -------------------------------
(***************************************************************************)
(* The Planner of the ChannelCreator: divides a total amount over proposed *)
(* nodes (Boss/Mod/ChannelCreator/Planner.cpp).  It asks the dowser for    *)
(* every proposal in turn, then repairs the plan so that what stays behind *)
(* onchain is nothing, or enough to be useful.                             *)
(*                                                                         *)
(* Amounts are the integers of Ln::Amount (millisatoshi).  The std::map    *)
(* `result` is the set `planned` of its keys and their `amount`; nodes are *)
(* numbers so that the iteration order of the map is the order <.          *)
(***************************************************************************)
EXTENDS Integers, Sequences, FiniteSets, FiniteSetsExt

CONSTANTS
    Nodes,      \* the nodes that can be proposed
    Jobs,       \* the arguments of the constructor
    Flows       \* what the dowser can answer

(* What the constructor asserts, and AmountSettingsHandler's               *)
(* min_remaining = 2 * min_channel + 50000 sat >= min_channel.             *)
Acceptable(j) ==
    /\ 2 * j.min_amount <= j.total
    /\ j.min_amount + j.min_remaining <= j.max_amount
    /\ j.min_amount > 0
    /\ j.min_amount <= j.min_remaining

Job == [total: Nat, existing: Nat, min_amount: Nat, max_amount: Nat,
        min_remaining: Nat]

ASSUME PlannerAssumption ==
    /\ Nodes \subseteq Nat
    /\ IsFiniteSet(Nodes)
    /\ Jobs \subseteq Job
    /\ \A j \in Jobs : Acceptable(j)
    /\ Flows \subseteq Nat

VARIABLES
    job,        \* the arguments
    proposals,  \* queue of the nodes not dowsed yet
    remaining,  \* what is not assigned yet
    planned,    \* the keys of result, the rejected nodes left out
    amount,     \* the values of result
    rejected,   \* nodes the dowser found badly connected
    phase       \* "dowse", "check" or "done"

planVars == <<job, proposals, remaining, planned, amount, rejected, phase>>

Phases == {"dowse", "check", "done"}

PlanTypeOK ==
    /\ job \in Jobs
    /\ proposals \in Seq(Nodes)
    /\ remaining \in Nat
    /\ planned \subseteq Nodes
    /\ amount \in [Nodes -> Nat]
    /\ rejected \subseteq Nodes
    /\ phase \in Phases

at_least_2 == job.existing < 2

PlannerInit ==
    /\ job \in Jobs
    /\ proposals \in {p \in UNION {[1..n -> Nodes] : n \in 0..Cardinality(Nodes)} :
                        \A i, k \in DOMAIN p : p[i] = p[k] => i = k}
    /\ remaining = job.total
    /\ planned = {}
    /\ amount = [n \in Nodes |-> 0]
    /\ rejected = {}
    /\ phase = "dowse"

(* core_run: the loop stops when the funds or the proposals run out.       *)
Stop ==
    /\ phase = "dowse"
    /\ \/ remaining < job.min_amount
       \/ proposals = << >>
    /\ phase' = "check"
    /\ UNCHANGED <<job, proposals, remaining, planned, amount, rejected>>

MinOf(a, b) == IF a <= b THEN a ELSE b

(* The part of a dowsed amount that a proposal gets.                       *)
Assigned(amt) ==
    LET capped == MinOf(MinOf(amt, job.max_amount), remaining)
    IN  IF at_least_2 /\ planned = {}
        THEN MinOf(capped, remaining \div 2)
        ELSE capped

(* core_run: dowse the first proposal.                                     *)
Dowse(amt) ==
    /\ phase = "dowse"
    /\ remaining >= job.min_amount
    /\ proposals # << >>
    /\ LET node == Head(proposals)
       IN  IF amt < job.min_amount
           THEN /\ rejected' = rejected \union {node}
                /\ UNCHANGED <<remaining, planned, amount>>
           ELSE /\ planned' = planned \union {node}
                /\ amount' = [amount EXCEPT ![node] = Assigned(amt)]
                /\ remaining' = remaining - Assigned(amt)
                /\ UNCHANGED rejected
    /\ proposals' = Tail(proposals)
    /\ UNCHANGED <<job, phase>>

(* check_results: too few channels for a node that has fewer than two.     *)
TooFew == at_least_2 /\ Cardinality(planned) < 2

Clear ==
    /\ phase = "check"
    /\ TooFew
    /\ planned' = {}
    /\ phase' = "done"
    /\ UNCHANGED <<job, proposals, remaining, amount, rejected>>

(* check_results: nothing to repair.                                       *)
Leave ==
    /\ phase = "check"
    /\ ~TooFew
    /\ \/ remaining = 0
       \/ planned = {}
       \/ remaining >= job.min_remaining
    /\ phase' = "done"
    /\ UNCHANGED <<job, proposals, remaining, planned, amount, rejected>>

(* check_results goes on to repair the plan.                               *)
Repairs ==
    /\ phase = "check"
    /\ ~TooFew
    /\ remaining > 0
    /\ planned # {}
    /\ remaining < job.min_remaining

ShareRounded(n) == remaining \div Cardinality(planned)

(* How much of the rest a planned node gets: an equal part, and one more   *)
(* for the first ones in the order of the map.                             *)
Share(n) ==
    LET size == Cardinality(planned)
        rank == Cardinality({m \in planned : m < n})
    IN  (remaining \div size) + (IF rank < remaining % size THEN 1 ELSE 0)

can_divide == \A n \in planned : amount[n] + Share(n) <= job.max_amount

Divide ==
    /\ Repairs
    /\ can_divide
    /\ amount' = [n \in Nodes |-> IF n \in planned THEN amount[n] + Share(n)
                                                   ELSE amount[n]]
    /\ phase' = "done"
    /\ UNCHANGED <<job, proposals, remaining, planned, rejected>>

(* What the repair leaves over, for the next proposal or onchain.          *)
Target == IF proposals # << >> THEN job.min_amount ELSE job.min_remaining

neededWhole == Target

needed == Target - remaining

for_deductAny == {n \in planned : needed <= amount[n]}

for_deduct == {n \in planned : job.min_amount + needed <= amount[n]}

(* check_results: take what is needed from an unlucky node, and give it to *)
(* the next proposal, if there is one.                                     *)
Deduct ==
    /\ Repairs
    /\ ~can_divide
    /\ \E n \in for_deduct :
          LET left == [amount EXCEPT ![n] = @ - needed]
          IN  IF proposals # << >>
              THEN /\ planned' = planned \union {Head(proposals)}
                   /\ amount' = [left EXCEPT ![Head(proposals)] = Target]
                   /\ proposals' = Tail(proposals)
                   /\ remaining' = 0
              ELSE /\ amount' = left
                   /\ remaining' = Target
                   /\ UNCHANGED <<planned, proposals>>
    /\ phase' = "done"
    /\ UNCHANGED <<job, rejected>>

(* run() has returned the plan, with the rejected nodes at 0.              *)
Returned ==
    /\ phase = "done"
    /\ UNCHANGED planVars

PlannerStep ==
    \/ Stop
    \/ \E amt \in Flows : Dowse(amt)
    \/ Clear
    \/ Leave
    \/ Divide
    \/ Deduct
    \/ Returned

PlannerSpec == PlannerInit /\ [][PlannerStep]_planVars

-----------------------------------------------------------------------------

Total(S) == MapThenSumSet(LAMBDA n : amount[n], S)

(* check_results (Planner.cpp:165-186) argues that a plan which cannot     *)
(* absorb the rest has a node far enough from the minimum to deduct from:  *)
(* its assert(!for_deduct.empty()) never fires, whatever the dowser said.  *)
DeductPossible == Repairs /\ ~can_divide => for_deduct # {}

(* Whatever the repair added or took, every node of the plan gets at least *)
(* the minimum and at most the maximum channel size (Planner.hpp:56-58).   *)
WithinLimits ==
    \A n \in planned : amount[n] \in job.min_amount .. job.max_amount

(* A returned plan never spends more than the total, and leaves behind     *)
(* nothing or at least min_remaining (Planner.hpp:59-61): no dust that can *)
(* neither open a channel nor pay for onchain actions.                     *)
LeftoverUsable ==
    phase = "done" /\ planned # {} =>
        LET left == job.total - Total(planned)
        IN  left = 0 \/ left >= job.min_remaining
=============================================================================
