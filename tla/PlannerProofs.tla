---------------------------- MODULE PlannerProofs ----------------------------
(***************************************************************************)
(* What the Planner promises for every set of limits the constructor       *)
(* accepts, every total and every answer of the dowser.                    *)
(***************************************************************************)
EXTENDS Planner, FiniteSetTheorems, TLAPS

(* WithinLimits is inductive once it is known why a first channel that is  *)
(* halved still reaches the minimum (nothing has been assigned before it), *)
(* and why the repair that takes from a node needs a positive amount (the  *)
(* loop stops with proposals left only when the rest is too small).        *)
Inv ==
    /\ PlanTypeOK
    /\ WithinLimits
    /\ phase = "dowse" /\ planned = {} => remaining = job.total
    /\ phase = "check" => remaining < job.min_amount \/ proposals = << >>

(* The constructor's assertions, for the job at hand.                      *)
LEMMA JobFacts ==
    ASSUME job \in Jobs
    PROVE  /\ job \in Job
           /\ job.total \in Nat /\ job.min_amount \in Nat
           /\ job.max_amount \in Nat /\ job.min_remaining \in Nat
           /\ Acceptable(job)
BY PlannerAssumption DEF Job

(* The part of the dowsed amount that core_run assigns (Planner.cpp:87-97) *)
(* is at least the minimum, and at most the maximum and what remains.      *)
LEMMA AssignedBounds ==
    ASSUME Inv, phase = "dowse", remaining >= job.min_amount,
           NEW amt \in Nat, amt >= job.min_amount
    PROVE  /\ Assigned(amt) \in job.min_amount .. job.max_amount
           /\ Assigned(amt) <= remaining
<1>1. /\ job.total \in Nat /\ job.min_amount \in Nat
      /\ job.max_amount \in Nat /\ job.min_remaining \in Nat
      /\ 2 * job.min_amount <= job.total
      /\ job.min_amount + job.min_remaining <= job.max_amount
      /\ remaining \in Nat
  BY JobFacts DEF Inv, PlanTypeOK, Acceptable
<1> DEFINE capped == MinOf(MinOf(amt, job.max_amount), remaining)
<1>2. capped \in job.min_amount .. job.max_amount /\ capped <= remaining
  BY <1>1 DEF MinOf
<1>3. CASE at_least_2 /\ planned = {}
  <2>1. remaining = job.total
    BY <1>3 DEF Inv
  <2>2. remaining \div 2 \in Nat /\ job.min_amount <= remaining \div 2
    BY <2>1, <1>1
  <2>3. Assigned(amt) = MinOf(capped, remaining \div 2)
    BY <1>3 DEF Assigned
  <2> HIDE DEF capped
  <2> QED
    BY <2>2, <2>3, <1>1, <1>2 DEF MinOf
<1>4. CASE ~(at_least_2 /\ planned = {})
  BY <1>2, <1>4 DEF Assigned
<1> QED
  BY <1>3, <1>4

(* An equal part of the rest, with its unit of the remainder, is never     *)
(* more than the rest (Planner.cpp:139-149).                               *)
LEMMA ShareBound ==
    ASSUME Inv, Repairs, NEW n \in planned
    PROVE  Share(n) \in Nat /\ Share(n) <= remaining
<1> DEFINE size == Cardinality(planned)
           rank == Cardinality({m \in planned : m < n})
           q == remaining \div size
           r == remaining % size
<1>1. IsFiniteSet(planned)
  BY FS_Subset, PlannerAssumption DEF Inv, PlanTypeOK
<1>2. size \in Nat /\ size # 0
  BY <1>1, FS_CardinalityType, FS_EmptySet
<1>3. {m \in planned : m < n} \subseteq planned
  OBVIOUS
<1>4. rank \in Nat
  BY <1>1, <1>3, FS_Subset, FS_CardinalityType
<1>5. remaining \in Nat
  BY DEF Inv, PlanTypeOK
<1>6. Share(n) = q + (IF rank < r THEN 1 ELSE 0)
  BY DEF Share
<1> HIDE DEF size, rank
<1>7. q \in Nat /\ r \in Nat /\ remaining = size * q + r
  BY <1>2, <1>5
<1> HIDE DEF q, r
<1>8. size * q >= q
  BY <1>2, <1>7
<1>9. size * q \in Nat
  BY <1>2, <1>7
<1>10. CASE rank < r
  <2>1. r >= 1
    BY <1>4, <1>7, <1>10
  <2> QED
    BY <2>1, <1>5, <1>6, <1>7, <1>8, <1>9, <1>10
<1>11. CASE ~(rank < r)
  BY <1>5, <1>6, <1>7, <1>8, <1>9, <1>11
<1> QED
  BY <1>10, <1>11

(* Why the assert of check_results holds: the node that cannot take its    *)
(* part is within the rest of the maximum, and the maximum is at least     *)
(* min_amount + min_remaining.                                             *)
THEOREM InvGivesDeductPossible == Inv => DeductPossible
<1> SUFFICES ASSUME Inv, Repairs, ~can_divide
             PROVE  for_deduct # {}
  BY DEF DeductPossible
<1>1. /\ job.total \in Nat /\ job.min_amount \in Nat
      /\ job.max_amount \in Nat /\ job.min_remaining \in Nat
      /\ job.min_amount + job.min_remaining <= job.max_amount
      /\ job.min_amount <= job.min_remaining
      /\ remaining \in Nat
  BY JobFacts DEF Inv, PlanTypeOK, Acceptable
<1>2. PICK n \in planned : ~(amount[n] + Share(n) <= job.max_amount)
  BY DEF can_divide
<1>3. Share(n) \in Nat /\ Share(n) <= remaining
  BY ShareBound
<1>4. amount[n] \in Nat
  BY DEF Inv, PlanTypeOK
<1>5. Target \in Nat /\ Target <= job.min_remaining
  BY <1>1 DEF Target
<1>6. job.min_amount + needed <= amount[n]
  BY <1>1, <1>2, <1>3, <1>4, <1>5 DEF needed
<1> QED
  BY <1>6 DEF for_deduct

(* The initial state of a plan satisfies the inductive invariant.          *)
LEMMA InitInv == PlannerInit => Inv
<1> SUFFICES ASSUME PlannerInit PROVE Inv
  OBVIOUS
<1>1. job.total \in Nat
  BY JobFacts DEF PlannerInit
<1>2. proposals \in Seq(Nodes)
  <2>1. PICK k \in 0..Cardinality(Nodes) : proposals \in [1..k -> Nodes]
    BY DEF PlannerInit
  <2>2. Cardinality(Nodes) \in Nat
    BY PlannerAssumption, FS_CardinalityType
  <2>3. k \in Nat
    BY <2>2
  <2> QED
    BY <2>1, <2>3
<1> QED
  BY <1>1, <1>2 DEF PlannerInit, Inv, PlanTypeOK, WithinLimits, Phases

(* Every step of the loop and of the repair keeps it.                      *)
LEMMA NextInv == Inv /\ [PlannerStep]_planVars => Inv'
<1> SUFFICES ASSUME Inv, [PlannerStep]_planVars PROVE Inv'
  OBVIOUS
<1>1. /\ job \in Jobs
      /\ job.total \in Nat /\ job.min_amount \in Nat
      /\ job.max_amount \in Nat /\ job.min_remaining \in Nat
      /\ job.min_amount > 0
      /\ job.min_amount + job.min_remaining <= job.max_amount
      /\ job.min_amount <= job.min_remaining
  BY JobFacts DEF Inv, PlanTypeOK, Acceptable
<1>2. /\ proposals \in Seq(Nodes) /\ remaining \in Nat /\ planned \subseteq Nodes
      /\ amount \in [Nodes -> Nat] /\ rejected \subseteq Nodes /\ phase \in Phases
  BY DEF Inv, PlanTypeOK
<1>3. \A n \in planned : amount[n] \in job.min_amount .. job.max_amount
  BY DEF Inv, WithinLimits
<1>a. CASE Stop
  BY <1>1, <1>2, <1>3, <1>a DEF Stop, Inv, PlanTypeOK, WithinLimits, Phases
<1>b. ASSUME NEW amt \in Flows, Dowse(amt) PROVE Inv'
  <2>1. amt \in Nat /\ Head(proposals) \in Nodes /\ Tail(proposals) \in Seq(Nodes)
    BY <1>2, <1>b, PlannerAssumption DEF Dowse
  <2>2. CASE amt < job.min_amount
    BY <1>1, <1>2, <1>3, <1>b, <2>1, <2>2 DEF Dowse, Inv, PlanTypeOK, WithinLimits, Phases
  <2>3. CASE ~(amt < job.min_amount)
    <3>1. /\ Assigned(amt) \in job.min_amount .. job.max_amount
          /\ Assigned(amt) <= remaining
      BY <1>1, <1>b, <2>1, <2>3, AssignedBounds DEF Dowse
    <3>2. /\ planned' = planned \union {Head(proposals)}
          /\ amount' = [amount EXCEPT ![Head(proposals)] = Assigned(amt)]
          /\ remaining' = remaining - Assigned(amt)
          /\ proposals' = Tail(proposals)
          /\ UNCHANGED <<rejected, job, phase>>
      BY <1>b, <2>3 DEF Dowse
    <3>3. PlanTypeOK'
      BY <1>1, <1>2, <2>1, <3>1, <3>2 DEF PlanTypeOK
    <3>4. WithinLimits'
      BY <1>1, <1>2, <1>3, <2>1, <3>1, <3>2 DEF WithinLimits
    <3>5. planned' # {} /\ phase' # "check"
      BY <1>b, <3>2 DEF Dowse
    <3> QED
      BY <3>3, <3>4, <3>5 DEF Inv
  <2> QED
    BY <2>2, <2>3
<1>c. CASE Clear
  BY <1>1, <1>2, <1>3, <1>c DEF Clear, Inv, PlanTypeOK, WithinLimits, Phases
<1>d. CASE Leave
  BY <1>1, <1>2, <1>3, <1>d DEF Leave, Inv, PlanTypeOK, WithinLimits, Phases
<1>e. CASE Divide
  <2>1. \A n \in planned : Share(n) \in Nat
    BY <1>e, ShareBound DEF Divide
  <2>2. \A n \in planned : amount[n] + Share(n) <= job.max_amount
    BY <1>e DEF Divide, can_divide
  <2>3. /\ amount' = [n \in Nodes |-> IF n \in planned THEN amount[n] + Share(n)
                                                       ELSE amount[n]]
        /\ UNCHANGED <<job, proposals, remaining, planned, rejected>>
        /\ phase' = "done"
    BY <1>e DEF Divide
  <2>4. PlanTypeOK'
    BY <1>1, <1>2, <2>1, <2>3 DEF PlanTypeOK, Phases
  <2>5. WithinLimits'
    BY <1>1, <1>2, <1>3, <2>1, <2>2, <2>3 DEF WithinLimits
  <2> QED
    BY <2>3, <2>4, <2>5 DEF Inv
<1>f. CASE Deduct
  <2>1. PICK n \in for_deduct :
          LET left == [amount EXCEPT ![n] = @ - needed]
          IN  IF proposals # << >>
              THEN /\ planned' = planned \union {Head(proposals)}
                   /\ amount' = [left EXCEPT ![Head(proposals)] = Target]
                   /\ proposals' = Tail(proposals)
                   /\ remaining' = 0
              ELSE /\ amount' = left
                   /\ remaining' = Target
                   /\ UNCHANGED <<planned, proposals>>
    BY <1>f DEF Deduct
  <2>2. /\ n \in planned /\ n \in Nodes
        /\ job.min_amount + needed <= amount[n]
    BY <1>2, <2>1 DEF for_deduct
  <2>3. Target \in job.min_amount .. job.max_amount
    BY <1>1 DEF Target
  <2>4. needed \in Nat
    <3>1. phase = "check" /\ remaining < job.min_remaining
      BY <1>f DEF Deduct, Repairs
    <3>2. remaining < job.min_amount \/ proposals = << >>
      BY <3>1 DEF Inv
    <3> QED
      BY <1>1, <1>2, <3>1, <3>2 DEF needed, Target
  <2>5. amount[n] - needed \in job.min_amount .. job.max_amount
    BY <1>1, <1>3, <2>2, <2>4
  <2> DEFINE left == [amount EXCEPT ![n] = @ - needed]
  <2>6. /\ left \in [Nodes -> Nat]
        /\ \A k \in planned : left[k] \in job.min_amount .. job.max_amount
    BY <1>1, <1>2, <1>3, <2>2, <2>5
  <2>7. job' = job /\ rejected' = rejected /\ phase' = "done"
    BY <1>f DEF Deduct
  <2>8. CASE proposals # << >>
    <3>1. Head(proposals) \in Nodes /\ Tail(proposals) \in Seq(Nodes)
      BY <1>2, <2>8
    <3>2. /\ planned' = planned \union {Head(proposals)}
          /\ amount' = [left EXCEPT ![Head(proposals)] = Target]
          /\ proposals' = Tail(proposals)
          /\ remaining' = 0
      BY <2>1, <2>8
    <3> HIDE DEF left
    <3>3. PlanTypeOK'
      BY <1>1, <1>2, <2>3, <2>6, <2>7, <3>1, <3>2 DEF PlanTypeOK, Phases
    <3>4. WithinLimits'
      BY <1>1, <1>2, <2>3, <2>6, <2>7, <3>1, <3>2 DEF WithinLimits
    <3> QED
      BY <2>7, <3>3, <3>4 DEF Inv
  <2>9. CASE proposals = << >>
    <3>1. amount' = left /\ remaining' = Target /\ UNCHANGED <<planned, proposals>>
      BY <2>1, <2>9
    <3> HIDE DEF left
    <3>2. PlanTypeOK'
      BY <1>1, <1>2, <2>3, <2>6, <2>7, <3>1 DEF PlanTypeOK, Phases
    <3>3. WithinLimits'
      BY <1>1, <1>2, <2>6, <2>7, <3>1 DEF WithinLimits
    <3> QED
      BY <2>7, <3>2, <3>3 DEF Inv
  <2> QED
    BY <2>8, <2>9
<1>g. CASE Returned \/ UNCHANGED planVars
  BY <1>g DEF Returned, planVars, Inv, PlanTypeOK, WithinLimits
<1> QED
  BY <1>a, <1>b, <1>c, <1>d, <1>e, <1>f, <1>g DEF PlannerStep

(* The assert on for_deduct (Planner.cpp:186) never fires, and every node  *)
(* of the plan stays within the channel size limits, for all limits the    *)
(* constructor accepts.                                                    *)
THEOREM DeductPossibleAlways == PlannerSpec => []DeductPossible
BY InitInv, NextInv, InvGivesDeductPossible, PTL DEF PlannerSpec

(* Every channel the plan asks for is within the size limits.              *)
THEOREM WithinLimitsAlways == PlannerSpec => []WithinLimits
<1>1. Inv => WithinLimits
  BY DEF Inv
<1> QED
  BY <1>1, InitInv, NextInv, PTL DEF PlannerSpec
=============================================================================
