---------------------------- MODULE MCChanneling ----------------------------
(***************************************************************************)
(* How CLBOSS comes to its channels: the cycles of the ChannelCreator, and *)
(* what a cycle calls on the way from candidates to a plan.  A cycle sees  *)
(* the Dowser, the order of the proposals and the Planner only by their    *)
(* results; a behaviour follows one of the four, its subject.              *)
(***************************************************************************)
EXTENDS ChannelCreator, Dowser, ProposalOrder, Planner

VARIABLE subject

channelingVars == <<subject, creatorVars, dowserVars, orderVars, planVars>>

(* The others stay where they begin.                                       *)
ChannelingInit ==
    /\ subject \in {"creator", "dowser", "order", "planner"}
    /\ CreatorInit /\ DowserInit /\ OrderInit /\ PlannerInit
    /\ subject # "creator" => settings = CHOOSE s \in Settings : TRUE
    /\ subject # "order" => list = << >>
    /\ subject # "planner" => proposals = << >> /\ job = CHOOSE j \in Jobs : TRUE

ChannelingNext ==
    /\ UNCHANGED subject
    /\ \/ subject = "creator" /\ CreatorStep /\ UNCHANGED <<dowserVars, orderVars, planVars>>
       \/ subject = "dowser" /\ DowserStep /\ UNCHANGED <<creatorVars, orderVars, planVars>>
       \/ subject = "order" /\ OrderStep /\ UNCHANGED <<creatorVars, dowserVars, planVars>>
       \/ subject = "planner" /\ PlannerStep /\ UNCHANGED <<creatorVars, dowserVars, orderVars>>

ChannelingSpec == ChannelingInit /\ [][ChannelingNext]_channelingVars

(* Every RPC that a cycle waits for answers, and messages are delivered.   *)
CreatorFairness ==
    /\ \A c \in Cycles : WF_creatorVars(subject = "creator" /\ ~aborted /\ CycleStep(c))
    /\ \A r \in Peers \X BOOLEAN :
           WF_creatorVars(subject = "creator" /\ ~aborted /\ ChannelCreateResult(r))

ChannelingFairSpec == ChannelingSpec /\ CreatorFairness

-----------------------------------------------------------------------------

(* The instance.  The settings are scaled down from the                     *)
(* defaults (min_remaining is 2 * min_channel plus one), two of them so     *)
(* that a setconfig can raise the minimum under a running cycle.  The jobs  *)
(* of the Planner go from the least acceptable total to three full channels *)
(* and a rest.  The flows lie around the floors, the targets and their      *)
(* probes, and in steps of less than the coarsest resolution in between.    *)

Limits(min, max) ==
    [min_channel |-> min, max_channel |-> max, reserve |-> 2,
     min_amount |-> 2 * min, min_remaining |-> 2 * min + 1]

MCSettings == {Limits(1, 5), Limits(3, 12)}

MCJobs ==
    {[total |-> t, existing |-> e, min_amount |-> 2, max_amount |-> m,
      min_remaining |-> 5] : t \in 4..26, e \in {1, 2}, m \in {7, 8}}

MCNetworks ==
    {0, 1, 666, 667, 1101, 1102, 2031, 2032, 64973, 65974, 65975, 70000}
        \union {3000 + 1900 * i : i \in 0..32}

Record(count, avg, net) == [count |-> count, avg |-> avg, net |-> net]

MCRecords == {Record(0, 0, 0), Record(1, 9, 9), Record(20, 0, 5), Record(20, 9, 1), Record(20, 9, -1)}
=============================================================================
