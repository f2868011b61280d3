----------------------------- MODULE MCSession ------------------------------
(***************************************************************************)
(* A session of the plugin: how it starts and takes its settings, its      *)
(* timers, and how the node gets and stays connected.  The three share no  *)
(* state; a behaviour follows one of them, its subject.                    *)
(***************************************************************************)
EXTENDS Startup, Timers, Connections

VARIABLE subject

sessionVars == <<subject, startupVars, timerVars, connectionVars>>

(* The others stay where they begin.                                       *)
SessionInit ==
    /\ subject \in {"startup", "timers", "connections"}
    /\ StartupInit /\ TimersInit /\ ConnectionsInit
    /\ subject # "startup" => saved = << >>
    /\ subject # "connections" => offline /\ connected = {}

SessionNext ==
    /\ UNCHANGED subject
    /\ \/ subject = "startup" /\ StartupStep /\ UNCHANGED <<timerVars, connectionVars>>
       \/ subject = "timers" /\ TimersStep /\ UNCHANGED <<startupVars, connectionVars>>
       \/ subject = "connections" /\ ConnectionsStep /\ UNCHANGED <<startupVars, timerVars>>

(* Greenthreads run.                                                       *)
StartupFairness == WF_startupVars(subject = "startup" /\ CommandStep)

(* Answers come, timers fire, and peers are listed; the world owes nothing.*)
ConnectionsFairness ==
    /\ WF_connectionVars(subject = "connections" /\ Solicited)
    /\ WF_connectionVars(subject = "connections" /\ MonitorStep)
    /\ WF_connectionVars(subject = "connections" /\ timed_core)
    /\ WF_connectionVars(subject = "connections" /\ ListpeersAnalyzed)
    /\ WF_connectionVars(subject = "connections" /\ on_disconnect)
    /\ \A n \in Nodes : WF_connectionVars(subject = "connections" /\ Connect(n))

SessionFairSpec ==
    /\ SessionInit /\ [][SessionNext]_sessionVars
    /\ StartupFairness /\ ConnectionsFairness

-----------------------------------------------------------------------------

(* The instance: a few options, amounts and nodes.                         *)

Text(sats, clean) == [sats |-> sats, clean |-> clean]

(* Nothing configured, a minimum above the maximum, and values too small.  *)
MCConfigs == {<< >>,
    [min_channel |-> Text(10000000, TRUE), max_channel |-> Text(5000000, TRUE)],
    [reserve |-> Text(0, FALSE), max_channel |-> Text(1, TRUE)]}

MCTexts == [min_channel |-> {Text(600000, TRUE), Text(1650000, TRUE), Text(0, FALSE)},
            max_channel |-> {Text(1550000, TRUE), Text(40000000, TRUE), Text(1000, TRUE)},
            reserve |-> {Text(30000, TRUE), Text(29999, TRUE)}]
=============================================================================
