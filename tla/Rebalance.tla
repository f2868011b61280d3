------------------------------ MODULE Rebalance ------------------------------
(***************************************************************************)
(* The hook path and the rebalancing driver together: a forward that       *)
(* arrives at the hook is announced to the driver before it is answered,   *)
(* and moves funds once it is.                                             *)
(***************************************************************************)
EXTENDS HtlcAcceptor, XRebalancer

CONSTANT Forward    \* hook -> [in, out], the channels of its HTLC

VARIABLE settled    \* hooks whose HTLC has been forwarded

rebVars == <<hookVars, xrVars, settled>>

(* A behaviour is about deferrers or about cycles, not about both.          *)
RebInit ==
    /\ HookInit /\ XRInit
    /\ bound.cycles > 0 <=> providers = {"DemandTracker"}
    /\ settled = {}

Hook(A) == A /\ UNCHANGED <<xrVars, settled>>

Driver(A) == A /\ UNCHANGED <<hookVars, settled>>

(* DemandTracker::htlc_accepted: raise DemandObserved, then decline.       *)
DemandObserved(h) ==
    /\ Decide(h, "DemandTracker", FALSE)
    /\ handle_demand(Forward[h].out)
    /\ UNCHANGED settled

OtherDecides(h) ==
    \E d \in OtherDeferrers, defers \in BOOLEAN : Decide(h, d, defers)

(* lightningd forwards the HTLC after the answer, and it is fulfilled.     *)
HtlcForwarded(h) ==
    /\ answers[h] > 0
    /\ h \notin settled
    /\ settled' = settled \cup {h}
    /\ Forwarded(Forward[h].in, Forward[h].out)
    /\ UNCHANGED hookVars

HookNext(h) ==
    \/ Hook(HookArrives(h) /\ Cardinality({k \in Hooks : hookAt[k] # "none"}) < bound.hooks)
    \/ Hook(HookStep(h))
    \/ Hook(OtherDecides(h))
    \/ Hook(OtherReleases(h))
    \/ DemandObserved(h)
    \/ HtlcForwarded(h)

OperatorNext ==
    \/ \E v \in {"xrebalance", "off", "bad"} : Driver(SetMode(v))
    \/ \E n \in Nodes : Driver(Unmanage(n))
    \/ \E o \in Options : Driver(SetOption(o))

PluginNext ==
    \/ Driver(SendPart)
    \/ \E p \in part : Driver(PartCompletes(p)) \/ Driver(PartFails(p))

RebNext ==
    \/ \E h \in Hooks : HookNext(h)
    \/ OperatorNext
    \/ PluginNext
    \/ Driver(DriverStart)
    \/ Driver(Tick)
    \/ \E t \in Threads : Driver(CycleStep(t))

(* Greenthreads that can run do run, timers fire, a deferrer's Io returns.  *)
(* A cycle's own steps are enabled wherever it does not wait for a command, *)
(* so their weak fairness says that it does not stay in such a place.       *)
(* What lightningd and the plugin do is not assumed here.                   *)
RebSpec ==
    /\ RebInit /\ [][RebNext]_rebVars
    /\ \A h \in Hooks :
          WF_rebVars(Hook(HookStep(h)) \/ Hook(OtherDecides(h)) \/ DemandObserved(h))
    /\ \A t \in Threads : []<>(cycle[t].at \notin {"mode", "join", "plan"})

(* lightningd and the plugin answer every command.                         *)
CommandsAnswered ==
    \A t \in Threads : /\ []<>(cycle[t].at # "list")
                       /\ []<>(cycle[t].at # "execute")

(* The driver is never wedged: when the commands it waits for are answered, *)
(* with a result or an error, it is free again and again.                   *)
CyclesEnd == CommandsAnswered => []<>(~in_flight)
=============================================================================
