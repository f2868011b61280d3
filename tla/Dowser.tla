------------------------------- MODULE Dowser -------------------------------
(***************************************************************************)
(* The Dowser: how much can flow from one node to another                  *)
(* (Boss/Mod/Dowser.cpp, AskreneLayer.cpp).  A dowse first makes sure of   *)
(* the layer of askrene that keeps our own channels out of the flow, then  *)
(* asks getroutes, which says all or nothing for an amount: for the whole  *)
(* probe, for a floor, and for what lies between by bisection.             *)
(*                                                                         *)
(* Amounts are millisatoshi.  A product with a double is rounded down, as  *)
(* Ln::Amount does.  getroutes delivers exactly the amount it finds routes *)
(* for, so that the lower end of the bracket is also what it delivered.    *)
(***************************************************************************)
EXTENDS Integers

CONSTANTS
    Targets,                \* probe_target of a request, 0 for none
    Floors,                 \* floor_target of a request, 0 for none
    Networks, OwnFlows,     \* what can flow without us, and through us
    default_probe_amount,
    sat,                    \* Ln::Amount::sat(1)
    MaxDowses

ASSUME DowserAssumption ==
    /\ Targets \subseteq Nat /\ Floors \subseteq Nat
    /\ Networks \subseteq Nat /\ OwnFlows \subseteq Nat
    /\ default_probe_amount \in Nat \ {0}
    /\ sat \in Nat /\ sat >= 2
    /\ MaxDowses \in Nat

VARIABLES
    dpc,            \* where the dowse is
    probe_target, probe_amount, floor_target,
    lo, hi,         \* refine: what did flow, and what did not
    dowsed,         \* Run::amount
    exclude_layer,  \* getroutes is given the layer
    self_disabled,  \* the layer disables us: askrene keeps it
    network, own,   \* what can flow during this dowse
    rpc_failed,     \* this dowse met an RPC error
    dowses

request == <<probe_target, probe_amount, floor_target>>
flows == <<network, own>>
dowserVars == <<dpc, request, lo, hi, dowsed, exclude_layer, self_disabled, flows,
                rpc_failed, dowses>>

DowserInit ==
    /\ dpc = "idle"
    /\ probe_target = 0 /\ probe_amount = 0 /\ floor_target = 0
    /\ lo = 0 /\ hi = 0 /\ dowsed = 0
    /\ exclude_layer = FALSE /\ self_disabled = FALSE
    /\ network = 0 /\ own = 0
    /\ rpc_failed = FALSE
    /\ dowses = 0

\* Mutant of Scaled: without the satoshi on top.
ScaledBare(target) == (target * 1000) \div 985

\* The probe that still reaches target after the haircut.
Scaled(target) == (target * 1000) \div 985 + sat

\* reserve_factor
Haircut(delivered) == (delivered * 985) \div 1000

resolution == probe_amount \div 32

floor_probe_amount ==
    IF floor_target > 0 /\ Scaled(floor_target) < resolution
    THEN Scaled(floor_target) + 1
    ELSE resolution + 1

\* The Run that a RequestDowser creates.
DowseRun(target, floor) ==
    /\ probe_target' = target
    /\ floor_target' = floor
    /\ probe_amount' = IF target > 0 THEN Scaled(target) ELSE default_probe_amount

RequestDowser(target, floor) ==
    /\ dpc \in {"idle", "answered"}
    /\ dowses < MaxDowses
    /\ dowses' = dowses + 1
    /\ DowseRun(target, floor)
    /\ dpc' = "create"
    /\ network' \in Networks /\ own' \in OwnFlows
    /\ lo' = 0 /\ hi' = 0 /\ dowsed' = 0
    /\ exclude_layer' = FALSE /\ rpc_failed' = FALSE
    /\ UNCHANGED self_disabled

\* The command clboss-dowser gives no target.
run_command == RequestDowser(0, 0)

-----------------------------------------------------------------------------
\* AskreneLayer.

Layer(next, exclude, failed) ==
    /\ dpc' = next
    /\ exclude_layer' = exclude
    /\ rpc_failed' = (rpc_failed \/ failed)
    /\ UNCHANGED <<request, lo, hi, dowsed, flows, dowses>>

\* ensure_self_layer: without the layer the probe goes ahead all the same.
ensure_self_layer ==
    /\ dpc = "create"
    /\ \/ Layer("listed", TRUE, FALSE)
       \/ Layer("full", FALSE, TRUE)
    /\ UNCHANGED self_disabled

\* An error, or a listing that cannot be read, counts as not disabled.
is_node_disabled ==
    /\ dpc = "listed"
    /\ \/ Layer(IF self_disabled THEN "full" ELSE "disable", exclude_layer, FALSE)
       \/ Layer("disable", exclude_layer, TRUE)
    /\ UNCHANGED self_disabled

disable_node ==
    /\ dpc = "disable"
    /\ \/ self_disabled' = TRUE /\ Layer("full", exclude_layer, FALSE)
       \/ UNCHANGED self_disabled /\ Layer("full", exclude_layer, TRUE)

-----------------------------------------------------------------------------
\* The probes.

\* What getroutes finds routes for.
Flow == IF exclude_layer /\ self_disabled THEN network ELSE network + own

probe_flow(amt) == amt <= Flow

Answer(amt) ==
    /\ dpc' = "answered"
    /\ dowsed' = amt

SameRun == UNCHANGED <<request, exclude_layer, self_disabled, flows, dowses>>

\* probe: the full probe.
ProbeFull ==
    /\ dpc = "full"
    /\ \/ probe_flow(probe_amount) /\ Answer(Haircut(probe_amount))
       \/ ~probe_flow(probe_amount) /\ dpc' = "floor" /\ UNCHANGED dowsed
    /\ UNCHANGED <<lo, hi, rpc_failed>>
    /\ SameRun

\* probe: the floor.  Below it there is no flow of use to the requester.
ProbeFloor ==
    /\ dpc = "floor"
    /\ \/ /\ probe_flow(floor_probe_amount)
          /\ lo' = floor_probe_amount /\ hi' = probe_amount
          /\ dpc' = "refine"
          /\ UNCHANGED dowsed
       \/ /\ ~probe_flow(floor_probe_amount)
          /\ Answer(0)
          /\ UNCHANGED <<lo, hi>>
    /\ UNCHANGED rpc_failed
    /\ SameRun

Bracketing == dpc = "refine" /\ hi > lo /\ hi - lo > resolution

refine ==
    /\ Bracketing
    /\ LET mid == (lo + hi) \div 2
       IN  \/ probe_flow(mid) /\ lo' = mid /\ UNCHANGED hi
           \/ ~probe_flow(mid) /\ hi' = mid /\ UNCHANGED lo
    /\ UNCHANGED <<dpc, dowsed, rpc_failed>>
    /\ SameRun

finish_probe ==
    /\ dpc = "refine" /\ ~Bracketing
    /\ Answer(Haircut(lo))
    /\ UNCHANGED <<lo, hi, rpc_failed>>
    /\ SameRun

\* run: an error that is not the answer "no flow" aborts the probe.
ProbeError ==
    /\ dpc \in {"full", "floor"} \/ Bracketing
    /\ Answer(0)
    /\ rpc_failed' = TRUE
    /\ UNCHANGED <<lo, hi>>
    /\ SameRun

DowserStep ==
    \/ \E t \in Targets \ {0}, f \in Floors : RequestDowser(t, f)
    \/ run_command
    \/ ensure_self_layer \/ is_node_disabled \/ disable_node
    \/ ProbeFull \/ ProbeFloor \/ refine \/ finish_probe \/ ProbeError

DowserSpec == DowserInit /\ [][DowserStep]_dowserVars

-----------------------------------------------------------------------------

\* What a dowse without errors promises its requester (Dowser.cpp:138-150, 292-
\* 306, 438-456).  Our own channels are not counted.  The answer is never above
\* what can flow.  A flow of the whole probe reaches the target in spite of two
\* roundings, and one above the floor reaches the requester's floor.  In
\* between, the answer is short of the flow by no more than the resolution.
DowsedEstimate ==
    dpc = "answered" /\ ~rpc_failed =>
        /\ Flow = network
        /\ dowsed <= Haircut(Flow)
        /\ Flow >= probe_amount => dowsed >= probe_target
        /\ Flow >= floor_probe_amount /\ Flow < probe_amount =>
               /\ dowsed >= Haircut(Flow - resolution)
               /\ Scaled(floor_target) < resolution => dowsed >= floor_target
=============================================================================
