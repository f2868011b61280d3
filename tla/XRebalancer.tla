----------------------------- MODULE XRebalancer -----------------------------
(***************************************************************************)
(* The rebalancing driver: XRebalancer with RebalanceModeManager and       *)
(* RebalanceUnmanager, against the external xrebalance plugin.             *)
(*                                                                         *)
(* A cycle reads the mode, the channels, the earnings and the unmanaged    *)
(* set in that order, with other greenthreads running in between, and then *)
(* asks the plugin for one transfer.  The plugin sends it in parts, and    *)
(* may answer while parts are still pending; the driver is free for the    *)
(* next cycle when the answer is there.  Cycles come from the loop and,    *)
(* one greenthread each, from forwards (DemandObserved).                   *)
(***************************************************************************)
EXTENDS XRebalancePlan

CONSTANTS
    Channels,       \* channel -> [node, cap], the channels of the node
    Starts,         \* the balances the node can start with
    Earnings,       \* the rows EarningsTracker can hold
    Demands,        \* greenthreads of demand cycles
    Options,        \* the options given to setconfig
    Bounds          \* how much happens: numbers of options and unmanagements,
                    \* of requests to the plugin, and of parts of a request

Loop == "loop"
Threads == {Loop} \cup Demands
Scids == DOMAIN Channels
Nodes == {Channels[c].node : c \in Scids}

VARIABLES
    mode,           \* RebalanceModeManager
    unmanaged,      \* RebalanceUnmanager
    setting,        \* the options of XRebalancer
    started, in_flight,
    plugin,         \* plugin_state, and whether consecutive_failures > 0
    cycle,          \* thread -> where its cycle is, and what it has read
    local,          \* our balance in each channel, in lightningd
    part,           \* parts in flight, of the current and of earlier requests
    request,        \* the last request, with what it has sent per channel
    undisturbed,    \* nothing but the request moved funds since its listing
    bound,          \* the bounds of this behaviour, and two counters for them
    changes, cycles

modeVars == <<mode, unmanaged, setting>>
driverVars == <<started, in_flight, plugin, cycle>>
fundVars == <<local, part, request, undisturbed>>
countVars == <<bound, changes, cycles>>
xrVars == <<modeVars, driverVars, fundVars, countVars>>

Idle == [at |-> "idle", scid |-> Matched, chans |-> {}, net |-> << >>]

NoRequest == [dests |-> {}, sources |-> {}, requested |-> 0, sent |-> 0, id |-> 0,
              used |-> [c \in Scids |-> 0]]

XRInit ==
    /\ mode = "xrebalance"
    /\ unmanaged = {}
    /\ setting = [per_hour |-> 24, floor |-> 50, floor_auto |-> TRUE,
                  fill_band |-> 25, drain_band |-> 75, grant |-> 0,
                  grant_weight |-> 25, gain |-> 1]
    /\ started = FALSE /\ in_flight = FALSE
    /\ plugin = [state |-> "unknown", failing |-> FALSE]
    /\ cycle = [t \in Threads |-> Idle]
    /\ local \in Starts
    /\ part = {}
    /\ request = NoRequest
    /\ undisturbed = TRUE
    /\ bound \in Bounds
    /\ changes = 0 /\ cycles = 0

-----------------------------------------------------------------------------
(* RebalanceModeManager: an unknown value is rejected and changes nothing. *)
SetMode(v) ==
    /\ changes < bound.options
    /\ changes' = changes + 1
    /\ mode' = IF v \in {"xrebalance", "off"} THEN v ELSE mode
    /\ UNCHANGED <<unmanaged, setting, driverVars, fundVars, bound, cycles>>

(* RebalanceUnmanager: the "balance" tag of clboss-unmanage.               *)
Unmanage(n) ==
    /\ changes < bound.options
    /\ changes' = changes + 1
    /\ unmanaged' = IF n \in unmanaged THEN unmanaged \ {n} ELSE unmanaged \cup {n}
    /\ UNCHANGED <<mode, setting, driverVars, fundVars, bound, cycles>>

Clamp(v, lo, hi) == IF v < lo THEN lo ELSE IF v > hi THEN hi ELSE v

Unbounded == 1000000

(* handle_option.  A value is "auto", a number, or "bad": not finite.  A   *)
(* value for the floor ends auto even when it is then rejected.            *)
handle_option(s, o) ==
    LET t == IF o.name = "floor" THEN [s EXCEPT !.floor_auto = (o.is = "auto")] ELSE s
    IN  CASE o.is # "number" -> t
          [] o.name \in {"gain", "grant_weight"} ->
               IF o.v > 0 THEN [t EXCEPT ![o.name] = o.v] ELSE t
          [] o.name \in {"fill_band", "drain_band"} ->
               [t EXCEPT ![o.name] = Clamp(o.v, 0, 100)]
          [] OTHER -> [t EXCEPT ![o.name] = Clamp(o.v, 0, Unbounded)]

SetOption(o) ==
    /\ changes < bound.options
    /\ changes' = changes + 1
    /\ setting' = handle_option(setting, o)
    /\ undisturbed' = FALSE
    /\ UNCHANGED <<mode, unmanaged, driverVars, local, part, request, bound, cycles>>

-----------------------------------------------------------------------------
(* Msg::Init starts the loop once.                                         *)
DriverStart ==
    /\ ~started
    /\ started' = TRUE
    /\ UNCHANGED <<modeVars, in_flight, plugin, cycle, fundVars, countVars>>

Busy == in_flight

Enter(t, scid) ==
    /\ cycle[t] = Idle
    /\ in_flight' = TRUE
    /\ cycle' = [cycle EXCEPT ![t] = [Idle EXCEPT !.at = "mode", !.scid = scid]]

(* tick, after the wait of the loop.                                       *)
Tick ==
    /\ started
    /\ setting.per_hour > 0
    /\ ~Busy
    /\ cycles < bound.cycles
    /\ Enter(Loop, Matched)
    /\ UNCHANGED <<modeVars, started, plugin, fundVars, countVars>>

(* handle_demand, in the path of the hook: a trigger that finds a cycle    *)
(* running is discarded.                                                   *)
DemandAccepted == started /\ ~Busy

handle_demand(scid) ==
    \/ /\ ~DemandAccepted \/ cycles >= bound.cycles
       /\ UNCHANGED xrVars
    \/ /\ DemandAccepted
       /\ cycles < bound.cycles
       /\ \E t \in Demands : Enter(t, scid)
       /\ UNCHANGED <<modeVars, started, plugin, fundVars, countVars>>

(* Mutant: an exception skips the clear.                                   *)
LeaveWedged(t) ==
    /\ in_flight' = (cycle[t].at = "list")
    /\ cycle' = [cycle EXCEPT ![t] = Idle]

(* The end of a cycle, on the normal path and behind the catch-all.        *)
Leave(t) ==
    /\ in_flight' = FALSE
    /\ cycle' = [cycle EXCEPT ![t] = Idle]

(* get_mode answers.                                                       *)
Gate(t) ==
    /\ cycle[t].at = "mode"
    /\ IF mode = "xrebalance"
       THEN cycle' = [cycle EXCEPT ![t].at = "list"] /\ UNCHANGED in_flight
       ELSE Leave(t)
    /\ UNCHANGED <<modeVars, started, plugin, fundVars, countVars>>

(* listpeerchannels as lightningd has it now: pending parts do not count.  *)
Listing ==
    build_chans({[scid |-> c, node |-> Channels[c].node, online |-> TRUE,
                  state |-> "CHANNELD_NORMAL", to_us |-> local[c],
                  total |-> Channels[c].cap, inflight |-> {}] : c \in Scids})

List(t) ==
    /\ cycle[t].at = "list"
    /\ \/ /\ cycle' = [cycle EXCEPT ![t].at = "join", ![t].chans = Listing]
          /\ undisturbed' = (part = {})
          /\ UNCHANGED in_flight
       \/ Leave(t) /\ UNCHANGED undisturbed     \* RpcError
    /\ UNCHANGED <<modeVars, started, plugin, local, part, request, countVars>>

(* run_cycle_with: one transaction over EarningsTracker.                   *)
Join(t) ==
    /\ cycle[t].at = "join"
    /\ \E rows \in Earnings :
          cycle' = [cycle EXCEPT ![t].at = "plan",
                                 ![t].net = NetPpm(cycle[t].chans, rows, setting)]
    /\ UNCHANGED <<modeVars, started, in_flight, plugin, fundVars, countVars>>

(* plan_and_log with the unmanaged set as it is now, then execute_cycle.   *)
CapMap(caps) == [c \in Scids |-> LET m == {k \in caps : k.scid = c}
                                 IN  IF m = {} THEN 0 ELSE (CHOOSE k \in m : TRUE).max]

Excluded == unmanaged

Plan(t) ==
    LET plans == Plans(cycle[t].chans, cycle[t].net, Excluded, setting, cycle[t].scid)
    IN  /\ cycle[t].at = "plan"
        /\ \/ /\ plans = {}
              /\ Leave(t)
              /\ UNCHANGED <<request, cycles>>
           \/ \E p \in plans :
                 /\ request' = [dests |-> CapsOf(p.dests), sources |-> CapsOf(p.sources),
                                requested |-> p.requested, sent |-> 0,
                                id |-> cycles + 1, used |-> [c \in Scids |-> 0]]
                 /\ cycle' = [cycle EXCEPT ![t] = [Idle EXCEPT !.at = "execute"]]
                 /\ cycles' = cycles + 1
                 /\ UNCHANGED in_flight
        /\ UNCHANGED <<modeVars, started, plugin, local, part, undisturbed, bound, changes>>

(* The plugin answers, however the transfer went, or lightningd refuses    *)
(* the command: it is unknown when the plugin is not loaded.               *)
plugin_answered == [state |-> "present", failing |-> FALSE]

plugin_refused(unknown) ==
    [state |-> IF unknown THEN "absent" ELSE "present", failing |-> TRUE]

Execute(t) ==
    /\ cycle[t].at = "execute"
    /\ \/ plugin' = plugin_answered
       \/ /\ request.sent = 0
          /\ \E unknown \in BOOLEAN : plugin' = plugin_refused(unknown)
       \/ plugin' = [plugin EXCEPT !.failing = TRUE]      \* std::exception
    /\ Leave(t)
    /\ UNCHANGED <<modeVars, started, fundVars, countVars>>

CycleStep(t) == Gate(t) \/ List(t) \/ Join(t) \/ Plan(t) \/ Execute(t)

-----------------------------------------------------------------------------
(* The plugin sends a part while it works on a request: each channel stays *)
(* within its max_msat and its live liquidity, the sum within amount_msat. *)
Pending(c) == SumOver({p \in part : p.src = c}, LAMBDA p : p.amount)

SendPart ==
    /\ \E t \in Threads : cycle[t].at = "execute"
    /\ Cardinality({p \in part : p.id = request.id}) < bound.parts
    /\ \E src, dst \in Scids, a \in 1..(request.requested - request.sent) :
          /\ request.used[src] + a <= CapMap(request.sources)[src]
          /\ request.used[dst] + a <= CapMap(request.dests)[dst]
          /\ Pending(src) + a <= local[src]
          /\ [src |-> src, dst |-> dst, amount |-> a, id |-> request.id] \notin part
          /\ part' = part \cup {[src |-> src, dst |-> dst, amount |-> a, id |-> request.id]}
          /\ request' = [request EXCEPT !.sent = @ + a,
                                        !.used = [@ EXCEPT ![src] = @ + a, ![dst] = @ + a]]
    /\ UNCHANGED <<modeVars, driverVars, local, undisturbed, countVars>>

(* A part completes, now or after the answer, or it fails.                 *)
PartCompletes(p) ==
    /\ p \in part
    /\ part' = part \ {p}
    /\ local' = [local EXCEPT ![p.src] = @ - p.amount, ![p.dst] = @ + p.amount]
    /\ undisturbed' = (undisturbed /\ p.id = request.id
                       /\ \A t \in Threads : cycle[t].at \in {"idle", "execute"})
    /\ UNCHANGED <<modeVars, driverVars, request, countVars>>

PartFails(p) ==
    /\ p \in part
    /\ part' = part \ {p}
    /\ UNCHANGED <<modeVars, driverVars, local, request, undisturbed, countVars>>

(* Funds of a forward, from channel in to channel out.                     *)
Forwarded(src, dst) ==
    /\ local[dst] > 0
    /\ local[src] < Channels[src].cap
    /\ local' = [local EXCEPT ![src] = @ + 1, ![dst] = @ - 1]
    /\ undisturbed' = FALSE
    /\ UNCHANGED <<modeVars, driverVars, part, request, countVars>>

-----------------------------------------------------------------------------
PeerLocal(n) == SumOver({c \in Scids : Channels[c].node = n}, LAMBDA c : local[c])
PeerCap(n) == SumOver({c \in Scids : Channels[c].node = n}, LAMBDA c : Channels[c].cap)
FlowTo(n) == SumOver({p \in part : Channels[p.dst].node = n}, LAMBDA p : p.amount)
FlowFrom(n) == SumOver({p \in part : Channels[p.src].node = n}, LAMBDA p : p.amount)

Executing == \E t \in Threads : cycle[t].at = "execute"

(* distribute_caps: no peer of a request is pushed past its band edge, with *)
(* all parts counted, however the plugin splits the flow.  Only forwards,   *)
(* new settings or parts of an earlier request that were still pending at   *)
(* the listing can make a cycle overshoot.                                  *)
NoOvershoot ==
    (Executing /\ undisturbed) =>
        /\ \A k \in request.dests :
              LET n == Channels[k.scid].node
              IN  PeerLocal(n) + FlowTo(n) <= Edge(PeerCap(n), setting.fill_band)
        /\ \A k \in request.sources :
              LET n == Channels[k.scid].node
              IN  PeerLocal(n) - FlowFrom(n) >= Edge(PeerCap(n), setting.drain_band)
=============================================================================
