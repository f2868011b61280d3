---------------------------- MODULE DowserProofs ----------------------------
(***************************************************************************)
(* What a dowse promises, for all amounts: targets, floors, flows and the  *)
(* default probe.                                                          *)
(***************************************************************************)
EXTENDS Dowser, TLAPS

Places == {"idle", "create", "listed", "disable", "full", "floor", "refine", "answered"}

Probing == {"full", "floor", "refine", "answered"}

(* Every variable has its type, and the probe is made for the target.      *)
Typed ==
    /\ dpc \in Places
    /\ probe_target \in Nat /\ probe_amount \in Nat /\ floor_target \in Nat
    /\ lo \in Nat /\ hi \in Nat /\ dowsed \in Nat
    /\ exclude_layer \in BOOLEAN /\ self_disabled \in BOOLEAN /\ rpc_failed \in BOOLEAN
    /\ network \in Nat /\ own \in Nat
    /\ dowses \in Nat
    /\ probe_target > 0 => probe_amount = Scaled(probe_target)

(* A probe without errors so far has the layer, and the layer disables us. *)
Shielded ==
    /\ dpc \in {"listed", "disable"} => exclude_layer
    /\ dpc \in Probing /\ ~rpc_failed => exclude_layer /\ self_disabled

(* The flow lies between the ends of the bracket.                          *)
Bracketed ==
    /\ dpc = "floor" => Flow < probe_amount
    /\ dpc = "refine" =>
           floor_probe_amount <= lo /\ lo <= Flow /\ Flow < hi /\ hi <= probe_amount

DInv == Typed /\ Shielded /\ Bracketed /\ DowsedEstimate

(* The satoshi on top is more than the two roundings lose (Dowser.cpp:138- *)
(* 150).                                                                   *)
LEMMA RoundTrip ==
    ASSUME NEW t \in Nat
    PROVE  Scaled(t) \in Nat /\ Haircut(Scaled(t)) >= t
<1> DEFINE q == (t * 1000) \div 985
           s == q + sat
           c == (s * 985) \div 1000
<1>1. q \in Nat /\ 985 * q <= t * 1000 /\ t * 1000 < 985 * q + 985
  OBVIOUS
<1>2. sat \in Nat /\ sat >= 2
  BY DowserAssumption
<1> HIDE DEF q
<1>3. s \in Nat /\ s * 985 >= 985 * q + 1970
  BY <1>1, <1>2
<1> HIDE DEF s
<1>4. c \in Nat /\ 1000 * c <= s * 985 /\ s * 985 < 1000 * c + 1000
  BY <1>3
<1> HIDE DEF c
<1>5. c >= t
  BY <1>1, <1>3, <1>4
<1> QED
  BY <1>3, <1>5 DEF Scaled, Haircut, q, s, c

LEMMA HaircutType ==
    ASSUME NEW a \in Nat
    PROVE  Haircut(a) \in Nat
BY DEF Haircut

(* More delivered is no less dowsed.                                       *)
LEMMA HaircutMonotone ==
    ASSUME NEW a \in Int, NEW b \in Int, a <= b
    PROVE  Haircut(a) <= Haircut(b)
<1> DEFINE x == (a * 985) \div 1000
           y == (b * 985) \div 1000
<1>1. x \in Int /\ 1000 * x <= a * 985
  OBVIOUS
<1>2. y \in Int /\ b * 985 < 1000 * y + 1000
  OBVIOUS
<1> HIDE DEF x, y
<1>3. x <= y
  BY <1>1, <1>2
<1> QED
  BY <1>3 DEF Haircut, x, y

LEMMA FlowType ==
    ASSUME Typed
    PROVE  Flow \in Nat
BY DEF Typed, Flow

LEMMA FloorFacts ==
    ASSUME Typed
    PROVE  /\ resolution \in Nat
           /\ floor_probe_amount \in Nat
           /\ floor_target > 0 /\ Scaled(floor_target) < resolution
                => floor_probe_amount >= Scaled(floor_target)
<1>1. resolution \in Nat
  BY DEF Typed, resolution
<1>2. Scaled(floor_target) \in Nat
  BY RoundTrip DEF Typed
<1> QED
  BY <1>1, <1>2 DEF floor_probe_amount

LEMMA DowserInitInv == DowserInit => DInv
<1> SUFFICES ASSUME DowserInit PROVE DInv
  OBVIOUS
<1>1. /\ exclude_layer \in BOOLEAN /\ self_disabled \in BOOLEAN /\ rpc_failed \in BOOLEAN
      /\ dpc = "idle"
  BY Zenon DEF DowserInit
<1>2. Typed
  BY <1>1 DEF DowserInit, Typed, Places
<1> QED
  BY <1>1, <1>2 DEF DInv, Shielded, Bracketed, DowsedEstimate, Probing

(* A request is sized for its target.                                      *)
LEMMA RequestInv ==
    ASSUME DInv, NEW t \in Nat, NEW f \in Nat, RequestDowser(t, f)
    PROVE  DInv'
<1>1. Scaled(t) \in Nat
  BY RoundTrip
<1>2. /\ exclude_layer' \in BOOLEAN /\ rpc_failed' \in BOOLEAN
      /\ self_disabled' \in BOOLEAN
  BY Zenon DEF RequestDowser, DInv, Typed
<1>3. dpc' = "create"
  BY DEF RequestDowser
<1>5. /\ probe_target' = t /\ floor_target' = f
      /\ probe_amount' = IF t > 0 THEN Scaled(t) ELSE default_probe_amount
      /\ lo' = 0 /\ hi' = 0 /\ dowsed' = 0 /\ dowses' = dowses + 1
      /\ network' \in Nat /\ own' \in Nat
  BY DowserAssumption DEF RequestDowser, DowseRun
<1>6. Typed'
  BY <1>1, <1>2, <1>3, <1>5, DowserAssumption DEF DInv, Typed, Places, Scaled
<1> QED
  BY <1>3, <1>6 DEF DInv, Shielded, Bracketed, DowsedEstimate, Probing

(* The steps of AskreneLayer.                                              *)
LEMMA LayerInv ==
    ASSUME DInv, ensure_self_layer \/ is_node_disabled \/ disable_node
    PROVE  DInv'
<1>a. /\ exclude_layer' \in BOOLEAN /\ rpc_failed' \in BOOLEAN
      /\ self_disabled' \in BOOLEAN
  BY Zenon DEF ensure_self_layer, is_node_disabled, disable_node, Layer, DInv, Typed
<1>b. UNCHANGED <<request, lo, hi, dowsed, flows, dowses>>
  BY DEF ensure_self_layer, is_node_disabled, disable_node, Layer
<1>c. dpc' \in Places
  BY DEF ensure_self_layer, is_node_disabled, disable_node, Layer, Places
<1>1. Typed'
  BY <1>a, <1>b, <1>c DEF DInv, Typed, request, flows, Scaled
<1>2. Shielded'
  BY DEF DInv, Typed, Shielded, ensure_self_layer, is_node_disabled, disable_node, Layer,
         Probing
<1>3. dpc' \in {"listed", "disable", "full"}
  BY DEF ensure_self_layer, is_node_disabled, disable_node, Layer
<1> QED
  BY <1>1, <1>2, <1>3 DEF DInv, Bracketed, DowsedEstimate

(* What a step within a probe leaves alone.                                *)
LEMMA SameRunFacts ==
    ASSUME Typed, SameRun
    PROVE  /\ Flow' = Flow /\ resolution' = resolution
           /\ floor_probe_amount' = floor_probe_amount
           /\ probe_amount' = probe_amount /\ probe_target' = probe_target
           /\ floor_target' = floor_target /\ network' = network
           /\ exclude_layer' = exclude_layer /\ self_disabled' = self_disabled
BY DEF SameRun, request, flows, Flow, resolution, floor_probe_amount, Scaled

LEMMA SameRunTyped ==
    ASSUME Typed, SameRun, dpc' \in Places, lo' \in Nat, hi' \in Nat, dowsed' \in Nat,
           rpc_failed' \in BOOLEAN
    PROVE  Typed'
BY DEF Typed, SameRun, request, flows, Scaled

(* The full probe: all of it flows, and the answer reaches the target, or  *)
(* the flow is below it.                                                   *)
LEMMA ProbeFullInv ==
    ASSUME DInv, ProbeFull
    PROVE  DInv'
<1>1. Typed /\ SameRun /\ Shielded /\ dpc = "full"
  BY DEF DInv, ProbeFull
<1>2. UNCHANGED <<lo, hi, rpc_failed>>
  BY DEF ProbeFull
<1>3. Flow \in Nat /\ probe_amount \in Nat /\ Haircut(probe_amount) \in Nat
  BY <1>1, FlowType, HaircutType DEF Typed
<1>4. CASE probe_flow(probe_amount) /\ Answer(Haircut(probe_amount))
  <2>1. dpc' = "answered" /\ dowsed' = Haircut(probe_amount) /\ probe_amount <= Flow
    BY <1>4 DEF Answer, probe_flow
  <2>2. Typed'
    BY <1>1, <1>2, <1>3, <2>1, SameRunTyped DEF Typed, Places
  <2>3. Shielded'
    BY <1>1, <1>2, <2>1, SameRunFacts DEF Shielded, Probing
  <2>4. Haircut(probe_amount) <= Haircut(Flow)
    BY <1>3, <2>1, HaircutMonotone
  <2>5. Haircut(probe_amount) >= probe_target
    <3>1. CASE probe_target > 0
      BY <1>1, <3>1, RoundTrip DEF Typed
    <3>2. CASE ~(probe_target > 0)
      BY <1>1, <1>3, <3>2 DEF Typed
    <3> QED
      BY <3>1, <3>2
  <2>6. ~rpc_failed => Flow = network
    BY <1>1 DEF Shielded, Probing, Flow
  <2>7. DowsedEstimate'
    BY <1>1, <1>2, <1>3, <2>1, <2>4, <2>5, <2>6, SameRunFacts DEF DowsedEstimate, Haircut
  <2> QED
    BY <2>1, <2>2, <2>3, <2>7 DEF DInv, Bracketed
<1>5. CASE ~probe_flow(probe_amount) /\ dpc' = "floor" /\ UNCHANGED dowsed
  <2>1. Typed'
    BY <1>1, <1>2, <1>5, SameRunTyped DEF Typed, Places
  <2>2. Shielded'
    BY <1>1, <1>2, <1>5, SameRunFacts DEF Shielded, Probing
  <2>3. Bracketed'
    BY <1>1, <1>3, <1>5, SameRunFacts DEF Bracketed, probe_flow
  <2> QED
    BY <1>5, <2>1, <2>2, <2>3 DEF DInv, DowsedEstimate
<1> QED
  BY <1>4, <1>5 DEF ProbeFull

(* The probe of the floor opens the bracket.                               *)
LEMMA ProbeFloorInv ==
    ASSUME DInv, ProbeFloor
    PROVE  DInv'
<1>1. Typed /\ SameRun /\ Shielded /\ dpc = "floor" /\ Flow < probe_amount
  BY DEF DInv, Bracketed, ProbeFloor
<1>2. UNCHANGED rpc_failed
  BY DEF ProbeFloor
<1>3. Flow \in Nat /\ probe_amount \in Nat /\ floor_probe_amount \in Nat
  BY <1>1, FlowType, FloorFacts DEF Typed
<1>4. CASE /\ probe_flow(floor_probe_amount)
           /\ lo' = floor_probe_amount /\ hi' = probe_amount
           /\ dpc' = "refine" /\ UNCHANGED dowsed
  <2>1. Typed'
    BY <1>1, <1>2, <1>3, <1>4, SameRunTyped DEF Typed, Places
  <2>2. Shielded'
    BY <1>1, <1>2, <1>4, SameRunFacts DEF Shielded, Probing
  <2>3. Bracketed'
    BY <1>1, <1>3, <1>4, SameRunFacts DEF Bracketed, probe_flow
  <2> QED
    BY <1>4, <2>1, <2>2, <2>3 DEF DInv, DowsedEstimate
<1>5. CASE ~probe_flow(floor_probe_amount) /\ Answer(0) /\ UNCHANGED <<lo, hi>>
  <2>1. dpc' = "answered" /\ dowsed' = 0 /\ Flow < floor_probe_amount
    BY <1>3, <1>5 DEF Answer, probe_flow
  <2>2. Typed'
    BY <1>1, <1>2, <1>5, <2>1, SameRunTyped DEF Typed, Places
  <2>3. Shielded'
    BY <1>1, <1>2, <2>1, SameRunFacts DEF Shielded, Probing
  <2>4. Haircut(Flow) \in Nat
    BY <1>3, HaircutType
  <2>5. ~rpc_failed => Flow = network
    BY <1>1 DEF Shielded, Probing, Flow
  <2>6. DowsedEstimate'
    BY <1>1, <1>2, <1>3, <2>1, <2>4, <2>5, SameRunFacts DEF DowsedEstimate, Haircut
  <2> QED
    BY <2>1, <2>2, <2>3, <2>6 DEF DInv, Bracketed
<1> QED
  BY <1>4, <1>5 DEF ProbeFloor

(* Halving the bracket keeps the flow in it.                               *)
LEMMA RefineInv ==
    ASSUME DInv, refine
    PROVE  DInv'
<1>1. Typed /\ SameRun /\ Shielded /\ Bracketed /\ dpc = "refine" /\ dpc' = "refine"
  BY DEF DInv, refine, Bracketing
<1>2. UNCHANGED <<dowsed, rpc_failed>>
  BY DEF refine
<1>3. /\ Flow \in Nat /\ lo \in Nat /\ hi \in Nat /\ hi > lo /\ floor_probe_amount \in Nat
      /\ probe_amount \in Nat
      /\ floor_probe_amount <= lo /\ lo <= Flow /\ Flow < hi /\ hi <= probe_amount
  BY <1>1, FlowType, FloorFacts DEF Typed, Bracketed, refine, Bracketing
<1> DEFINE mid == (lo + hi) \div 2
<1>4. mid \in Nat /\ lo <= mid /\ mid <= hi
  BY <1>3
<1>5. \/ mid <= Flow /\ lo' = mid /\ hi' = hi
      \/ ~(mid <= Flow) /\ hi' = mid /\ lo' = lo
  BY DEF refine, probe_flow
<1> HIDE DEF mid
<1>6. /\ lo' \in Nat /\ hi' \in Nat
      /\ floor_probe_amount <= lo' /\ lo' <= Flow /\ Flow < hi' /\ hi' <= probe_amount
  BY <1>3, <1>4, <1>5
<1>7. Typed'
  BY <1>1, <1>2, <1>6, SameRunTyped DEF Typed, Places
<1>8. Shielded'
  BY <1>1, <1>2, SameRunFacts DEF Shielded, Probing
<1>9. Bracketed'
  BY <1>1, <1>6, SameRunFacts DEF Bracketed
<1> QED
  BY <1>1, <1>7, <1>8, <1>9 DEF DInv, DowsedEstimate

(* The lower end of a bracket that is narrow enough is the answer.         *)
LEMMA FinishInv ==
    ASSUME DInv, finish_probe
    PROVE  DInv'
<1>1. Typed /\ SameRun /\ Shielded /\ Bracketed /\ dpc = "refine"
  BY DEF DInv, finish_probe
<1>2. UNCHANGED <<lo, hi, rpc_failed>> /\ dpc' = "answered" /\ dowsed' = Haircut(lo)
  BY DEF finish_probe, Answer
<1>3. /\ Flow \in Nat /\ lo \in Nat /\ hi \in Nat /\ resolution \in Nat
      /\ floor_probe_amount \in Nat /\ probe_amount \in Nat
      /\ floor_probe_amount <= lo /\ lo <= Flow /\ Flow < hi /\ hi <= probe_amount
  BY <1>1, FlowType, FloorFacts DEF Typed, Bracketed
<1>4. hi - lo <= resolution
  BY <1>1, <1>3 DEF finish_probe, Bracketing
<1>5. Flow - resolution <= lo
  BY <1>3, <1>4
<1>6. Haircut(lo) \in Nat /\ Haircut(lo) <= Haircut(Flow)
  BY <1>3, HaircutType, HaircutMonotone
<1>7. Haircut(Flow - resolution) <= Haircut(lo)
  BY <1>3, <1>5, HaircutMonotone
<1>8. Scaled(floor_target) < resolution => Haircut(lo) >= floor_target
  <2>1. floor_target \in Nat
    BY <1>1 DEF Typed
  <2>2. CASE floor_target > 0 /\ Scaled(floor_target) < resolution
    <3>1. Scaled(floor_target) \in Nat /\ Scaled(floor_target) <= lo
      BY <1>1, <1>3, <2>1, <2>2, FloorFacts, RoundTrip
    <3>2. Haircut(Scaled(floor_target)) <= Haircut(lo)
      BY <1>3, <3>1, HaircutMonotone
    <3>3. Haircut(Scaled(floor_target)) >= floor_target /\ Haircut(Scaled(floor_target)) \in Nat
      BY <2>1, <3>1, RoundTrip, HaircutType
    <3> QED
      BY <1>6, <2>1, <3>2, <3>3
  <2>3. CASE ~(floor_target > 0)
    BY <1>6, <2>1, <2>3
  <2> QED
    BY <2>2, <2>3
<1>9. ~rpc_failed => Flow = network
  BY <1>1 DEF Shielded, Probing, Flow
<1>10. Typed'
  BY <1>1, <1>2, <1>6, SameRunTyped DEF Typed, Places
<1>11. Shielded'
  BY <1>1, <1>2, SameRunFacts DEF Shielded, Probing
<1>12. DowsedEstimate'
  BY <1>1, <1>2, <1>3, <1>6, <1>7, <1>8, <1>9, SameRunFacts DEF DowsedEstimate, Haircut, Scaled
<1> QED
  BY <1>2, <1>10, <1>11, <1>12 DEF DInv, Bracketed

(* An error answers 0 and is not a promise.                                *)
LEMMA ErrorInv ==
    ASSUME DInv, ProbeError
    PROVE  DInv'
<1>1. /\ Typed /\ SameRun /\ dpc' = "answered" /\ dowsed' = 0 /\ rpc_failed' = TRUE
      /\ lo' = lo /\ hi' = hi
  BY DEF DInv, ProbeError, Answer
<1>2. Typed'
  BY <1>1, SameRunTyped DEF Typed, Places
<1> QED
  BY <1>1, <1>2 DEF DInv, Shielded, Bracketed, DowsedEstimate

LEMMA DowserStutter ==
    ASSUME DInv, UNCHANGED dowserVars
    PROVE  DInv'
BY DEF dowserVars, request, flows, DInv, Typed, Shielded, Bracketed, DowsedEstimate, Flow,
       resolution, floor_probe_amount, Scaled, Haircut, Places, Probing

LEMMA DowserNextInv == DInv /\ [DowserStep]_dowserVars => DInv'
<1> SUFFICES ASSUME DInv, [DowserStep]_dowserVars
             PROVE  DInv'
  OBVIOUS
<1>1. ASSUME NEW t \in Targets \ {0}, NEW f \in Floors, RequestDowser(t, f)
      PROVE  DInv'
  BY <1>1, RequestInv, DowserAssumption
<1>2. CASE run_command
  BY <1>2, RequestInv DEF run_command
<1>3. CASE ensure_self_layer \/ is_node_disabled \/ disable_node
  BY <1>3, LayerInv
<1>4. CASE ProbeFull
  BY <1>4, ProbeFullInv
<1>5. CASE ProbeFloor
  BY <1>5, ProbeFloorInv
<1>6. CASE refine
  BY <1>6, RefineInv
<1>7. CASE finish_probe
  BY <1>7, FinishInv
<1>8. CASE ProbeError
  BY <1>8, ErrorInv
<1>9. CASE UNCHANGED dowserVars
  BY <1>9, DowserStutter
<1> QED
  BY <1>1, <1>2, <1>3, <1>4, <1>5, <1>6, <1>7, <1>8, <1>9 DEF DowserStep

(* Dowser.cpp: the promise of a dowse without errors holds for every       *)
(* target, floor, flow and default probe, whatever errors came before.     *)
THEOREM DowsedEstimateAlways == DowserSpec => []DowsedEstimate
<1>1. DInv => DowsedEstimate
  BY DEF DInv
<1> QED
  BY <1>1, DowserInitInv, DowserNextInv, PTL DEF DowserSpec
=============================================================================
