---------------------------- MODULE MCRebalance ----------------------------
(* Instances of Rebalance: a peer with too many funds, unevenly in its two  *)
(* channels, one that wants funds, and forwards that leave through it.      *)
EXTENDS Rebalance

MCChannels == [a1 |-> [node |-> "A", cap |-> 8], a2 |-> [node |-> "A", cap |-> 4],
               b |-> [node |-> "B", cap |-> 12]]
MCStarts == {[a1 |-> 8, a2 |-> 2, b |-> 1]}
Side(e, x, f) == [e |-> e, x |-> x, f |-> f]
MCEarnings == {[n \in {"A", "B"} |-> [i |-> Side(30, 10, 1), o |-> Side(50, 10, 2)]]}
MCOptions == {[name |-> "floor", is |-> "bad", v |-> 0],
              [name |-> "fill_band", is |-> "number", v |-> 50],
              [name |-> "per_hour", is |-> "number", v |-> 0]}
MCBounds == {[hooks |-> 2, options |-> 0, cycles |-> 0, parts |-> 0],
             [hooks |-> 1, options |-> 1, cycles |-> 2, parts |-> 2]}
MCForward == [h \in Hooks |-> [in |-> "a2", out |-> "b"]]
=============================================================================
