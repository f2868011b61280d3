--------------------------- MODULE MCSwapManager ---------------------------
(* Model-checking instances of SwapManager. *)
EXTENDS SwapManager, TLC
CONSTANT MaxTrouble \* bound on Trouble
Symmetry == Permutations(Uuid) \cup Permutations(Addr)
\* Swaps requested, setups, blocks and restarts.
Trouble == Cardinality({u \in Uuid : swaps[u].state # "new"})
           + Cardinality({h \in Hash : hashes[h].st # "none"}) + height + crashes
Bounded == Trouble <= MaxTrouble
=============================================================================
