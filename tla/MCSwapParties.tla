--------------------------- MODULE MCSwapParties ----------------------------
(***************************************************************************)
(* The two sides the SwapManager deals with: the modules that request      *)
(* swaps (Swapper) and a provider of swaps (Boltz).  They meet only in the *)
(* SwapManager, which has a module of its own; a behaviour follows one of  *)
(* them, its subject.                                                      *)
(***************************************************************************)
EXTENDS Swapper, Boltz, TLC

VARIABLE subject

partiesVars == <<subject, swapVars, boltzVars>>

PartiesInit ==
    /\ subject \in {"swapper", "boltz"}
    /\ SwapperInit /\ BoltzInit

PartiesNext ==
    /\ UNCHANGED subject
    /\ \/ subject = "swapper" /\ SwapperStep /\ UNCHANGED boltzVars
       \/ subject = "boltz" /\ BoltzStep /\ UNCHANGED swapVars

PartiesSpec == PartiesInit /\ [][PartiesNext]_partiesVars

-----------------------------------------------------------------------------

(* The instance: a few swaps, listings and offers.                         *)

Channel(to_us, total, active) ==
    [to_us |-> to_us, total |-> total, htlcs |-> 0, our_reserve |-> 1, their_reserve |-> 1,
     active |-> active]

(* Balanced, hardly any receivable, and something receivable.              *)
MCListings == {<<Channel(50, 100, TRUE)>>,
               <<Channel(98, 100, TRUE), Channel(1, 100, FALSE)>>,
               <<Channel(80, 100, TRUE), Channel(90, 100, TRUE)>>}

Pair(minimal) == [unsupported |-> FALSE, minimal |-> minimal, maximal |-> 200,
                  rate |-> 100, percentage |-> 1, lockup |-> 2]

(* One that offers the swap and one to which it is too small.              *)
MCPairs == {Pair(10), Pair(101)}

Symmetry == Permutations(Uuid) \cup Permutations(Swaps)
=============================================================================
