----------------------------- MODULE MCCandidates -----------------------------
(* Candidates for TLC. *)
EXTENDS Candidates

CONSTANTS n1, n2

MCBatches == {<<n1, n2>>, <<n2>>}
MCVerdict == n1 :> "Underperformer" @@ n2 :> "NoRecord"
=============================================================================
