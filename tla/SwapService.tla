---------------------------- MODULE SwapService ----------------------------
(***************************************************************************)
(* What the SwapManager promises the modules that request swaps, by        *)
(* Boss::Msg::SwapRequest and Boss::Msg::SwapResponse: a swap is accepted  *)
(* once, is pending in the database until it is answered, and the answer   *)
(* and the removal from the database are one transaction.                  *)
(***************************************************************************)
CONSTANT Uuid

VARIABLES
    pending, \* swaps in the database of the manager
    answer   \* the first SwapResponse of each swap

serviceVars == <<pending, answer>>

ServiceInit == pending = {} /\ answer = [u \in Uuid |-> "none"]

\* SwapRequest, committed together with the record of the requester.
Accept(u) ==
    /\ u \notin pending
    /\ answer[u] = "none"
    /\ pending' = pending \cup {u}
    /\ UNCHANGED answer

\* SwapResponse, handled by the requester in the transaction of the manager.
Answer(u, result) ==
    /\ u \in pending
    /\ pending' = pending \ {u}
    /\ answer' = [answer EXCEPT ![u] = result]

ServiceNext == \E u \in Uuid : Accept(u) \/ \E r \in {"success", "failed"} : Answer(u, r)

ServiceSpec == ServiceInit /\ [][ServiceNext]_serviceVars
=============================================================================
