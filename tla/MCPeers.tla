------------------------------ MODULE MCPeers ------------------------------
EXTENDS Peers

W(connected, net) == [connected |-> connected, online |-> net]

(* All is well; one peer is away; our own outage, seen by the internet     *)
(* probe or not.                                                           *)
MCWorlds == {W({"p", "q"}, TRUE), W({"p"}, TRUE), W({}, TRUE), W({}, FALSE)}

MCAttempts == <<
    [hash |-> "h", part |-> 0, hop |-> "p", len |-> 2, final |-> 2],
    [hash |-> "h", part |-> 0, hop |-> "q", len |-> 0, final |-> 3],
    [hash |-> "probe", part |-> 0, hop |-> "p", len |-> 2, final |-> 2] >>

MCChannelPeer == [c1 |-> "p", c2 |-> "p", c3 |-> "q"]

MCMinSuccess == <<1, 10>>
MCWarnSuccess == <<1, 1>>
=============================================================================
