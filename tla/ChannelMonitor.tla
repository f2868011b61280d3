--------------------------- MODULE ChannelMonitor ---------------------------
(***************************************************************************)
(* ChannelCreateDestroyMonitor: which peers have a channel, kept from the  *)
(* ten-minute listing, from lightningd's notifications and from our own    *)
(* channel creator, and told to the other modules as ChannelCreation and   *)
(* ChannelDestruction.  lightningd moves channels through their states;    *)
(* its messages come in order, while a listing is read at one time and     *)
(* handled at a later one.                                                 *)
(***************************************************************************)
EXTENDS Integers, Sequences, FiniteSets

CONSTANTS
    ChannelPeer,    \* function: channel -> its peer
    MaxMoves        \* bound: state changes at the node, and listings

VARIABLES
    state,          \* lightningd: state of every channel ("none" before it)
    told,           \* messages of lightningd and the creator, not handled yet
    emitted,        \* how many such messages there were
    listing,        \* at most one ListpeersResult on its way
    moves,
    open_channels,  \* peer -> channel ids (the empty set: no entry)
    channeled, initted,
    stale           \* history: the last listing was older than what was handled,
                    \* or the operator opened a channel since

nodeVars == <<state, emitted, moves>>
viewVars == <<open_channels, channeled, initted>>
chanVars == <<nodeVars, told, listing, viewVars, stale>>

Channels == DOMAIN ChannelPeer
ChannelPeers == {ChannelPeer[c] : c \in Channels}

(* channeled_state: opening or open; a channel that closes is not.         *)
channeled_state == {"opening", "lockin", "normal", "splice", "shutdown"}
open_state == channeled_state \ {"shutdown"}
live == {"normal", "splice"}

OpenAt(st) == {ChannelPeer[c] : c \in {d \in Channels : st[d] \in open_state}}

ChanInit ==
    /\ state \in [Channels -> {"none", "normal"}]
    /\ told = << >> /\ emitted = 0 /\ moves = 0
    /\ listing = {} /\ stale = FALSE
    /\ open_channels = [p \in ChannelPeers |-> {}]
    /\ channeled = {} /\ initted = FALSE

-----------------------------------------------------------------------------
(* lightningd: a channel changes its state and says so; the message of a   *)
(* channel that begins has no old state.  The channel_opened of a peer's   *)
(* funding, or the ChannelCreateResult of our own, follows; an operator's  *)
(* own fundchannel has neither.                                            *)
Changed(c, new) ==
    [kind |-> "channel_state_changed", chan |-> c, peer |-> ChannelPeer[c],
     old |-> IF state[c] = "opening" THEN "none" ELSE state[c], new |-> new]
Announced(c, kind) == [kind |-> kind, chan |-> c, peer |-> ChannelPeer[c], old |-> "", new |-> ""]

Step == {<<"opening", "lockin">>, <<"lockin", "normal">>, <<"normal", "splice">>,
         <<"splice", "normal">>, <<"normal", "shutdown">>, <<"shutdown", "closing">>,
         <<"lockin", "closing">>, <<"splice", "closing">>, <<"normal", "closing">>}

StateMoves(c, new, msgs) ==
    /\ moves < MaxMoves /\ moves' = moves + 1
    /\ state' = [state EXCEPT ![c] = new]
    /\ told' = told \o [i \in DOMAIN msgs |-> [msg |-> msgs[i], seq |-> emitted + i]]
    /\ emitted' = emitted + Len(msgs)
    /\ UNCHANGED <<listing, viewVars>>

Opening(c) == state[c] = "none" /\ StateMoves(c, "opening", << >>) /\ UNCHANGED stale
Opened(c, by) ==
    /\ state[c] = "opening"
    /\ StateMoves(c, "lockin", <<Changed(c, "lockin"), Announced(c, by)>>)
    /\ UNCHANGED stale
OpenedByOperator(c) ==
    /\ state[c] = "opening" /\ StateMoves(c, "lockin", <<Changed(c, "lockin")>>)
    /\ stale' = TRUE
StateMoved(c, new) ==
    /\ state[c] # "opening" /\ <<state[c], new>> \in Step
    /\ StateMoves(c, new, <<Changed(c, new)>>)
    /\ UNCHANGED stale

(* listpeerchannels, at Init and every ten minutes.  Its answer shows the  *)
(* channels of this moment; an opening one has no channel_id yet.          *)
ReadListing ==
    /\ listing = {}
    /\ moves < MaxMoves /\ moves' = moves + 1
    /\ listing' = {[state |-> state, seq |-> emitted]}
    /\ UNCHANGED <<state, emitted, told, viewVars, stale>>

-----------------------------------------------------------------------------
Identity(c, st) == IF st[c] = "opening" THEN "unidentified" ELSE c

(* The subscription to ListpeersResult; only the first is `initial`.       *)
ListingHandled ==
    \E l \in listing :
      /\ listing' = {}
      /\ open_channels' = [p \in ChannelPeers |->
            {Identity(c, l.state) : c \in {d \in Channels :
                ChannelPeer[d] = p /\ l.state[d] \in open_state}}]
      /\ channeled' = OpenAt(l.state)
      /\ initted' = TRUE
      /\ stale' = ((stale /\ l.seq < emitted)
                   \/ Len(SelectSeq(told, LAMBDA m : m.seq > l.seq)) < emitted - l.seq)
      /\ UNCHANGED <<nodeVars, told>>

(* on_channel_opened and ChannelCreateResult: the peer is channeled.       *)
on_channel_opened(m) ==
    /\ m.kind \in {"channel_opened", "ChannelCreateResult"}
    /\ channeled' = channeled \cup {m.peer}
    /\ UNCHANGED <<open_channels, initted>>

(* Mutant: a splice is taken for the end of the channel.                   *)
LeavingSplice(m) == \/ m.old = "normal" /\ m.new # "normal"
                    \/ m.old = "lockin" /\ m.new \notin live

Leaving(m) == \/ m.old \in live /\ m.new \notin live
              \/ m.old = "lockin" /\ m.new \notin live

on_channel_state_changed(m) ==
    /\ m.kind = "channel_state_changed"
    /\ open_channels' = [open_channels EXCEPT ![m.peer] =
            IF ~Leaving(m) /\ m.new \in open_state THEN @ \cup {m.chan} ELSE @ \ {m.chan}]
    /\ channeled' = IF Leaving(m) /\ open_channels'[m.peer] = {}
                    THEN channeled \ {m.peer} ELSE channeled
    /\ UNCHANGED initted

(* A state change waits for the first listing; the others do not.          *)
Handle ==
    \E i \in DOMAIN told :
      /\ initted => i = 1
      /\ ~initted => {j \in 1 .. i : told[j].msg.kind # "channel_state_changed"} = {i}
      /\ told' = SubSeq(told, 1, i - 1) \o SubSeq(told, i + 1, Len(told))
      /\ \/ on_channel_opened(told[i].msg)
         \/ on_channel_state_changed(told[i].msg)
      /\ UNCHANGED <<nodeVars, listing, stale>>

ChanStep ==
    \/ \E c \in Channels :
         \/ Opening(c) \/ OpenedByOperator(c)
         \/ \E by \in {"channel_opened", "ChannelCreateResult"} : Opened(c, by)
         \/ \E new \in open_state \cup {"shutdown", "closing"} : StateMoved(c, new)
    \/ ReadListing \/ ListingHandled \/ Handle

-----------------------------------------------------------------------------
(* After the first listing, whenever every message is handled and no later *)
(* listing brought back an older view (a channel still being negotiated    *)
(* aside), the peers the monitor takes for channeled are the ones with an  *)
(* open channel: no order of listings, notifications and creations loses a *)
(* peer or keeps one whose last channel left, through splices and second   *)
(* channels too.  A listed channel without an id holds its peer until the  *)
(* next listing, as ChannelCreateDestroyMonitor.cpp:84-87 wants.           *)
ChanneledTracksNode ==
    initted /\ told = << >> /\ ~stale /\ (\A c \in Channels : state[c] # "opening")
        /\ (\A p \in ChannelPeers : "unidentified" \notin open_channels[p])
        => channeled = OpenAt(state)
=============================================================================
