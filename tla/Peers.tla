-------------------------------- MODULE Peers --------------------------------
(***************************************************************************)
(* How peers are watched and judged.  A behaviour is about one subject:    *)
(* the judgement of the peers' connections and payments (listings, metrics,*)
(* complaints), the closing of the channels of a peer with complaints, the *)
(* results of payments made by others, an active probe, or the monitor of  *)
(* channels; the other variables rest.                                     *)
(***************************************************************************)
EXTENDS Complaints, SendpayResults, ChannelMonitor

CONSTANTS
    Worlds,         \* what a half day may be like: who is connected, and
                    \* whether the internet probe succeeds
    MaxEvents,      \* bound: the operator's and other peers' doings
    MaxEarnings     \* bound on them while the subject is judgement

VARIABLES
    subject,
    world, events,
    booted,         \* the initial listing has come since the start
    done,           \* the timers that fired in this half day
    undelivered     \* peers whose ChannelDestruction is on its way

judgeVars == <<world, events, booted, done, undelivered>>
peersVars == <<subject, judgeVars, statVars, deskVars, sendpayVars, chanVars>>

(* A peer with complaints enough, from before the start.                   *)
Blamed == {[peer |-> p, time |-> 1 - n, why |-> {"success"}, ignored |-> FALSE] :
            p \in {CHOOSE q \in Peers : TRUE}, n \in 1 .. max_acceptable_complaints}

PeersInit ==
    /\ subject \in {"judge", "close", "pay", "probe", "channels"}
    /\ world \in Worlds
    /\ subject \notin {"judge", "close"} => world = CHOOSE w \in Worlds : TRUE
    /\ events = 0 /\ booted = FALSE /\ done = {} /\ undelivered = {}
    /\ StatInit /\ SendpayInit /\ ChanInit
    /\ DeskInit(world.connected, subject = "close", IF subject = "close" THEN Blamed ELSE {})
    /\ subject # "channels" => state = [c \in Channels |-> "none"]

-----------------------------------------------------------------------------
Desk == subject \in {"judge", "close"} /\ UNCHANGED <<subject, sendpayVars, chanVars>>
Judging == subject = "judge" /\ Desk
Closing == subject = "close" /\ Desk
Once(timer) == timer \notin done /\ done' = done \cup {timer}
Event == events < (IF subject = "judge" THEN MaxEarnings ELSE MaxEvents) /\ events' = events + 1

(* Half a day passes once the commands and rounds of this one are over.    *)
HalfDay ==
    /\ Desk /\ now < LastTime
    /\ round.pc = "idle" /\ closers = {} /\ undelivered = {}
    /\ now' = now + 1 /\ done' = {}
    /\ world' \in Worlds
    /\ connectedNow' = world'.connected
    /\ UNCHANGED <<events, booted, undelivered, memberVars, statTables, upRows,
                   withChannel, unmanaged, enabled, fees_low, roundVars, probeVars,
                   recordVars, closers, slacked>>

(* InternetOnline, when the probe's answer has changed.                    *)
HeardOnline ==
    /\ Judging
    /\ online # world.online /\ online' = world.online
    /\ UNCHANGED <<judgeVars, now, peers_polled, all_peers_disconnected, statTables, upRows,
                   deskVars>>

(* OnchainFee.                                                             *)
HeardFee ==
    /\ Closing /\ Once("fee")
    /\ fees_low' = ~fees_low
    /\ UNCHANGED <<world, events, booted, undelivered, statVars, connectedNow, withChannel,
                   unmanaged, enabled, roundVars, probeVars, recordVars, closers, slacked>>

(* The listing at Init, or of the timer.                                   *)
Listed ==
    LET r == Analyzed(withChannel, connectedNow, FALSE, ~booted)
    IN /\ Judging /\ Once("listing")
       /\ booted' = TRUE
       /\ Polled(r)
       /\ slacked' = IF r.connected_channeled = {} THEN slacked
                     ELSE slacked \cup r.disconnected_channeled
       /\ UNCHANGED <<world, events, undelivered, now, online, upRows, worldVars, roundVars,
                      probeVars, recordVars, closers>>

Timer10Minutes ==
    /\ Desk /\ Once("10minutes")
    /\ timer10minutes /\ check_close
    /\ UNCHANGED <<world, events, booted, undelivered, now, memberVars, statTables>>

TimerTwiceDaily ==
    /\ Desk /\ Once("twicedaily") /\ TwiceDaily
    /\ UNCHANGED <<world, events, booted, undelivered, statVars>>

TimerRandomDaily ==
    /\ Judging /\ Once("daily") /\ clean_entries /\ statTables' # statTables
    /\ UNCHANGED <<world, events, booted, undelivered, now, memberVars, upRows, deskVars>>

RoundStep ==
    /\ Desk
    /\ Exempted \/ MetricsCame \/ ComplaintsRaised \/ Recorded
    /\ UNCHANGED <<judgeVars, statVars>>

TimerRandomHourly ==
    /\ Judging /\ Once("hourly") /\ ProbePending
    /\ UNCHANGED <<world, events, booted, undelivered, statVars>>

CloserStep ==
    /\ Closing
    /\ \E c \in closers : ListedConnected(c) \/ ListedOffline(c) \/ do_close(c)
    /\ undelivered' = undelivered \cup (withChannel \ withChannel')
    /\ UNCHANGED <<world, events, booted, done, statVars>>

ChannelDestruction ==
    \E p \in undelivered :
      /\ Closing /\ undelivered' = undelivered \ {p} /\ on_channel_destroy(p)
      /\ UNCHANGED <<world, events, booted, done, statVars>>

(* Payments that reach their destination, and forwards that earn.          *)
Reaches ==
    \E p \in withChannel :
      /\ Judging /\ Event
      /\ add_sendpayresult("other", p, TRUE, events)
      /\ UNCHANGED <<world, booted, done, undelivered, now, memberVars, upRows, deskVars>>

Earns ==
    \E p, q \in withChannel :
      /\ Judging /\ Event /\ p # q
      /\ add_forwardfee(p, q, 1)
      /\ UNCHANGED <<world, booted, done, undelivered, now, memberVars, upRows, deskVars>>

(* The operator sets a tag or the option clboss-auto-close, a channel is   *)
(* closed by the peer or opened anew.                                      *)
Doing ==
    /\ Closing /\ Event
    /\ \/ \E p \in Peers : unmanaged' = (unmanaged \cup {p}) \ (unmanaged \cap {p})
                           /\ UNCHANGED <<enabled, withChannel, undelivered>>
       \/ enabled' = ~enabled /\ UNCHANGED <<unmanaged, withChannel, undelivered>>
       \/ \E p \in withChannel : withChannel' = withChannel \ {p}
                                 /\ undelivered' = undelivered \cup {p}
                                 /\ UNCHANGED <<unmanaged, enabled>>
       \/ \E p \in Peers \ (withChannel \cup undelivered) :
             withChannel' = withChannel \cup {p} /\ UNCHANGED <<unmanaged, enabled, undelivered>>
    /\ UNCHANGED <<world, booted, done, statVars, connectedNow, fees_low, roundVars, probeVars,
                   recordVars, closers, slacked>>

(* Options come before Init; the destruction of a channel that was not     *)
(* noticed before a restart never is (the first listing is no change).     *)
Restart ==
    /\ Desk /\ Event
    /\ MembersAtStart /\ DeskRestart /\ booted' = FALSE /\ done' = done \ {"listing"}
    /\ undelivered' = {}
    /\ UNCHANGED <<world, now, statTables, upRows>>

JudgeStep ==
    \/ HalfDay \/ HeardOnline \/ HeardFee \/ Listed \/ Timer10Minutes \/ TimerTwiceDaily \/ TimerRandomDaily
    \/ RoundStep \/ TimerRandomHourly \/ CloserStep \/ ChannelDestruction
    \/ Reaches \/ Earns \/ Doing \/ Restart

-----------------------------------------------------------------------------
Paying == subject \in {"pay", "probe"} /\ UNCHANGED <<subject, judgeVars, deskVars, chanVars>>

TimePasses == now < LastTime /\ now' = now + 1
              /\ UNCHANGED <<memberVars, statTables, upRows, sendpayVars>>

PayStep ==
    /\ Paying
    /\ \/ SendpayStep \/ TimePasses
       \/ subject = "pay" /\ (ExternPay \/ \E a \in A : Hooked(a))
       \/ subject = "probe" /\ (ProbeActively \/ ProbeStep)
ChannelStep == subject = "channels" /\ ChanStep
               /\ UNCHANGED <<subject, judgeVars, statVars, deskVars, sendpayVars>>

PeersNext == JudgeStep \/ PayStep \/ ChannelStep

(* Fairness: the prober's greenthread goes on, and lightningd ends every   *)
(* payment (a hanging one is failed when its time lock runs out).          *)
PeersSpec ==
    /\ PeersInit /\ [][PeersNext]_peersVars
    /\ WF_peersVars(Paying /\ ProbeStep)
    /\ WF_peersVars(Paying /\ \E a \in A : Ends(a))
=============================================================================
