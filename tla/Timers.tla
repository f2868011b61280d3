------------------------------- MODULE Timers -------------------------------
(***************************************************************************)
(* Timers, whose loops raise a message and wait again, and                 *)
(* TimerTwiceDailyAnnouncer, which keeps the time of its last announcement *)
(* in the database and looks at it at Init and every ten minutes.  The     *)
(* process may go down at any point.                                       *)
(***************************************************************************)
EXTENDS Integers

CONSTANTS
    half_day,       \* in steps of the clock
    every_10_minutes,
    MaxRestarts,    \* bound: restarts
    MaxLooks,       \* bound: messages on their way to the announcer
    Horizon         \* bound: the clock

ASSUME TimersAssumption == half_day \in Nat

VARIABLES
    now,
    due,            \* when the timer of Waiter fires
    looks,          \* Init or Timer10Minutes, on their way to the announcer
    prevtime,       \* the announcer's row
    announcing,     \* times of announcements decided on, not yet raised
    announced,      \* history: times of the announcements raised
    restarts

timerVars == <<now, due, looks, prevtime, announcing, announced, restarts>>

(* The row is 0.0 at first, long ago.                                      *)
initialize_db == prevtime = -1 - half_day

TimersInit ==
    /\ now = 0 /\ due = every_10_minutes /\ looks = 1
    /\ initialize_db
    /\ announcing = {} /\ announced = {} /\ restarts = 0

(* RandomTimeLoop::loop, for Timer10Minutes.  The message is raised in a   *)
(* greenthread of its own, so a slow handler does not delay the next.      *)
RandomTimeLoop ==
    /\ due <= now /\ looks < MaxLooks
    /\ due' = now + every_10_minutes /\ looks' = looks + 1
    /\ UNCHANGED <<now, prevtime, announcing, announced, restarts>>

(* Mutant: the time is stored by a later transaction, after the raise.     *)
checkUnstored ==
    /\ looks > 0 /\ looks' = looks - 1
    /\ IF prevtime + half_day < now
       THEN announcing' = announcing \cup {now}
       ELSE UNCHANGED announcing
    /\ UNCHANGED <<now, due, prevtime, announced, restarts>>

(* One transaction: look, store, and only then announce.                   *)
check ==
    /\ looks > 0 /\ looks' = looks - 1
    /\ IF prevtime + half_day < now
       THEN prevtime' = now /\ announcing' = announcing \cup {now}
       ELSE UNCHANGED <<prevtime, announcing>>
    /\ UNCHANGED <<now, due, announced, restarts>>

raise_twice_daily ==
    /\ \E t \in announcing : announcing' = announcing \ {t} /\ announced' = announced \cup {t}
    /\ UNCHANGED <<now, due, looks, prevtime, restarts>>

(* The loop's clock is taken when it wakes; handlers of one waking see one *)
(* time.                                                                   *)
ClockAdvances ==
    /\ now < Horizon /\ now' = now + 1
    /\ UNCHANGED <<due, looks, prevtime, announcing, announced, restarts>>

(* A restart: members and timers are lost, the row is kept.                *)
TimersRestart ==
    /\ restarts < MaxRestarts /\ restarts' = restarts + 1
    /\ due' = now + every_10_minutes /\ looks' = 1 /\ announcing' = {}
    /\ UNCHANGED <<now, prevtime, announced>>

TimersStep == RandomTimeLoop \/ check \/ raise_twice_daily \/ ClockAdvances \/ TimersRestart
              \/ (now = Horizon /\ UNCHANGED timerVars)

TimersSpec == TimersInit /\ [][TimersStep]_timerVars

(* Two announcements, restarts between them or not, are more than half a   *)
(* day apart (TimerTwiceDailyAnnouncer.cpp:61-75).                         *)
AnnouncedApart ==
    \A s, t \in announced \cup announcing : s < t => s + half_day < t
=============================================================================
