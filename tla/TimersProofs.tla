---------------------------- MODULE TimersProofs ----------------------------
(***************************************************************************)
(* The distance of the twice-daily announcements, for every half day, any  *)
(* number of restarts and any number of messages on their way.             *)
(***************************************************************************)
EXTENDS Timers, TLAPS

(* The row is never ahead of the clock, and no announcement is later than  *)
(* the row: what makes the row alone enough to keep the distance.          *)
Stored ==
    /\ now \in Int /\ prevtime \in Int /\ prevtime <= now
    /\ announced \subseteq Int /\ announcing \subseteq Int
    /\ \A t \in announced \cup announcing : t <= prevtime

TimersInv == Stored /\ AnnouncedApart

LEMMA TimersInitInv == TimersInit => TimersInv
<1> SUFFICES ASSUME TimersInit PROVE TimersInv
  OBVIOUS
<1> QED
  BY TimersAssumption DEF TimersInit, initialize_db, TimersInv, Stored, AnnouncedApart

(* What check decides on is later than everything before by half a day,    *)
(* since the row bounds all of it.                                         *)
LEMMA CheckInv == TimersInv /\ check => TimersInv'
<1> SUFFICES ASSUME TimersInv, check PROVE TimersInv'
  OBVIOUS
<1> USE TimersAssumption
<1>1. CASE prevtime + half_day < now
  <2>1. /\ prevtime' = now /\ now' = now /\ announced' = announced
        /\ announcing' = announcing \cup {now}
    BY <1>1 DEF check
  <2>2. Stored'
    BY <2>1, <1>1 DEF TimersInv, Stored
  <2>3. ASSUME NEW s \in (announced \cup announcing)', NEW t \in (announced \cup announcing)', s < t
        PROVE  s + half_day < t
    <3>1. CASE t \in announced \cup announcing
      <4>1. s \in announced \cup announcing
        BY <2>1, <2>3, <3>1, <1>1 DEF TimersInv, Stored
      <4> QED
        BY <4>1, <3>1, <2>3 DEF TimersInv, AnnouncedApart
    <3>2. CASE t = now
      <4>1. s \in announced \cup announcing
        BY <2>1, <2>3, <3>2 DEF TimersInv, Stored
      <4> QED
        BY <4>1, <3>2, <1>1 DEF TimersInv, Stored
    <3> QED
      BY <3>1, <3>2, <2>1, <2>3
  <2> QED
    BY <2>1, <2>2, <2>3 DEF TimersInv, AnnouncedApart
<1>2. CASE ~(prevtime + half_day < now)
  BY <1>2 DEF check, TimersInv, Stored, AnnouncedApart
<1> QED
  BY <1>1, <1>2

LEMMA RaiseInv == TimersInv /\ raise_twice_daily => TimersInv'
<1> SUFFICES ASSUME TimersInv, raise_twice_daily PROVE TimersInv'
  OBVIOUS
<1>1. /\ (announced \cup announcing)' \subseteq announced \cup announcing
      /\ prevtime' = prevtime /\ now' = now
  BY DEF raise_twice_daily
<1> QED
  BY <1>1 DEF TimersInv, Stored, AnnouncedApart

LEMMA TimersNextInv == TimersInv /\ [TimersStep]_timerVars => TimersInv'
<1> SUFFICES ASSUME TimersInv, [TimersStep]_timerVars PROVE TimersInv'
  OBVIOUS
<1>1. CASE RandomTimeLoop
  BY <1>1 DEF RandomTimeLoop, TimersInv, Stored, AnnouncedApart
<1>2. CASE check
  BY <1>2, CheckInv
<1>3. CASE raise_twice_daily
  BY <1>3, RaiseInv
<1>4. CASE ClockAdvances
  BY <1>4 DEF ClockAdvances, TimersInv, Stored, AnnouncedApart
<1>5. CASE TimersRestart
  BY <1>5 DEF TimersRestart, TimersInv, Stored, AnnouncedApart
<1>6. CASE UNCHANGED timerVars
  BY <1>6 DEF timerVars, TimersInv, Stored, AnnouncedApart
<1> QED
  BY <1>1, <1>2, <1>3, <1>4, <1>5, <1>6 DEF TimersStep

(* TimerTwiceDailyAnnouncer.cpp:61-75: since the time is stored in the     *)
(* transaction that looks at it, two announcements are more than half a    *)
(* day apart, however many Inits, timers and restarts race.                *)
THEOREM AnnouncedApartAlways == TimersSpec => []AnnouncedApart
<1>1. TimersInit => TimersInv
  BY TimersInitInv
<1>2. TimersInv /\ [TimersStep]_timerVars => TimersInv'
  BY TimersNextInv
<1>3. TimersInv => AnnouncedApart
  BY DEF TimersInv
<1> QED
  BY <1>1, <1>2, <1>3, PTL DEF TimersSpec
=============================================================================
