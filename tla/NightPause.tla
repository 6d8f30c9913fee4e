------------------------------ MODULE NightPause ------------------------------
(***************************************************************************)
(* When a schedule is due: next_run_at against the night pause, 22:00 to   *)
(* 08:00 in Madrid, over nights one of which may change to or from summer  *)
(* time.  Module Scheduler has the occurrence and takes the night as a     *)
(* flag; here the occurrence is a claim and the hours are counted.         *)
(*                                                                         *)
(* Instants are hours of UTC.  The bounds of the night are whole hours, and *)
(* so are the intervals.  A claim gone stale is in module Scheduler.        *)
(***************************************************************************)
EXTENDS Naturals

CONSTANTS
  LastHour,         \* bound on the clock
  ShiftHour,        \* the hour the offset may change at: 01:00 of some day
  Intervals,        \* schedule_interval_minutes, in hours: a day at most
  Never             \* next_run_at is null

ASSUME NightPauseAssumption ==
  /\ LastHour \in Nat /\ ShiftHour \in Nat /\ ShiftHour % 24 = 1
  /\ Intervals \subseteq 1..24 /\ Never \notin Nat

VARIABLES
  zone,         \* the offset of Madrid before and after ShiftHour
  clock,        \* now()
  enabled,      \* quiet_hours_enabled
  every,        \* schedule_interval_minutes; 0 is null
  nextAt,       \* next_run_at
  occurrence,   \* "none", "claimed", or "open": with no claim, deferred or
                \* its schedule paused
  pausing       \* quiet_hours_enabled in the occurrence's snapshot

nightVars == <<zone, clock, enabled, every, nextAt, occurrence, pausing>>

(* The far end of what may be scheduled. *)
Horizon == LastHour + 60

Zones == {[before |-> 1, after |-> 1], [before |-> 1, after |-> 2],
          [before |-> 2, after |-> 1]}

NightTypeOK ==
  /\ zone \in Zones /\ clock \in 0..LastHour
  /\ {enabled, pausing} \subseteq BOOLEAN
  /\ every \in Intervals \cup {0}
  /\ nextAt \in 0..Horizon \cup {Never} /\ (every = 0) = (nextAt = Never)
  /\ occurrence \in {"none", "claimed", "open"}

-----------------------------------------------------------------------------
(* Madrid *)

(* t at time zone 'Europe/Madrid', in hours since a local midnight. *)
Madrid(t) == t + (IF t < ShiftHour THEN zone.before ELSE zone.after)
HourOf(t) == Madrid(t) % 24
DayOf(t) == Madrid(t) \div 24

(* A local time that is shown once, at time zone 'Europe/Madrid'. *)
InstantOf(local) ==
  CHOOSE t \in {local - zone.before, local - zone.after} : Madrid(t) = local

(* Mutant: the offset is the one the night began with. *)
MorningByEvening(day) == 24 * day + 8 - zone.before

MorningOf(day) == InstantOf(24 * day + 8)

(* is_news_quiet_hours and isQuietHoursAt. *)
IsNight(t) == HourOf(t) >= 22 \/ HourOf(t) < 8

(* Mutant: every night ends on the day it is in. *)
NextAllowedSameDay(t, pause) ==
  IF pause /\ IsNight(t) THEN MorningOf(DayOf(t)) ELSE t

(* next_allowed_news_schedule_at *)
NextAllowed(t, pause) ==
  IF ~pause THEN t
  ELSE IF HourOf(t) < 8 THEN MorningOf(DayOf(t))
  ELSE IF HourOf(t) >= 22 THEN MorningOf(DayOf(t) + 1)
  ELSE t

SetNext(t, pause) ==
  nextAt' = IF every = 0 THEN Never ELSE NextAllowed(t, pause)

NightInit ==
  /\ zone \in Zones
  /\ clock = 0
  /\ enabled \in BOOLEAN /\ every \in Intervals /\ pausing = enabled
  /\ nextAt = NextAllowed(every, enabled)
  /\ occurrence = "none"

-----------------------------------------------------------------------------
(* The row's functions *)

Due == nextAt # Never /\ nextAt <= clock

AnHourPasses ==
  /\ clock < LastHour
  /\ clock' = clock + 1
  /\ UNCHANGED <<zone, enabled, every, nextAt, occurrence, pausing>>

(* The update claim_due_news_schedule starts with. *)
MoveDueToMorning ==
  /\ Due /\ enabled /\ IsNight(clock) /\ occurrence # "claimed"
  /\ SetNext(clock, TRUE)
  /\ UNCHANGED <<zone, clock, enabled, every, occurrence, pausing>>

(* A new occurrence takes the settings' snapshot, a deferred one keeps its. *)
ClaimDue ==
  /\ Due /\ ~(enabled /\ IsNight(clock)) /\ occurrence # "claimed"
  /\ occurrence' = "claimed"
  /\ pausing' = IF occurrence = "none" THEN enabled ELSE pausing
  /\ UNCHANGED <<zone, clock, enabled, every, nextAt>>

(* deferIfQuiet: night fell over the occurrence. *)
DeferOccurrence ==
  /\ occurrence = "claimed" /\ pausing /\ IsNight(clock)
  /\ occurrence' = "open"
  /\ SetNext(clock, TRUE)
  /\ UNCHANGED <<zone, clock, enabled, every, pausing>>

(* finish_news_schedule, of a run that was delivered or failed. *)
FinishOccurrence ==
  /\ occurrence = "claimed"
  /\ occurrence' = "none"
  /\ SetNext(clock + every, enabled)
  /\ UNCHANGED <<zone, clock, enabled, every, pausing>>

(* pause_news_schedule_unresolved; the occurrence stays.                    *)
PauseNewsScheduleUnresolved ==
  /\ occurrence = "claimed"
  /\ occurrence' = "open" /\ every' = 0
  /\ nextAt' = Never
  /\ UNCHANGED <<zone, clock, enabled, pausing>>

(* Mutant: an open occurrence waits for another interval. *)
DueAfterInterval(interval, pause) == NextAllowed(clock + interval, pause)

DueAfter(interval, pause) ==
  IF occurrence = "none" THEN NextAllowed(clock + interval, pause)
                         ELSE NextAllowed(clock, pause)

(* update_news_settings *)
UpdateSchedule(interval, pause) ==
  /\ <<interval, pause>> # <<every, enabled>>
  /\ every' = interval /\ enabled' = pause
  /\ nextAt' = IF interval = 0 THEN Never ELSE DueAfter(interval, pause)
  /\ UNCHANGED <<zone, clock, occurrence, pausing>>

NightNext ==
  \/ AnHourPasses \/ MoveDueToMorning \/ ClaimDue
  \/ DeferOccurrence \/ FinishOccurrence \/ PauseNewsScheduleUnresolved
  \/ \E i \in Intervals \cup {0}, pause \in BOOLEAN : UpdateSchedule(i, pause)

NightSpec == NightInit /\ [][NightNext]_nightVars

-----------------------------------------------------------------------------
(* What the pause promises *)

(* The first hour from t on that is not in the night. *)
FirstAllowed(t) ==
  CHOOSE u \in t..(t + 24) : ~IsNight(u) /\ \A v \in t..(u - 1) : IsNight(v)

(* A due time is moved to the end of the very night it is in, also over the *)
(* night that is an hour short or long, and one by day is not moved.  That  *)
(* depends on the zone alone and is checked in one hour of a behaviour.     *)
PauseEndsWithTheNight ==
  clock = 1 =>
    \A t \in 0..(LastHour + 24) : NextAllowed(t, TRUE) = FirstAllowed(t)

(* While the pause is on nothing is due in the night, whoever set the time: *)
(* an admin, an occurrence that ended, or one that was deferred.            *)
NothingDueAtNight == enabled /\ nextAt # Never => ~IsNight(nextAt)

(* An occurrence that was deferred, or whose paused schedule is set again,  *)
(* goes on by the next morning and not an interval later, changes of the    *)
(* settings included.                                                       *)
DeferredForOneNight ==
  occurrence = "open" /\ nextAt # Never => nextAt <= FirstAllowed(clock)
=============================================================================
