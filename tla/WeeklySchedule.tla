--------------------------- MODULE WeeklySchedule ---------------------------
(***************************************************************************)
(* Scheduled baseline recording (recordings/policy.py): whether a weekly   *)
(* schedule records at a time, and the chain of boundary tasks, each of    *)
(* which applies the schedule and computes the time of its successor.      *)
(*                                                                         *)
(* Days have Hours hours and weeks have Days days.  Time zones are left    *)
(* out: local time is the clock.                                           *)
(***************************************************************************)
EXTENDS Integers, FiniteSetsExt

CONSTANTS
  Days, Hours,   \* of a week, of a day
  Schedules,     \* the schedules a policy may have
  Horizon        \* bound: the clock stops

\* validate_schedule: a window names days and two different times of day.
Windows == {w \in [days : (SUBSET (0 .. Days - 1)) \ {{}},
                   start : 0 .. Hours - 1, end : 0 .. Hours - 1] : w.start # w.end}

\* A schedule has a window.
ASSUME ScheduleConstants ==
  /\ Days \in Nat \ {0} /\ Hours \in Nat \ {0} /\ Horizon \in Nat
  /\ \A ws \in Schedules : ws # {} /\ ws \subseteq Windows

Day(t) == t \div Hours
Hour(t) == t % Hours
Weekday(day) == day % Days
Crosses(w) == w.start > w.end

\* baseline_should_record
BaselineShouldRecord(ws, t) ==
  \E w \in ws :
    \/ /\ Weekday(Day(t)) \in w.days /\ w.start <= Hour(t)
       /\ Crosses(w) \/ Hour(t) < w.end
    \/ /\ Crosses(w) /\ Hour(t) < w.end
       /\ Weekday(Day(t) + Days - 1) \in w.days

\* The days of a window among today and the week after, and one day more.
DaysOf(w, after) == {d \in Day(after) .. Day(after) + Days + 1 : Weekday(d) \in w.days}

FirstAfter(after, times) == Min({t \in times : t > after})

\* Fault: the end of a window that crosses midnight is put on its own day.
NextOnSameDay(ws, after) ==
  FirstAfter(after, UNION {UNION {{d * Hours + w.start, d * Hours + w.end} :
                                  d \in DaysOf(w, after)} : w \in ws})

\* The times at which a window starts and ends.
Edges(w, d) == {d * Hours + w.start, (IF Crosses(w) THEN d + 1 ELSE d) * Hours + w.end}

\* next_baseline_transition: the first start or end, after the given time, of
\* the windows of today and the following days.
NextBaselineTransition(ws, after) ==
  FirstAfter(after, UNION {UNION {Edges(w, d) : d \in DaysOf(w, after)} : w \in ws})

VARIABLES schedule,   \* the windows of the policy
          time,
          applied,    \* what the last request or boundary task applied
          eta,        \* the time the next boundary task is scheduled for
          carried     \* a time was computed in a window that began the day before

scheduleVars == <<schedule, time, applied, eta, carried>>

CarriedOver(ws, t) ==
  \E w \in ws : /\ Crosses(w) /\ Hour(t) < w.end
                /\ Weekday(Day(t) + Days - 1) \in w.days

\* put_recording_policy: the schedule is applied at once.
ScheduleInit ==
  /\ schedule \in Schedules /\ time \in 0 .. Days * Hours - 1
  /\ applied = BaselineShouldRecord(schedule, time)
  /\ eta = NextBaselineTransition(schedule, time)
  /\ carried = CarriedOver(schedule, time)

Hourly ==
  /\ time < Horizon /\ time # eta
  /\ time' = time + 1
  /\ UNCHANGED <<schedule, applied, eta, carried>>

\* reconcile_recording_policy_boundary runs on time.
BoundaryTask ==
  /\ time = eta
  /\ applied' = BaselineShouldRecord(schedule, time)
  /\ eta' = NextBaselineTransition(schedule, time)
  /\ carried' = (carried \/ CarriedOver(schedule, time))
  /\ UNCHANGED <<schedule, time>>

ScheduleNext == Hourly \/ BoundaryTask
ScheduleSpec == ScheduleInit /\ [][ScheduleNext]_scheduleVars

\* Between the boundary tasks what was applied is what the schedule says: no
\* change of the schedule falls between two tasks of the chain.
ScheduleFollowed == time # eta => applied = BaselineShouldRecord(schedule, time)

\* The same, as long as no boundary is computed in the early hours of a
\* window that began the day before.
ScheduleFollowedUnlessCarried == carried \/ ScheduleFollowed
=============================================================================
