-------------------------- MODULE AttendancePolicy --------------------------
(***************************************************************************)
(* attendancePolicy.ts: the work date of a moment, the window of a shift,  *)
(* and the status and overtime a day of attendance earns.  Time is counted *)
(* in units from the beginning of date 0 in the zone of the policy, every  *)
(* day being DayLength long (the change to and from summer time is left    *)
(* out).  A policy is a name; its fields are functions.                    *)
(***************************************************************************)
EXTENDS Integers

CONSTANTS
  DayLength,      \* the units of a day
  Policies,       \* the timing rules in use, live and frozen into rows
  WorkDayStart,   \* of each policy, units into the day
  WorkDayEnd,
  GraceMinutes,   \* of each policy, in units
  HalfDayPercent, \* of each policy: the part of a shift below which a day is short
  WorkingDates,   \* of each policy: the dates whose day of the week it works on
  Holidays,       \* the dates that are holidays
  StartOffset,    \* a check-in is accepted from WorkDayStart + StartOffset
  EndOffset       \* to WorkDayStart + EndOffset

ASSUME PolicyAssumption ==
  /\ DayLength \in Nat \ {0}
  /\ WorkDayStart \in [Policies -> 0..(DayLength - 1)]
  /\ WorkDayEnd \in [Policies -> 0..(DayLength - 1)]
  /\ GraceMinutes \in [Policies -> Nat]
  /\ HalfDayPercent \in [Policies -> 1..100]
  /\ StartOffset \in Int /\ EndOffset \in Int

WorkDate(t) == t \div DayLength

\* A shift that does not end after it starts ends on the next day.
IsOvernightShift(p) == WorkDayEnd[p] <= WorkDayStart[p]

WindowStart(d, p) == d * DayLength + WorkDayStart[p]

\* Mutant: the end of an overnight shift is taken on the day it starts.
WindowEndSameDay(d, p) == d * DayLength + WorkDayEnd[p]

WindowEnd(d, p) == (IF IsOvernightShift(p) THEN d + 1 ELSE d) * DayLength + WorkDayEnd[p]

Expected(d, p) == WindowEnd(d, p) - WindowStart(d, p)

CheckInWithinAllowedWindow(t, d, p) ==
  /\ t >= WindowStart(d, p) + StartOffset
  /\ t <= WindowStart(d, p) + EndOffset

HoursWorked(in, out) == IF out > in THEN out - in ELSE 0

\* A half day of leave halves the shift, in twice the units here.
Parts(leave) == IF leave = "half" THEN 2 ELSE 1

IsShortDay(in, out, p, leave) ==
  HoursWorked(in, out) * 100 * Parts(leave) < HalfDayPercent[p] * Expected(WorkDate(in), p)

IsLate(in, p) == in > WindowStart(WorkDate(in), p) + GraceMinutes[p]

\* Days that are not judged by the punches: the priority is that of the code.
DayOff(d, p, leave) ==
  IF d \in Holidays THEN "holiday"
  ELSE IF d \notin WorkingDates[p] THEN "weekend"
  ELSE IF leave = "full" THEN "absent" ELSE "no"

\* None stands for a check-out that has not been made.
None == -1

DeriveStatus(in, out, p, leave) ==
  LET off == DayOff(WorkDate(in), p, leave)
      short == out # None /\ IsShortDay(in, out, p, leave)
  IN IF off # "no" THEN off
     ELSE IF short THEN (IF IsLate(in, p) THEN "half_day" ELSE "short_hours")
     ELSE IF IsLate(in, p) THEN "late" ELSE "present"

DeriveAutoCheckoutClosingStatus(in, closing, p, leave) ==
  LET off == DayOff(WorkDate(in), p, leave) IN
  IF off # "no" THEN off
  ELSE IF IsShortDay(in, closing, p, leave) THEN "half_day"
  ELSE IF IsLate(in, p) THEN "late" ELSE "present"

\* overtimeHours without the need of an approval, in units of 1 / Parts(leave);
\* less than the minimum counts as nothing.
Overtime(in, out, p, leave, minimum) ==
  LET raw == HoursWorked(in, out) * Parts(leave) - Expected(WorkDate(in), p) IN
  IF in = None \/ out = None \/ raw <= 0 \/ raw < minimum * Parts(leave) THEN 0 ELSE raw

\* The statuses derived; missed_checkout is one that no caller asks for.
Statuses == {"present", "late", "half_day", "short_hours", "absent", "weekend", "holiday"}
=============================================================================
