---------------------------- MODULE MCAttendance ----------------------------
(* Small instances of Attendance for TLC: days of two units, a day shift in *)
(* the first and an overnight one in the second, ending with the day.       *)
EXTENDS Attendance

MCPolicies == {"day", "night"}
MCStart == [p \in Policies |-> IF p = "day" THEN 0 ELSE 1]
MCEnd == [p \in Policies |-> IF p = "day" THEN 1 ELSE 0]
OneBefore == -1
MCGrace == [p \in Policies |-> 0]
MCPercent == [p \in Policies |-> 50]
MCWorking == [p \in Policies |-> {0, 1}]

\* HR enters a check-in alone, and corrects rows by a check-out.
MCTyped == {<<1, None>>}
MCCorrected == {<<None, 2>>}

Everything == {"checkIn", "checkOut", "manual", "update", "delete", "leave", "policy"}
=============================================================================
