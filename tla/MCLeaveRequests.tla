-------------------------- MODULE MCLeaveRequests --------------------------
(* Constant values for model-checking LeaveRequests on small instances.    *)
EXTENDS LeaveRefinement, TLC

\* Two overlapping paid requests of one employee and one that starts after them.
MCRequests == {"a", "b", "c"}
MCOwner == [r \in Requests |-> CHOOSE e \in Employees : TRUE]
MCSpan == [r \in Requests |-> CASE r = "a" -> {1, 2} [] r = "b" -> {2} [] OTHER -> {3}]
MCDays == [r \in Requests |-> CASE r = "a" -> 4 [] r = "b" -> 2 [] OTHER -> 2]

AllPaid == [r \in Requests |-> TRUE]
NonePaid == [r \in Requests |-> FALSE]
NoneAuto == [r \in Requests |-> FALSE]
SomeAuto == [r \in Requests |-> r = "b"]

\* Manager and HR for every request, or for the first only.
TwoSteps == [r \in Requests |-> {1, 2}]
MixedSteps == [r \in Requests |-> IF r = "a" THEN {1, 2} ELSE {1}]
OneStep == [r \in Requests |-> {1}]

\* Enough even while every request is charged twice for a moment, enough for
\* every request, and enough for one of them only.
Plenty == [e \in Employees |-> 16]
Ample == [e \in Employees |-> 8]
Scarce == [e \in Employees |-> 4]

\* Calls are interchangeable: for runs without liveness.
CallSymmetry == Permutations(Calls)

DecideOnly == {"submit", "approve", "reject"}
WithCancel == DecideOnly \cup {"cancel"}
Everything == AllEndpoints
=============================================================================
