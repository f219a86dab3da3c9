--------------------------- MODULE MCLeaveBalances ---------------------------
(* Small instances of LeaveBalances for TLC. *)
EXTENDS LeaveBalances, TLC

\* An earned and a bereavement row of one employee, a compensation row of another.
MCOwner == [b \in Balances |-> IF b = "compensation" THEN "e2" ELSE "e1"]
MCKind == [b \in Balances |-> b]
MCRate == [b \in Balances |-> 2]
MCCap == [b \in Balances |-> IF b = "bereavement" THEN 0 ELSE 4]

Everything == {"accrue", "initialize", "add", "adjust", "yearEnd", "requests", "restart"}
MCCredits == {-2, 2}

CallSymmetry == Permutations(Calls)
=============================================================================
