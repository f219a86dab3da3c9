-------------------------- MODULE LeaveRefinement --------------------------
(***************************************************************************)
(* LeaveRequests implements LeaveLedger while nothing is cancelled or      *)
(* deleted: the statements of a handler take effect together, at its       *)
(* UPDATE of the status for a chain, at the deduction for an auto-approved *)
(* request.  Until then the row of a submission is not visible.            *)
(***************************************************************************)
EXTENDS LeaveRequests

\* The submission may still delete its own row.
Tentative(r) ==
  \E c \in Calls :
    call[c].r = r /\ call[c].pc \in {"raceCheck", "rollback", "autoDeduct"}

VisibleStatus ==
  [r \in Requests |-> IF Tentative(r) \/ req[r] = "gone" THEN "absent" ELSE req[r]]

\* The balance less what handlers in flight have deducted for a request that is
\* not, or not by them, approved: the balance a reader should see.
VisibleBalance ==
  LET D(r) == Days[r]
      spent(e) == MapThenSumSet(D, {r \in RequestsOf(e) : Paid[r] /\ VisibleStatus[r] = "approved"})
  IN  [e \in Employees |-> InitBalance[e] - spent(e)]

Ledger == INSTANCE LeaveLedger WITH status <- VisibleStatus, avail <- VisibleBalance

\* Every behaviour of the submit, approve and reject handlers, whatever the order
\* of their statements, is one of the atomic ledger: no approval without the days
\* to pay for it, no two overlapping requests, no decision taken twice.
LedgerSpec == Ledger!LedgerSpec
=============================================================================
