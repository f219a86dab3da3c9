---------------------------- MODULE LeaveLedger ----------------------------
(***************************************************************************)
(* What the leave endpoints promise, with every endpoint an atomic step: a *)
(* request takes effect only when its dates are free, a paid request is    *)
(* charged at the moment it is approved and never otherwise, and a         *)
(* decision is made once.  docs/LEAVE_MANAGEMENT_FLOW.md describes the     *)
(* life cycle in these terms; LeaveRequests is shown to implement it.      *)
(***************************************************************************)
EXTENDS Integers

CONSTANTS Requests, Employees, Owner, Span, Days, Paid, AutoApproved, InitBalance

VARIABLES
  status,  \* the request as its readers should see it
  avail    \* what the employee may still take, in half days

ledger == <<status, avail>>

Taken(r) == status[r] \in {"pending", "approved"}

Free(r) ==
  \A o \in Requests :
    r # o /\ Owner[r] = Owner[o] /\ Span[r] \cap Span[o] # {} => ~Taken(o)

LedgerInit ==
  /\ status = [r \in Requests |-> "absent"]
  /\ avail = InitBalance

Pay(r) ==
  IF Paid[r]
    THEN avail[Owner[r]] >= Days[r] /\ avail' = [avail EXCEPT ![Owner[r]] = @ - Days[r]]
    ELSE UNCHANGED avail

Apply(r) ==
  /\ status[r] = "absent" /\ ~AutoApproved[r] /\ Free(r)
  /\ status' = [status EXCEPT ![r] = "pending"]
  /\ UNCHANGED avail

ApplyAndApprove(r) ==
  /\ status[r] = "absent" /\ AutoApproved[r] /\ Free(r)
  /\ status' = [status EXCEPT ![r] = "approved"]
  /\ Pay(r)

Grant(r) ==
  /\ status[r] = "pending"
  /\ status' = [status EXCEPT ![r] = "approved"]
  /\ Pay(r)

Refuse(r) ==
  /\ status[r] = "pending"
  /\ status' = [status EXCEPT ![r] = "rejected"]
  /\ UNCHANGED avail

LedgerNext == \E r \in Requests : Apply(r) \/ ApplyAndApprove(r) \/ Grant(r) \/ Refuse(r)

LedgerSpec == LedgerInit /\ [][LedgerNext]_ledger
=============================================================================
