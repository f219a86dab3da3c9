--------------------------- MODULE LeaveRequests ---------------------------
(***************************************************************************)
(* The life of a leave request: server/modules/leave/LeaveService.ts       *)
(* (submitRequest, approveRequest, rejectApproval, cancelRequest,          *)
(* deleteRequest) over the tables leave_requests, leave_approvals,         *)
(* employee_leave_balances and attendance_records.                         *)
(*                                                                         *)
(* The repository runs every SQL statement on its own, with no             *)
(* transaction around a handler (BaseRepository's shared neon client), so  *)
(* a handler is a sequence of steps, one per statement, and any other      *)
(* handler may run between two of them.  A call of a handler is a record   *)
(* whose pc names the statement it runs next; its other fields are what    *)
(* the handler has read so far and still uses.                             *)
(*                                                                         *)
(* Days are counted in half days, the unit leave is granted in.  A handler *)
(* that throws before it has written anything is a step not taken; one     *)
(* that throws later ends where it is, and leaves what it wrote.           *)
(***************************************************************************)
EXTENDS Integers, FiniteSets, FiniteSetsExt

CONSTANTS
  Requests,     \* ids of leave_requests rows
  Employees,    \* applicants
  Dates,        \* working days
  Calls,        \* concurrent HTTP calls
  MaxStep,      \* the longest approval chain
  Owner,        \* [Requests -> Employees]: the applicant
  Span,         \* [Requests -> SUBSET Dates]: start_date..end_date
  Days,         \* [Requests -> Nat]: total_days, in half days
  Paid,         \* [Requests -> BOOLEAN]: leave_types.paid
  AutoApproved, \* [Requests -> BOOLEAN]: what shouldAutoApprove says
  Chain,        \* [Requests -> SUBSET 1..MaxStep]: what buildApprovalChain returns
  InitBalance,  \* [Employees -> Nat]: the balance at the start, in half days
  Endpoints     \* the endpoints the workload calls

Steps == 1..MaxStep

AllEndpoints == {"submit", "approve", "reject", "cancel", "delete"}

ASSUME ConstantsOK ==
  /\ Requests # {} /\ IsFiniteSet(Requests) /\ IsFiniteSet(Calls)
  /\ MaxStep \in Nat
  /\ Owner \in [Requests -> Employees]
  /\ Span \in [Requests -> SUBSET Dates]
  /\ Days \in [Requests -> Nat \ {0}]
  /\ Paid \in [Requests -> BOOLEAN]
  /\ AutoApproved \in [Requests -> BOOLEAN]
  /\ Chain \in [Requests -> SUBSET Steps]
  /\ InitBalance \in [Employees -> Nat]
  /\ Endpoints \subseteq AllEndpoints

VARIABLES
  req,        \* leave_requests.status; "absent" before the INSERT, "gone" after a DELETE
  appr,       \* leave_approvals.status per request and step_order; "none": no row
  bal,        \* employee_leave_balances.balance
  used,       \* employee_leave_balances.used
  leaveRows,  \* attendance_records written by the leave system: <<employee, date>>
  call        \* the handlers in flight

vars == <<req, appr, bal, used, leaveRows, call>>

Statuses == {"absent", "pending", "approved", "rejected", "cancelled", "gone"}
ApprovalStatuses == {"none", "pending", "approved", "rejected"}

Labels ==
  {"idle",
   "checkOverlap", "insert", "raceCheck", "rollback", "createApproval", "autoDeduct",
   "advancePrior", "approveStep", "countPending", "rereadRequest", "deduct",
   "approveRequest", "compensate", "syncRead", "syncWrite",
   "rejectStep", "rejectRemaining", "rejectRequest",
   "cancelUpdate", "cancelApprovals", "cancelRefund", "cancelReverse",
   "deleteRefund", "deleteReverse", "deleteApprovals", "deleteRow"}

\* What a call remembers: the row it works on, the approval step, the earlier
\* steps an HR override still has to approve, and the status read at its start.
CallRecord ==
  [pc : Labels, r : Requests, step : 0..MaxStep, prior : SUBSET Steps, was : BOOLEAN]

NoCall ==
  [pc |-> "idle", r |-> CHOOSE r \in Requests : TRUE, step |-> 0, prior |-> {}, was |-> FALSE]

Exists(r) == req[r] \notin {"absent", "gone"}
Active(r) == req[r] \in {"pending", "approved"}
PendingSteps(r) == {s \in Steps : appr[r][s] = "pending"}
Overlap(r, o) == r # o /\ Owner[r] = Owner[o] /\ Span[r] \cap Span[o] # {}

\* Mutant: employee and date are passed to the INSERT the wrong way round.
FootprintSwapped(r) == {<<d, Owner[r]>> : d \in Span[r]}

\* The attendance rows of a request's days.
Footprint(r) == {<<Owner[r], d>> : d \in Span[r]}

At(c, label) == call[c].pc = label
Goto(c, label) == call' = [call EXCEPT ![c].pc = label]
Return(c) == call' = [call EXCEPT ![c] = NoCall]
Begin(c, label, r, s, prior, was) ==
  /\ At(c, "idle")
  /\ call' = [call EXCEPT ![c] =
       [pc |-> label, r |-> r, step |-> s, prior |-> prior, was |-> was]]

Init ==
  /\ req = [r \in Requests |-> "absent"]
  /\ appr = [r \in Requests |-> [s \in Steps |-> "none"]]
  /\ bal = InitBalance
  /\ used = [e \in Employees |-> 0]
  /\ leaveRows = {}
  /\ call = [c \in Calls |-> NoCall]

-----------------------------------------------------------------------------
(* Statements several handlers share.                                      *)

\* UPDATE ... SET balance=balance-days, used=used+days: without its guard.
Charge(r) ==
  /\ bal' = [bal EXCEPT ![Owner[r]] = @ - Days[r]]
  /\ used' = [used EXCEPT ![Owner[r]] = @ + Days[r]]

\* restoreBalance: UPDATE ... SET balance=balance+days, used=used-days, no guard.
RestoreBalance(r) ==
  /\ bal' = [bal EXCEPT ![Owner[r]] = @ + Days[r]]
  /\ used' = [used EXCEPT ![Owner[r]] = @ - Days[r]]

\* deductBalance: the same UPDATE guarded by balance >= days; whether it
\* touched a row decides where the handler goes.
DeductOrElse(c, ok, fail) ==
  LET r == call[c].r IN
  \/ /\ bal[Owner[r]] >= Days[r]
     /\ Charge(r)
     /\ ok
  \/ /\ bal[Owner[r]] < Days[r]
     /\ UNCHANGED <<bal, used>>
     /\ fail

\* cancelPendingApprovals, autoRejectRemaining: every pending row is rejected.
RejectPending(r) ==
  appr' = [appr EXCEPT ![r] =
             [s \in Steps |-> IF @[s] = "pending" THEN "rejected" ELSE @[s]]]

\* DELETE FROM leave_requests: the approval rows go with it (ON DELETE CASCADE).
DeleteRow(r) ==
  /\ req' = [req EXCEPT ![r] = "gone"]
  /\ appr' = [appr EXCEPT ![r] = [s \in Steps |-> "none"]]

-----------------------------------------------------------------------------
(* submitRequest                                                           *)

\* The validations, the last of which reads the balance of a paid leave type.
SubmitStart(c, r) ==
  /\ "submit" \in Endpoints
  /\ req[r] = "absent"
  /\ \A d \in Calls : At(d, "idle") \/ call[d].r # r
  /\ AutoApproved[r] \/ Chain[r] # {}
  /\ Paid[r] => bal[Owner[r]] >= Days[r]
  /\ Begin(c, "checkOverlap", r, 0, {}, FALSE)
  /\ UNCHANGED <<req, appr, bal, used, leaveRows>>

\* checkOverlap
SubmitCheckOverlap(c) ==
  /\ At(c, "checkOverlap")
  /\ IF \E o \in Requests : Overlap(call[c].r, o) /\ Active(o)
       THEN Return(c)
       ELSE Goto(c, "insert")
  /\ UNCHANGED <<req, appr, bal, used, leaveRows>>

\* createAutoApprovedRequest or createRequest
SubmitInsert(c) ==
  /\ At(c, "insert")
  /\ req' = [req EXCEPT ![call[c].r] = IF AutoApproved[call[c].r] THEN "approved" ELSE "pending"]
  /\ Goto(c, "raceCheck")
  /\ UNCHANGED <<appr, bal, used, leaveRows>>

AfterRaceCheck(r) ==
  IF ~AutoApproved[r] THEN "createApproval" ELSE IF Paid[r] THEN "autoDeduct" ELSE "syncRead"

\* Mutant: the check after the INSERT is left out.
NoRaceCheck(c) ==
  /\ At(c, "raceCheck")
  /\ Goto(c, AfterRaceCheck(call[c].r))
  /\ UNCHANGED <<req, appr, bal, used, leaveRows>>

\* checkOverlapExcluding, after the INSERT
SubmitRaceCheck(c) ==
  /\ At(c, "raceCheck")
  /\ IF \E o \in Requests : Overlap(call[c].r, o) /\ Active(o)
       THEN Goto(c, "rollback")
       ELSE Goto(c, AfterRaceCheck(call[c].r))
  /\ UNCHANGED <<req, appr, bal, used, leaveRows>>

\* deleteRequestById of the row this call has inserted, then the throw
SubmitRollback(c) ==
  /\ At(c, "rollback")
  /\ IF Exists(call[c].r) THEN DeleteRow(call[c].r) ELSE UNCHANGED <<req, appr>>
  /\ Return(c)
  /\ UNCHANGED <<bal, used, leaveRows>>

\* One createApproval of the loop over the chain, in step order.  The INSERT
\* fails on the foreign key when the request has been deleted meanwhile.
SubmitCreateApproval(c) ==
  /\ At(c, "createApproval")
  /\ LET r == call[c].r
         left == {s \in Chain[r] : s > call[c].step}
     IN  \E s \in left :
           /\ \A t \in left : s <= t
           /\ IF Exists(r)
                THEN /\ appr' = [appr EXCEPT ![r][s] = "pending"]
                     /\ IF left = {s} THEN Return(c)
                                      ELSE call' = [call EXCEPT ![c].step = s]
                ELSE Return(c) /\ UNCHANGED appr
  /\ UNCHANGED <<req, bal, used, leaveRows>>

\* deductBalance of an auto-approved paid request
SubmitAutoDeduct(c) ==
  /\ At(c, "autoDeduct")
  /\ DeductOrElse(c, Goto(c, "syncRead"), Goto(c, "rollback"))
  /\ UNCHANGED <<req, appr, leaveRows>>

-----------------------------------------------------------------------------
(* syncLeaveToAttendance, at the end of both ways to be approved           *)

\* getRequestForSync: nothing to do when the row is gone; the status is not read.
SyncRead(c) ==
  /\ At(c, "syncRead")
  /\ IF Exists(call[c].r) THEN Goto(c, "syncWrite") ELSE Return(c)
  /\ UNCHANGED <<req, appr, bal, used, leaveRows>>

\* The loop of upsertAttendanceLeave over the dates, or its failure, which the
\* caller catches (it then only records attendance_sync_status = 'failed').
SyncWrite(c) ==
  /\ At(c, "syncWrite")
  /\ \/ leaveRows' = leaveRows \cup Footprint(call[c].r)
     \/ UNCHANGED leaveRows
  /\ Return(c)
  /\ UNCHANGED <<req, appr, bal, used>>

-----------------------------------------------------------------------------
(* approveRequest                                                          *)

\* getApprovalById, getRequestById, getPendingApprovalsBeforeStep.  The caller
\* is the assigned approver or HR, and is not the applicant; only HR may pass
\* hrOverride, which is needed when an earlier step is still pending.
ApproveStart(c, r, s, hrOverride) ==
  /\ "approve" \in Endpoints
  /\ Exists(r)
  /\ appr[r][s] # "none"
  /\ LET prior == {p \in PendingSteps(r) : p < s} IN
       /\ prior # {} => hrOverride
       /\ Begin(c, IF prior = {} THEN "approveStep" ELSE "advancePrior", r, s, prior, FALSE)
  /\ UNCHANGED <<req, appr, bal, used, leaveRows>>

\* One round of the override loop: setApprovalApproved of an earlier step; a
\* step that somebody else has decided meanwhile makes the call throw.
ApproveAdvancePrior(c) ==
  /\ At(c, "advancePrior")
  /\ LET r == call[c].r IN
       \E p \in call[c].prior :
         /\ \A q \in call[c].prior : p <= q
         /\ IF appr[r][p] = "pending"
              THEN /\ appr' = [appr EXCEPT ![r][p] = "approved"]
                   /\ call' = [call EXCEPT
                        ![c].prior = @ \ {p},
                        ![c].pc = IF call[c].prior = {p} THEN "approveStep" ELSE @]
              ELSE Return(c) /\ UNCHANGED appr
  /\ UNCHANGED <<req, bal, used, leaveRows>>

\* Mutant: the result of the UPDATE is not looked at.
ApproveStepUnchecked(c) ==
  /\ At(c, "approveStep")
  /\ appr' = [appr EXCEPT ![call[c].r][call[c].step] = IF @ = "pending" THEN "approved" ELSE @]
  /\ Goto(c, "countPending")
  /\ UNCHANGED <<req, bal, used, leaveRows>>

\* setApprovalApproved of the step itself; "Already actioned" otherwise
ApproveStep(c) ==
  /\ At(c, "approveStep")
  /\ LET r == call[c].r  s == call[c].step IN
       IF appr[r][s] = "pending"
         THEN appr' = [appr EXCEPT ![r][s] = "approved"] /\ Goto(c, "countPending")
         ELSE UNCHANGED appr /\ Return(c)
  /\ UNCHANGED <<req, bal, used, leaveRows>>

\* Mutant: getPendingApprovals loses AND status='pending' and counts every row.
CountAllSteps(c) ==
  /\ At(c, "countPending")
  /\ IF \E s \in Steps : appr[call[c].r][s] # "none" THEN Return(c) ELSE Goto(c, "rereadRequest")
  /\ UNCHANGED <<req, appr, bal, used, leaveRows>>

\* getPendingApprovals: not the last step, nothing more to do
ApproveCountPending(c) ==
  /\ At(c, "countPending")
  /\ IF PendingSteps(call[c].r) # {} THEN Return(c) ELSE Goto(c, "rereadRequest")
  /\ UNCHANGED <<req, appr, bal, used, leaveRows>>

\* getRequestById again: a request decided meanwhile is left alone
ApproveRereadRequest(c) ==
  /\ At(c, "rereadRequest")
  /\ IF req[call[c].r] = "pending"
       THEN Goto(c, IF Paid[call[c].r] THEN "deduct" ELSE "approveRequest")
       ELSE Return(c)
  /\ UNCHANGED <<req, appr, bal, used, leaveRows>>

\* Mutant: deductBalance without its guard in the WHERE clause.
DeductUnguarded(c) ==
  /\ At(c, "deduct")
  /\ Charge(call[c].r)
  /\ Goto(c, "approveRequest")
  /\ UNCHANGED <<req, appr, leaveRows>>

\* deductBalance; no row updated makes the call throw, with the steps approved
ApproveDeduct(c) ==
  /\ At(c, "deduct")
  /\ DeductOrElse(c, Goto(c, "approveRequest"), Return(c))
  /\ UNCHANGED <<req, appr, leaveRows>>

\* Mutant: the UPDATE loses AND status='pending'.
ApproveRequestUnguarded(c) ==
  /\ At(c, "approveRequest")
  /\ req' = [req EXCEPT ![call[c].r] = IF Exists(call[c].r) THEN "approved" ELSE @]
  /\ Goto(c, "syncRead")
  /\ UNCHANGED <<appr, bal, used, leaveRows>>

\* Mutant: a request somebody else has decided is synced like one approved here.
ApproveRequestUnchecked(c) ==
  /\ At(c, "approveRequest")
  /\ req' = [req EXCEPT ![call[c].r] = IF @ = "pending" THEN "approved" ELSE @]
  /\ Goto(c, "syncRead")
  /\ UNCHANGED <<appr, bal, used, leaveRows>>

\* UPDATE leave_requests SET status='approved' WHERE ... AND status='pending'
ApproveRequest(c) ==
  /\ At(c, "approveRequest")
  /\ LET r == call[c].r IN
       IF req[r] = "pending"
         THEN req' = [req EXCEPT ![r] = "approved"] /\ Goto(c, "syncRead")
         ELSE /\ UNCHANGED req
              /\ IF Paid[r] THEN Goto(c, "compensate") ELSE Return(c)
  /\ UNCHANGED <<appr, bal, used, leaveRows>>

\* Mutant: the handler returns without giving the days back.
NoCompensation(c) ==
  /\ At(c, "compensate")
  /\ Return(c)
  /\ UNCHANGED <<req, appr, bal, used, leaveRows>>

\* The request was decided by another call: give back what this one deducted
ApproveCompensate(c) ==
  /\ At(c, "compensate")
  /\ RestoreBalance(call[c].r)
  /\ Return(c)
  /\ UNCHANGED <<req, appr, leaveRows>>

-----------------------------------------------------------------------------
(* rejectApproval                                                          *)

\* getApprovalById, getRequestById, getPendingApprovalsOrdered: only the lowest
\* pending step may be rejected
RejectStart(c, r, s) ==
  /\ "reject" \in Endpoints
  /\ Exists(r)
  /\ appr[r][s] # "none"
  /\ \A p \in PendingSteps(r) : p >= s
  /\ PendingSteps(r) # {} => s \in PendingSteps(r)
  /\ Begin(c, "rejectStep", r, s, {}, FALSE)
  /\ UNCHANGED <<req, appr, bal, used, leaveRows>>

\* setApprovalRejected; "Already actioned" otherwise
RejectStep(c) ==
  /\ At(c, "rejectStep")
  /\ LET r == call[c].r  s == call[c].step IN
       IF appr[r][s] = "pending"
         THEN appr' = [appr EXCEPT ![r][s] = "rejected"] /\ Goto(c, "rejectRemaining")
         ELSE UNCHANGED appr /\ Return(c)
  /\ UNCHANGED <<req, bal, used, leaveRows>>

\* autoRejectRemaining
RejectRemaining(c) ==
  /\ At(c, "rejectRemaining")
  /\ RejectPending(call[c].r)
  /\ Goto(c, "rejectRequest")
  /\ UNCHANGED <<req, bal, used, leaveRows>>

\* Mutant: the UPDATE loses AND status='pending'.
RejectRequestUnguarded(c) ==
  /\ At(c, "rejectRequest")
  /\ req' = [req EXCEPT ![call[c].r] = IF Exists(call[c].r) THEN "rejected" ELSE @]
  /\ Return(c)
  /\ UNCHANGED <<appr, bal, used, leaveRows>>

\* UPDATE leave_requests SET status='rejected' WHERE ... AND status='pending'
RejectRequest(c) ==
  /\ At(c, "rejectRequest")
  /\ LET r == call[c].r IN
       IF req[r] = "pending" THEN req' = [req EXCEPT ![r] = "rejected"] ELSE UNCHANGED req
  /\ Return(c)
  /\ UNCHANGED <<appr, bal, used, leaveRows>>

-----------------------------------------------------------------------------
(* cancelRequest                                                           *)

\* getRequestById: wasApproved is decided here and used three statements later
CancelStart(c, r) ==
  /\ "cancel" \in Endpoints
  /\ Exists(r)
  /\ req[r] # "cancelled"
  /\ Begin(c, "cancelUpdate", r, 0, {}, req[r] = "approved")
  /\ UNCHANGED <<req, appr, bal, used, leaveRows>>

\* Mutant: the UPDATE loses AND status IN ('pending','approved').
CancelUpdateUnguarded(c) ==
  /\ At(c, "cancelUpdate")
  /\ IF Exists(call[c].r)
       THEN req' = [req EXCEPT ![call[c].r] = "cancelled"] /\ Goto(c, "cancelApprovals")
       ELSE UNCHANGED req /\ Return(c)
  /\ UNCHANGED <<appr, bal, used, leaveRows>>

\* UPDATE ... SET status='cancelled' WHERE ... AND status IN ('pending','approved')
CancelUpdate(c) ==
  /\ At(c, "cancelUpdate")
  /\ LET r == call[c].r IN
       IF Active(r)
         THEN req' = [req EXCEPT ![r] = "cancelled"] /\ Goto(c, "cancelApprovals")
         ELSE UNCHANGED req /\ Return(c)
  /\ UNCHANGED <<appr, bal, used, leaveRows>>

\* cancelPendingApprovals
CancelApprovals(c) ==
  /\ At(c, "cancelApprovals")
  /\ RejectPending(call[c].r)
  /\ IF call[c].was /\ Paid[call[c].r] THEN Goto(c, "cancelRefund") ELSE Return(c)
  /\ UNCHANGED <<req, bal, used, leaveRows>>

CancelRefund(c) ==
  /\ At(c, "cancelRefund")
  /\ RestoreBalance(call[c].r)
  /\ Goto(c, "cancelReverse")
  /\ UNCHANGED <<req, appr, leaveRows>>

\* reverseAttendanceSync: the request is read again, and its dates' rows deleted
ReverseAttendance(r) ==
  IF Exists(r) THEN leaveRows' = leaveRows \ Footprint(r) ELSE UNCHANGED leaveRows

CancelReverse(c) ==
  /\ At(c, "cancelReverse")
  /\ ReverseAttendance(call[c].r)
  /\ Return(c)
  /\ UNCHANGED <<req, appr, bal, used>>

-----------------------------------------------------------------------------
(* deleteRequest                                                           *)

DeleteStart(c, r) ==
  /\ "delete" \in Endpoints
  /\ Exists(r)
  /\ Begin(c, IF req[r] = "approved" /\ Paid[r] THEN "deleteRefund" ELSE "deleteApprovals",
           r, 0, {}, req[r] = "approved")
  /\ UNCHANGED <<req, appr, bal, used, leaveRows>>

DeleteRefund(c) ==
  /\ At(c, "deleteRefund")
  /\ RestoreBalance(call[c].r)
  /\ Goto(c, "deleteReverse")
  /\ UNCHANGED <<req, appr, leaveRows>>

DeleteReverse(c) ==
  /\ At(c, "deleteReverse")
  /\ ReverseAttendance(call[c].r)
  /\ Goto(c, "deleteApprovals")
  /\ UNCHANGED <<req, appr, bal, used>>

DeleteApprovals(c) ==
  /\ At(c, "deleteApprovals")
  /\ RejectPending(call[c].r)
  /\ Goto(c, "deleteRow")
  /\ UNCHANGED <<req, bal, used, leaveRows>>

\* DELETE ... RETURNING id; NotFound when another call has deleted the row
DeleteRequest(c) ==
  /\ At(c, "deleteRow")
  /\ IF Exists(call[c].r) THEN DeleteRow(call[c].r) ELSE UNCHANGED <<req, appr>>
  /\ Return(c)
  /\ UNCHANGED <<bal, used, leaveRows>>

-----------------------------------------------------------------------------
Submit(c) ==
  \/ SubmitCheckOverlap(c) \/ SubmitInsert(c) \/ SubmitRaceCheck(c) \/ SubmitRollback(c)
  \/ SubmitCreateApproval(c) \/ SubmitAutoDeduct(c)

Approve(c) ==
  \/ ApproveAdvancePrior(c) \/ ApproveStep(c) \/ ApproveCountPending(c)
  \/ ApproveRereadRequest(c) \/ ApproveDeduct(c) \/ ApproveRequest(c) \/ ApproveCompensate(c)

Reject(c) == RejectStep(c) \/ RejectRemaining(c) \/ RejectRequest(c)

Cancel(c) == CancelUpdate(c) \/ CancelApprovals(c) \/ CancelRefund(c) \/ CancelReverse(c)

Delete(c) == DeleteRefund(c) \/ DeleteReverse(c) \/ DeleteApprovals(c) \/ DeleteRequest(c)

\* The next statement of a handler in flight.
Continue(c) == Submit(c) \/ Approve(c) \/ SyncRead(c) \/ SyncWrite(c) \/ Reject(c) \/ Cancel(c) \/ Delete(c)

\* A new call of an endpoint.
Start(c) ==
  \E r \in Requests :
    \/ SubmitStart(c, r)
    \/ \E s \in Steps, o \in BOOLEAN : ApproveStart(c, r, s, o)
    \/ \E s \in Steps : RejectStart(c, r, s)
    \/ CancelStart(c, r)
    \/ DeleteStart(c, r)

Next == \E c \in Calls : Start(c) \/ Continue(c)

Spec == Init /\ [][Next]_vars

\* Node runs a handler it has started to its end; nobody has to call an endpoint.
Fairness == \A c \in Calls : WF_vars(Continue(c))
FairSpec == Spec /\ Fairness

-----------------------------------------------------------------------------
(* Properties                                                              *)

\* No call is working on request r.
Quiet(r) == \A c \in Calls : At(c, "idle") \/ call[c].r # r

RequestsOf(e) == {r \in Requests : Owner[r] = e}

\* What the approved requests of e cost.
Charged(e) ==
  LET D(r) == Days[r]
  IN  MapThenSumSet(D, {r \in RequestsOf(e) : Paid[r] /\ req[r] = "approved"})

\* Every request of e is at rest: no handler is between two of its statements.
AtRest(e) == \A r \in RequestsOf(e) : Quiet(r)

\* Types of the tables and of the calls in flight.
TypeOK ==
  /\ req \in [Requests -> Statuses]
  /\ appr \in [Requests -> [Steps -> ApprovalStatuses]]
  /\ bal \in [Employees -> Int]
  /\ used \in [Employees -> Int]
  /\ leaveRows \subseteq Employees \X Dates
  /\ call \in [Calls -> CallRecord]

\* However approvals, refunds and roll backs interleave, a leave balance never
\* goes below zero: deductBalance is guarded by the balance at the moment of the
\* UPDATE, not by the one submitRequest read.
NoOverdraft == \A e \in Employees : bal[e] >= 0

\* The submission is past its second overlap check.
Settled(r) ==
  Active(r) /\ \A c \in Calls : call[c].r = r => call[c].pc \notin {"raceCheck", "rollback"}

\* Two requests of one employee whose dates intersect are never both active once
\* both submissions are past the check submitRequest makes after its INSERT,
\* although each may have passed the check before it.
NoOverlappingLeave ==
  \A r, o \in Requests : Overlap(r, o) => ~(Settled(r) /\ Settled(o))

\* With no handler under way and nothing ever cancelled or deleted, an employee
\* has used exactly what the approved paid requests cost, and the balance is the
\* rest: a request two final approvals race for is charged once, one that loses
\* to a rejection is not charged.
LedgerSettled ==
  \A e \in Employees :
    AtRest(e) /\ (\A r \in RequestsOf(e) : req[r] \notin {"cancelled", "gone"}) =>
      used[e] = Charged(e) /\ bal[e] = InitBalance[e] - Charged(e)

\* A cancellation may lose days (see RefundOnCancel) but never invents any: at
\* rest, an employee none of whose requests was deleted has not been given back
\* more than was taken.
NoFreeDays ==
  \A e \in Employees :
    AtRest(e) /\ (\A r \in RequestsOf(e) : req[r] # "gone") => used[e] >= Charged(e)

\* A request at rest that still waits has somebody to wait for: a pending step.
\* A final approval that found steps pending, or a skipped step, must not leave
\* it with every step decided and no decision.
NobodyStuck ==
  \A r \in Requests : Quiet(r) /\ req[r] = "pending" => PendingSteps(r) # {}

\* An approved request that went through a chain carries an approval: neither
\* retries nor races approve a request whose every step was refused.
ApprovalWitness ==
  \A r \in Requests : req[r] = "approved" /\ ~AutoApproved[r] => \E s \in Steps : appr[r][s] = "approved"

\* No attendance row the leave system has written is for days that only pending
\* or rejected requests cover: an approval that loses to a rejection syncs nothing.
LeaveRowsJustified ==
  \A row \in leaveRows :
    \E r \in Requests : row \in Footprint(r) /\ req[r] \in {"approved", "cancelled", "gone"}

\* A decision is final: a rejected or cancelled request may be deleted but never
\* changes its status again, and an approved one can only be cancelled or deleted.
DecisionFinal ==
  [][\A r \in Requests :
       /\ req[r] \in {"rejected", "cancelled", "gone"} => req'[r] \in {req[r], "gone"}
       /\ req[r] = "approved" => req'[r] \in {"approved", "cancelled", "gone"}]_vars

\* A row that submitRequest has not inserted yet is nobody else's business: what
\* DecisionFinal rests on.
SubmitterAlone ==
  \A c \in Calls : call[c].pc \in {"checkOverlap", "insert"} =>
    /\ req[call[c].r] = "absent"
    /\ \A d \in Calls : d # c => At(d, "idle") \/ call[d].r # call[c].r

\* Once nobody's approval is missing, the request is decided: the handler that
\* approved the last step carries the decision through.
DecisionFollows ==
  \A r \in Requests :
    (req[r] = "pending" /\ PendingSteps(r) = {}) ~> (req[r] # "pending" \/ PendingSteps(r) # {})

(* What the documents say and the code does not do; see the run that expects a *)
(* violation.                                                                  *)

\* "Balance is deducted on approval, restored on cancellation."
RefundOnCancel ==
  \A e \in Employees : AtRest(e) => used[e] <= Charged(e)
=============================================================================
