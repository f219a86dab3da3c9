------------------------ MODULE LeaveRequestsProofs ------------------------
(* Theorems about LeaveRequests, for every set of requests and calls.      *)
EXTENDS LeaveRefinement, FiniteSetTheorems, TLAPS

\* The record of a call that is not running is well typed.
LEMMA NoCallType == NoCall \in CallRecord /\ NoCall.pc = "idle"
<1>1. (CHOOSE r \in Requests : TRUE) \in Requests
  BY ConstantsOK
<1>2. QED
  BY <1>1, ConstantsOK DEF NoCall, CallRecord, Labels

\* Moving a call to another statement keeps the type of call.
LEMMA GotoType ==
  ASSUME TypeOK, NEW c \in Calls, NEW l \in Labels, Goto(c, l)
  PROVE  call' \in [Calls -> CallRecord]
BY DEF TypeOK, Goto, CallRecord

\* The same of a call that ends.
LEMMA ReturnType ==
  ASSUME TypeOK, NEW c \in Calls, Return(c)
  PROVE  call' \in [Calls -> CallRecord]
BY NoCallType DEF TypeOK, Return

\* A charge or a refund keeps the balances integers.
LEMMA BalanceType ==
  ASSUME TypeOK, NEW r \in Requests, Charge(r) \/ RestoreBalance(r)
  PROVE  bal' \in [Employees -> Int] /\ used' \in [Employees -> Int]
<1>1. Days[r] \in Int /\ Owner[r] \in Employees
  BY ConstantsOK
<1>2. QED
  BY <1>1 DEF TypeOK, Charge, RestoreBalance

\* Rejecting the pending rows, or deleting them all, keeps the approval rows typed.
LEMMA ApprovalRowsType ==
  ASSUME TypeOK, NEW r \in Requests, RejectPending(r) \/ DeleteRow(r)
  PROVE  appr' \in [Requests -> [Steps -> ApprovalStatuses]]
BY DEF TypeOK, RejectPending, DeleteRow, ApprovalStatuses

\* The attendance rows of a request are rows of its owner on known dates.
LEMMA FootprintType ==
  ASSUME NEW r \in Requests
  PROVE  Footprint(r) \subseteq Employees \X Dates
BY ConstantsOK DEF Footprint

\* The statements of submitRequest and of the attendance sync keep the types.
LEMMA SubmitType ==
  ASSUME TypeOK, NEW c \in Calls, Submit(c) \/ SyncRead(c) \/ SyncWrite(c)
  PROVE  TypeOK'
<1> DEFINE r == call[c].r
<1>0. r \in Requests /\ call[c] \in CallRecord
  BY DEF TypeOK, CallRecord
<1>1. CASE SubmitCheckOverlap(c)
  BY <1>1, GotoType, ReturnType DEF TypeOK, SubmitCheckOverlap, Labels
<1>2. CASE SubmitInsert(c)
  BY <1>0, <1>2, GotoType DEF TypeOK, SubmitInsert, Labels, Statuses
<1>3. CASE SubmitRaceCheck(c)
  BY <1>3, GotoType DEF TypeOK, SubmitRaceCheck, AfterRaceCheck, Labels
<1>4. CASE SubmitRollback(c)
  BY <1>0, <1>4, ReturnType, ApprovalRowsType DEF TypeOK, SubmitRollback, DeleteRow, Statuses
<1>5. CASE SubmitCreateApproval(c)
  <2>1. call' \in [Calls -> CallRecord]
    <3>1. CASE Return(c)
      BY <3>1, ReturnType
    <3>2. ASSUME NEW s \in Chain[r], call' = [call EXCEPT ![c].step = s]
          PROVE  call' \in [Calls -> CallRecord]
      <4>1. s \in 0..MaxStep
        BY <1>0, ConstantsOK DEF Steps
      <4>2. QED
        BY <3>2, <4>1 DEF TypeOK, CallRecord
    <3>3. QED
      BY <1>5, <3>1, <3>2 DEF SubmitCreateApproval
  <2>2. appr' \in [Requests -> [Steps -> ApprovalStatuses]]
    <3>1. ASSUME NEW s \in Chain[r], appr' = [appr EXCEPT ![r][s] = "pending"]
          PROVE  appr' \in [Requests -> [Steps -> ApprovalStatuses]]
      BY <1>0, <3>1 DEF TypeOK, ApprovalStatuses
    <3>2. CASE UNCHANGED appr
      BY <3>2 DEF TypeOK
    <3>3. QED
      BY <1>5, <3>1, <3>2 DEF SubmitCreateApproval
  <2>3. QED
    BY <2>1, <2>2, <1>5 DEF TypeOK, SubmitCreateApproval
<1>6. CASE SubmitAutoDeduct(c)
  BY <1>0, <1>6, GotoType, BalanceType DEF TypeOK, SubmitAutoDeduct, DeductOrElse, Labels
<1>7. CASE SyncRead(c)
  BY <1>7, GotoType, ReturnType DEF TypeOK, SyncRead, Labels
<1>8. CASE SyncWrite(c)
  BY <1>0, <1>8, ReturnType, FootprintType DEF TypeOK, SyncWrite
<1>9. QED
  BY <1>1, <1>2, <1>3, <1>4, <1>5, <1>6, <1>7, <1>8 DEF Submit

\* The statements of approveRequest keep the types.
LEMMA ApproveType ==
  ASSUME TypeOK, NEW c \in Calls, Approve(c)
  PROVE  TypeOK'
<1> DEFINE r == call[c].r
<1>0. r \in Requests /\ call[c] \in CallRecord
  BY DEF TypeOK, CallRecord
<1>1. CASE ApproveAdvancePrior(c)
  <2>1. call' \in [Calls -> CallRecord]
    <3>1. CASE Return(c)
      BY <3>1, ReturnType
    <3>2. CASE ~Return(c)
      <4>1. PICK p \in call[c].prior :
              call' = [call EXCEPT ![c].prior = @ \ {p},
                                   ![c].pc = IF call[c].prior = {p} THEN "approveStep" ELSE @]
        BY <1>1, <3>2 DEF ApproveAdvancePrior
      <4>2. call[c].prior \ {p} \subseteq Steps
        BY <1>0 DEF CallRecord
      <4>3. QED
        BY <1>0, <4>1, <4>2 DEF TypeOK, CallRecord, Labels
    <3>3. QED
      BY <3>1, <3>2
  <2>2. appr' \in [Requests -> [Steps -> ApprovalStatuses]]
    <3>1. ASSUME NEW p \in call[c].prior, appr' = [appr EXCEPT ![r][p] = "approved"]
          PROVE  appr' \in [Requests -> [Steps -> ApprovalStatuses]]
      BY <1>0, <3>1 DEF TypeOK, ApprovalStatuses
    <3>2. CASE UNCHANGED appr
      BY <3>2 DEF TypeOK
    <3>3. QED
      BY <1>1, <3>1, <3>2 DEF ApproveAdvancePrior
  <2>3. QED
    BY <2>1, <2>2, <1>1 DEF TypeOK, ApproveAdvancePrior
<1>2. CASE ApproveStep(c)
  <2>1. call' \in [Calls -> CallRecord]
    BY <1>2, GotoType, ReturnType DEF ApproveStep, Labels
  <2>2. appr' \in [Requests -> [Steps -> ApprovalStatuses]]
    BY <1>0, <1>2 DEF TypeOK, ApproveStep, ApprovalStatuses
  <2>3. QED
    BY <2>1, <2>2, <1>2 DEF TypeOK, ApproveStep
<1>3. CASE ApproveCountPending(c)
  BY <1>3, GotoType, ReturnType DEF TypeOK, ApproveCountPending, Labels
<1>4. CASE ApproveRereadRequest(c)
  BY <1>4, GotoType, ReturnType DEF TypeOK, ApproveRereadRequest, Labels
<1>5. CASE ApproveDeduct(c)
  BY <1>0, <1>5, GotoType, ReturnType, BalanceType DEF TypeOK, ApproveDeduct, DeductOrElse, Labels
<1>6. CASE ApproveRequest(c)
  BY <1>0, <1>6, GotoType, ReturnType DEF TypeOK, ApproveRequest, Labels, Statuses
<1>7. CASE ApproveCompensate(c)
  BY <1>0, <1>7, ReturnType, BalanceType DEF TypeOK, ApproveCompensate
<1>8. QED
  BY <1>1, <1>2, <1>3, <1>4, <1>5, <1>6, <1>7 DEF Approve

\* The statements of rejectApproval, cancelRequest and deleteRequest keep the types.
LEMMA DecideType ==
  ASSUME TypeOK, NEW c \in Calls, Reject(c) \/ Cancel(c) \/ Delete(c)
  PROVE  TypeOK'
<1> DEFINE r == call[c].r
<1>0. r \in Requests /\ call[c] \in CallRecord
  BY DEF TypeOK, CallRecord
<1>1. CASE RejectStep(c)
  <2>1. call' \in [Calls -> CallRecord]
    BY <1>1, GotoType, ReturnType DEF RejectStep, Labels
  <2>2. appr' \in [Requests -> [Steps -> ApprovalStatuses]]
    BY <1>0, <1>1 DEF TypeOK, RejectStep, ApprovalStatuses
  <2>3. QED
    BY <2>1, <2>2, <1>1 DEF TypeOK, RejectStep
<1>2. CASE RejectRemaining(c)
  BY <1>0, <1>2, GotoType, ApprovalRowsType DEF TypeOK, RejectRemaining, Labels
<1>3. CASE RejectRequest(c)
  BY <1>0, <1>3, ReturnType DEF TypeOK, RejectRequest, Statuses
<1>4. CASE CancelUpdate(c)
  BY <1>0, <1>4, GotoType, ReturnType DEF TypeOK, CancelUpdate, Labels, Statuses
<1>5. CASE CancelApprovals(c)
  BY <1>0, <1>5, GotoType, ReturnType, ApprovalRowsType DEF TypeOK, CancelApprovals, Labels
<1>6. CASE CancelRefund(c)
  BY <1>0, <1>6, GotoType, BalanceType DEF TypeOK, CancelRefund, Labels
<1>7. CASE CancelReverse(c)
  BY <1>7, ReturnType DEF TypeOK, CancelReverse, ReverseAttendance
<1>8. CASE DeleteRefund(c)
  BY <1>0, <1>8, GotoType, BalanceType DEF TypeOK, DeleteRefund, Labels
<1>9. CASE DeleteReverse(c)
  BY <1>9, GotoType DEF TypeOK, DeleteReverse, ReverseAttendance, Labels
<1>10. CASE DeleteApprovals(c)
  BY <1>0, <1>10, GotoType, ApprovalRowsType DEF TypeOK, DeleteApprovals, Labels
<1>11. CASE DeleteRequest(c)
  BY <1>0, <1>11, ReturnType, ApprovalRowsType DEF TypeOK, DeleteRequest, DeleteRow, Statuses
<1>12. QED
  BY <1>1, <1>2, <1>3, <1>4, <1>5, <1>6, <1>7, <1>8, <1>9, <1>10, <1>11 DEF Reject, Cancel, Delete

\* So does the start of a handler.
LEMMA StartType ==
  ASSUME TypeOK, NEW c \in Calls, Start(c)
  PROVE  TypeOK'
<1>1. ASSUME NEW r \in Requests, SubmitStart(c, r)
      PROVE  TypeOK'
  <2>1. call' \in [Calls -> CallRecord]
    BY <1>1, ConstantsOK DEF TypeOK, SubmitStart, Begin, CallRecord, Labels
  <2>2. QED
    BY <1>1, <2>1 DEF TypeOK, SubmitStart
<1>2. ASSUME NEW r \in Requests, NEW s \in Steps, NEW o \in BOOLEAN, ApproveStart(c, r, s, o)
      PROVE  TypeOK'
  <2>1. call' \in [Calls -> CallRecord]
    BY <1>2, ConstantsOK DEF TypeOK, ApproveStart, Begin, CallRecord, Labels, PendingSteps, Steps
  <2>2. QED
    BY <1>2, <2>1 DEF TypeOK, ApproveStart
<1>3. ASSUME NEW r \in Requests, NEW s \in Steps, RejectStart(c, r, s)
      PROVE  TypeOK'
  <2>1. call' \in [Calls -> CallRecord]
    BY <1>3, ConstantsOK DEF TypeOK, RejectStart, Begin, CallRecord, Labels, Steps
  <2>2. QED
    BY <1>3, <2>1 DEF TypeOK, RejectStart
<1>4. ASSUME NEW r \in Requests, CancelStart(c, r) \/ DeleteStart(c, r)
      PROVE  TypeOK'
  <2>1. ASSUME NEW l \in Labels, NEW w \in BOOLEAN, Begin(c, l, r, 0, {}, w)
        PROVE  call' \in [Calls -> CallRecord]
    BY <2>1, ConstantsOK DEF TypeOK, Begin, CallRecord
  <2>2. (req[r] = "approved") \in BOOLEAN
    OBVIOUS
  <2>3. call' \in [Calls -> CallRecord]
    BY <1>4, <2>1, <2>2 DEF CancelStart, DeleteStart, Labels
  <2>4. QED
    BY <1>4, <2>3 DEF TypeOK, CancelStart, DeleteStart
<1>5. QED
  BY <1>1, <1>2, <1>3, <1>4 DEF Start

\* The tables and the handlers in flight keep their types.
THEOREM TypeCorrect == Spec => []TypeOK
<1>1. Init => TypeOK
  BY NoCallType, ConstantsOK DEF Init, TypeOK, Statuses, ApprovalStatuses
<1>2. TypeOK /\ [Next]_vars => TypeOK'
  <2>1. ASSUME TypeOK, NEW c \in Calls, Start(c) \/ Continue(c)
        PROVE  TypeOK'
    BY <2>1, StartType, SubmitType, ApproveType, DecideType DEF Continue
  <2>2. TypeOK /\ UNCHANGED vars => TypeOK'
    BY DEF TypeOK, vars
  <2>3. QED
    BY <2>1, <2>2 DEF Next
<1>3. QED
  BY <1>1, <1>2, PTL DEF Spec

-----------------------------------------------------------------------------
(* The balance.                                                            *)

\* A charge is guarded by the balance it is taken from, a refund only adds.
LEMMA BalanceStep ==
  ASSUME TypeOK, NoOverdraft, NEW r \in Requests,
         (bal[Owner[r]] >= Days[r] /\ Charge(r)) \/ RestoreBalance(r)
  PROVE  NoOverdraft'
<1>1. Owner[r] \in Employees /\ Days[r] \in Nat
  BY ConstantsOK
<1>2. QED
  BY <1>1 DEF TypeOK, NoOverdraft, Charge, RestoreBalance

\* A step leaves the balances alone, or is one of those two.
LEMMA BalanceOnlyMoves ==
  ASSUME NEW c \in Calls, Start(c) \/ Continue(c)
  PROVE  LET r == call[c].r IN
         \/ UNCHANGED <<bal, used>>
         \/ bal[Owner[r]] >= Days[r] /\ Charge(r)
         \/ RestoreBalance(r)
<1>1. CASE Start(c)
  BY <1>1 DEF Start, SubmitStart, ApproveStart, RejectStart, CancelStart, DeleteStart
<1>2. CASE Submit(c) \/ SyncRead(c) \/ SyncWrite(c)
  BY <1>2 DEF Submit, SubmitCheckOverlap, SubmitInsert, SubmitRaceCheck, SubmitRollback,
     SubmitCreateApproval, SubmitAutoDeduct, DeductOrElse, SyncRead, SyncWrite
<1>3. CASE Approve(c)
  BY <1>3 DEF Approve, ApproveAdvancePrior, ApproveStep, ApproveCountPending,
     ApproveRereadRequest, ApproveDeduct, DeductOrElse, ApproveRequest, ApproveCompensate
<1>4. CASE Reject(c) \/ Cancel(c) \/ Delete(c)
  BY <1>4 DEF Reject, RejectStep, RejectRemaining, RejectRequest, Cancel, CancelUpdate,
     CancelApprovals, CancelRefund, CancelReverse, Delete, DeleteRefund, DeleteReverse,
     DeleteApprovals, DeleteRequest
<1>5. QED
  BY <1>1, <1>2, <1>3, <1>4 DEF Continue

\* No interleaving of the handlers takes a balance below zero.
THEOREM NeverOverdrawn == Spec => []NoOverdraft
<1>1. Init => NoOverdraft
  BY ConstantsOK DEF Init, NoOverdraft
<1>2. TypeOK /\ NoOverdraft /\ [Next]_vars => NoOverdraft'
  <2>1. ASSUME TypeOK, NoOverdraft, NEW c \in Calls, Start(c) \/ Continue(c)
        PROVE  NoOverdraft'
    <3>1. call[c].r \in Requests
      BY <2>1 DEF TypeOK, CallRecord
    <3>2. CASE UNCHANGED <<bal, used>>
      BY <2>1, <3>2 DEF NoOverdraft
    <3>3. QED
      BY <2>1, <3>1, <3>2, BalanceStep, BalanceOnlyMoves
  <2>2. NoOverdraft /\ UNCHANGED vars => NoOverdraft'
    BY DEF NoOverdraft, vars
  <2>3. QED
    BY <2>1, <2>2 DEF Next
<1>3. QED
  BY <1>1, <1>2, TypeCorrect, PTL DEF Spec

-----------------------------------------------------------------------------
(* Overlapping requests.                                                   *)

\* A step of call c that neither makes a request active nor moves c past the
\* race check cannot bring two overlapping requests to rest together.
LEMMA NothingSettles ==
  ASSUME NoOverlappingLeave, NEW c \in Calls,
         \A d \in Calls : d # c => call'[d] = call[d],
         call[c].pc \notin {"raceCheck", "rollback"},
         \A r \in Requests : Active(r)' => Active(r)
  PROVE  NoOverlappingLeave'
<1>1. \A r \in Requests : Settled(r)' => Settled(r)
  BY DEF Settled
<1>2. QED
  BY <1>1 DEF NoOverlappingLeave, Overlap

\* Every step but the INSERT of a submission leaves inactive requests inactive,
\* and every step changes its own call only.
LEMMA ActiveShrinks ==
  ASSUME TypeOK, NEW c \in Calls, Start(c) \/ Continue(c)
  PROVE  /\ \A d \in Calls : d # c => call'[d] = call[d]
         /\ ~SubmitInsert(c) => \A r \in Requests : Active(r)' => Active(r)
<1>1. CASE Start(c)
  BY <1>1 DEF TypeOK, Start, SubmitStart, ApproveStart, RejectStart, CancelStart, DeleteStart,
     Begin, Active
<1>2. CASE Submit(c)
  <2>1. CASE SubmitCheckOverlap(c) \/ SubmitRaceCheck(c)
    BY <2>1 DEF TypeOK, SubmitCheckOverlap, SubmitRaceCheck, Return, Goto, Active
  <2>2. CASE SubmitInsert(c)
    BY <2>2 DEF TypeOK, SubmitInsert, Goto
  <2>3. CASE SubmitRollback(c)
    BY <2>3 DEF TypeOK, SubmitRollback, DeleteRow, Return, Active
  <2>4. CASE SubmitCreateApproval(c)
    BY <2>4 DEF TypeOK, SubmitCreateApproval, Return, Active
  <2>5. CASE SubmitAutoDeduct(c)
    BY <2>5 DEF TypeOK, SubmitAutoDeduct, DeductOrElse, Goto, Active
  <2>6. QED
    BY <1>2, <2>1, <2>2, <2>3, <2>4, <2>5 DEF Submit
<1>3. CASE SyncRead(c) \/ SyncWrite(c)
  BY <1>3 DEF TypeOK, SyncRead, SyncWrite, Return, Goto, Active
<1>4. CASE Approve(c)
  <2>1. CASE ApproveAdvancePrior(c) \/ ApproveStep(c) \/ ApproveCountPending(c) \/ ApproveRereadRequest(c)
    BY <2>1 DEF TypeOK, ApproveAdvancePrior, ApproveStep, ApproveCountPending,
       ApproveRereadRequest, Return, Goto, Active
  <2>2. CASE ApproveDeduct(c) \/ ApproveCompensate(c)
    BY <2>2 DEF TypeOK, ApproveDeduct, DeductOrElse, ApproveCompensate, Return, Goto, Active
  <2>3. CASE ApproveRequest(c)
    BY <2>3 DEF TypeOK, ApproveRequest, Return, Goto, Active
  <2>4. QED
    BY <1>4, <2>1, <2>2, <2>3 DEF Approve
<1>5. CASE Reject(c)
  BY <1>5 DEF TypeOK, Reject, RejectStep, RejectRemaining, RejectRequest, Return, Goto, Active
<1>6. CASE Cancel(c)
  BY <1>6 DEF TypeOK, Cancel, CancelUpdate, CancelApprovals, CancelRefund, CancelReverse,
     Return, Goto, Active
<1>7. CASE Delete(c)
  BY <1>7 DEF TypeOK, Delete, DeleteRefund, DeleteReverse, DeleteApprovals, DeleteRequest,
     DeleteRow, Return, Goto, Active
<1>8. QED
  BY <1>1, <1>2, <1>3, <1>4, <1>5, <1>6, <1>7 DEF Continue

\* The three statements of submitRequest that decide which submission stands.
LEMMA RaceCheckStep ==
  ASSUME TypeOK, NoOverlappingLeave, NEW c \in Calls,
         SubmitInsert(c) \/ SubmitRaceCheck(c) \/ SubmitRollback(c)
  PROVE  NoOverlappingLeave'
<1>0. PICK r \in Requests : r = call[c].r
  BY DEF TypeOK, CallRecord
<1>1. CASE SubmitInsert(c)
  <2>1. call'[c].r = r /\ call'[c].pc = "raceCheck"
    BY <1>0, <1>1 DEF TypeOK, SubmitInsert, Goto, CallRecord
  <2>2. \A o \in Requests : o # r => (Settled(o)' => Settled(o))
    BY <1>0, <1>1 DEF TypeOK, SubmitInsert, Goto, Settled, Active, CallRecord
  <2>3. ~Settled(r)'
    BY <2>1 DEF Settled
  <2>4. QED
    BY <1>0, <2>2, <2>3 DEF NoOverlappingLeave, Overlap
<1>2. CASE SubmitRaceCheck(c)
  <2>1. \A o \in Requests : o # r => (Settled(o)' => Settled(o))
    BY <1>0, <1>2 DEF TypeOK, SubmitRaceCheck, Goto, Settled, Active, CallRecord
  <2>2. CASE \E o \in Requests : Overlap(r, o) /\ Active(o)
    <3>1. call'[c].r = r /\ call'[c].pc = "rollback"
      BY <1>0, <1>2, <2>2 DEF TypeOK, SubmitRaceCheck, Goto, CallRecord
    <3>2. ~Settled(r)'
      BY <3>1 DEF Settled
    <3>3. QED
      BY <1>0, <2>1, <3>2 DEF NoOverlappingLeave, Overlap
  <2>3. CASE \A o \in Requests : Overlap(r, o) => ~Active(o)
    <3>1. \A o \in Requests : Overlap(r, o) => ~Settled(o)'
      BY <1>2, <2>3 DEF SubmitRaceCheck, Settled, Active
    <3>2. \A o \in Requests : Overlap(o, r) => Overlap(r, o)
      BY DEF Overlap
    <3>3. QED
      BY <1>0, <2>1, <3>1, <3>2 DEF NoOverlappingLeave, Overlap
  <2>4. QED
    BY <2>2, <2>3
<1>3. CASE SubmitRollback(c)
  <2>1. ~Active(r)'
    BY <1>0, <1>3 DEF TypeOK, SubmitRollback, DeleteRow, Exists, Active
  <2>2. \A o \in Requests : o # r => (Settled(o)' => Settled(o))
    BY <1>0, <1>3 DEF TypeOK, SubmitRollback, DeleteRow, Return, Settled, Active, CallRecord
  <2>3. QED
    BY <1>0, <2>1, <2>2 DEF NoOverlappingLeave, Overlap, Settled
<1>4. QED
  BY <1>1, <1>2, <1>3

\* Of two overlapping requests at most one stands, although each submission may
\* have passed the check before its INSERT.
THEOREM NoTwoOverlap == Spec => []NoOverlappingLeave
<1>1. Init => NoOverlappingLeave
  BY DEF Init, NoOverlappingLeave, Settled, Active
<1>2. TypeOK /\ NoOverlappingLeave /\ [Next]_vars => NoOverlappingLeave'
  <2>1. ASSUME TypeOK, NoOverlappingLeave, NEW c \in Calls, Start(c) \/ Continue(c)
        PROVE  NoOverlappingLeave'
    <3>1. CASE SubmitInsert(c) \/ SubmitRaceCheck(c) \/ SubmitRollback(c)
      BY <2>1, <3>1, RaceCheckStep
    <3>2. CASE ~(SubmitInsert(c) \/ SubmitRaceCheck(c) \/ SubmitRollback(c))
      <4>1. call[c].pc \notin {"raceCheck", "rollback"}
        BY <2>1, <3>2 DEF Start, SubmitStart, ApproveStart, RejectStart, CancelStart,
           DeleteStart, Begin, Continue, Submit, SubmitCheckOverlap, SubmitCreateApproval,
           SubmitAutoDeduct, SyncRead, SyncWrite, Approve, ApproveAdvancePrior, ApproveStep,
           ApproveCountPending, ApproveRereadRequest, ApproveDeduct, ApproveRequest,
           ApproveCompensate, Reject, RejectStep, RejectRemaining, RejectRequest, Cancel,
           CancelUpdate, CancelApprovals, CancelRefund, CancelReverse, Delete, DeleteRefund,
           DeleteReverse, DeleteApprovals, DeleteRequest, At
      <4>2. QED
        BY <2>1, <3>2, <4>1, ActiveShrinks, NothingSettles
    <3>3. QED
      BY <3>1, <3>2
  <2>2. NoOverlappingLeave /\ UNCHANGED vars => NoOverlappingLeave'
    BY DEF NoOverlappingLeave, Overlap, Settled, Active, vars
  <2>3. QED
    BY <2>1, <2>2 DEF Next
<1>3. QED
  BY <1>1, <1>2, TypeCorrect, PTL DEF Spec

-----------------------------------------------------------------------------
(* Decisions.                                                              *)

\* What a handler in flight may do to the requests and to its own call.
LEMMA ContinueEffect ==
  ASSUME TypeOK, NEW c \in Calls, Continue(c)
  PROVE  /\ ~At(c, "idle")
         /\ \A r \in Requests : r # call[c].r => req'[r] = req[r]
         /\ call'[c] = NoCall \/ call'[c].r = call[c].r
         /\ call'[c].pc \in {"checkOverlap", "insert"} => SubmitCheckOverlap(c)
<1>0. NoCall.pc = "idle" /\ call[c] \in CallRecord
  BY NoCallType DEF TypeOK
<1>1. CASE Submit(c)
  <2>1. CASE SubmitCheckOverlap(c) \/ SubmitRaceCheck(c)
    BY <1>0, <2>1 DEF TypeOK, CallRecord, SubmitCheckOverlap, SubmitRaceCheck, AfterRaceCheck,
       Return, Goto, At
  <2>2. CASE SubmitInsert(c) \/ SubmitRollback(c)
    BY <1>0, <2>2 DEF TypeOK, CallRecord, SubmitInsert, SubmitRollback, DeleteRow, Return, Goto, At
  <2>3. CASE SubmitCreateApproval(c)
    <3>1. call'[c] = NoCall \/ (call'[c].r = call[c].r /\ call'[c].pc = call[c].pc)
      <4>1. ASSUME NEW s, call' = [call EXCEPT ![c].step = s]
            PROVE  call'[c].r = call[c].r /\ call'[c].pc = call[c].pc
        BY <1>0, <4>1 DEF TypeOK, CallRecord
      <4>2. Return(c) => call'[c] = NoCall
        BY DEF TypeOK, Return
      <4>3. QED
        BY <2>3, <4>1, <4>2 DEF SubmitCreateApproval
    <3>2. req' = req /\ call[c].pc = "createApproval"
      BY <2>3 DEF SubmitCreateApproval, At
    <3>3. QED
      BY <1>0, <3>1, <3>2 DEF At
  <2>4. CASE SubmitAutoDeduct(c)
    BY <1>0, <2>4 DEF TypeOK, CallRecord, SubmitAutoDeduct, DeductOrElse, Goto, At
  <2>5. QED
    BY <1>1, <2>1, <2>2, <2>3, <2>4 DEF Submit
<1>2. CASE SyncRead(c) \/ SyncWrite(c)
  BY <1>0, <1>2 DEF TypeOK, CallRecord, SyncRead, SyncWrite, Return, Goto, At
<1>3. CASE Approve(c)
  <2>1. CASE ApproveAdvancePrior(c)
    BY <1>0, <2>1 DEF TypeOK, CallRecord, ApproveAdvancePrior, Return, At
  <2>2. CASE ApproveStep(c) \/ ApproveCountPending(c) \/ ApproveRereadRequest(c)
    BY <1>0, <2>2 DEF TypeOK, CallRecord, ApproveStep, ApproveCountPending,
       ApproveRereadRequest, Return, Goto, At
  <2>3. CASE ApproveDeduct(c) \/ ApproveRequest(c) \/ ApproveCompensate(c)
    BY <1>0, <2>3 DEF TypeOK, CallRecord, ApproveDeduct, DeductOrElse, ApproveRequest,
       ApproveCompensate, Return, Goto, At
  <2>4. QED
    BY <1>3, <2>1, <2>2, <2>3 DEF Approve
<1>4. CASE Reject(c)
  BY <1>0, <1>4 DEF TypeOK, CallRecord, Reject, RejectStep, RejectRemaining, RejectRequest,
     Return, Goto, At
<1>5. CASE Cancel(c)
  BY <1>0, <1>5 DEF TypeOK, CallRecord, Cancel, CancelUpdate, CancelApprovals, CancelRefund,
     CancelReverse, Return, Goto, At
<1>6. CASE Delete(c)
  BY <1>0, <1>6 DEF TypeOK, CallRecord, Delete, DeleteRefund, DeleteReverse, DeleteApprovals,
     DeleteRequest, DeleteRow, Return, Goto, At
<1>7. QED
  BY <1>1, <1>2, <1>3, <1>4, <1>5, <1>6 DEF Continue

\* A new call leaves the requests alone; it is the only one working on a row that
\* is not there yet, or works on a row that is.
LEMMA StartEffect ==
  ASSUME TypeOK, NEW c \in Calls, Start(c)
  PROVE  /\ req' = req
         /\ \/ /\ req[call'[c].r] = "absent"
               /\ \A d \in Calls : d # c => At(d, "idle") \/ call[d].r # call'[c].r
            \/ /\ Exists(call'[c].r)
               /\ call'[c].pc \notin {"checkOverlap", "insert"}
<1>1. ASSUME NEW r \in Requests, SubmitStart(c, r)
      PROVE  /\ req' = req
             /\ req[call'[c].r] = "absent"
             /\ \A d \in Calls : d # c => At(d, "idle") \/ call[d].r # call'[c].r
  BY <1>1 DEF TypeOK, SubmitStart, Begin, At
<1>2. ASSUME NEW r \in Requests, NEW s \in Steps, NEW o \in BOOLEAN,
             ApproveStart(c, r, s, o) \/ RejectStart(c, r, s)
      PROVE  req' = req /\ Exists(call'[c].r) /\ call'[c].pc \notin {"checkOverlap", "insert"}
  BY <1>2 DEF TypeOK, ApproveStart, RejectStart, Begin
<1>3. ASSUME NEW r \in Requests, CancelStart(c, r) \/ DeleteStart(c, r)
      PROVE  req' = req /\ Exists(call'[c].r) /\ call'[c].pc \notin {"checkOverlap", "insert"}
  BY <1>3 DEF TypeOK, CancelStart, DeleteStart, Begin
<1>4. QED
  BY <1>1, <1>2, <1>3 DEF Start

\* Only its submission works on a row that is not inserted yet.
THEOREM SubmitterIsAlone == Spec => []SubmitterAlone
<1>1. Init => SubmitterAlone
  BY NoCallType DEF Init, SubmitterAlone
<1>2. TypeOK /\ SubmitterAlone /\ [Next]_vars => SubmitterAlone'
  <2>1. ASSUME TypeOK, SubmitterAlone, NEW c \in Calls, Start(c)
        PROVE  SubmitterAlone'
    <3>1. \A d \in Calls : d # c => call'[d] = call[d]
      BY <2>1, ActiveShrinks
    <3>2. call'[c] \in CallRecord
      BY <2>1, StartType DEF TypeOK
    <3>3. ASSUME NEW d \in Calls, call'[d].pc \in {"checkOverlap", "insert"}
          PROVE  /\ req'[call'[d].r] = "absent"
                 /\ \A e \in Calls : e # d => call'[e].pc = "idle" \/ call'[e].r # call'[d].r
      <4>1. CASE d = c
        BY <2>1, <3>1, <3>3, <4>1, StartEffect DEF At
      <4>2. CASE d # c
        BY <2>1, <3>1, <3>3, <4>2, StartEffect DEF SubmitterAlone, At, Exists
      <4>3. QED
        BY <4>1, <4>2
    <3>4. QED
      BY <3>3 DEF SubmitterAlone, At
  <2>2. ASSUME TypeOK, SubmitterAlone, NEW c \in Calls, Continue(c)
        PROVE  SubmitterAlone'
    <3>1. \A d \in Calls : d # c => call'[d] = call[d]
      BY <2>2, ActiveShrinks
    <3>2. \A d \in Calls : call[d].r \in Requests
      BY <2>2 DEF TypeOK, CallRecord
    <3>3. ASSUME NEW d \in Calls, call'[d].pc \in {"checkOverlap", "insert"}
          PROVE  /\ req'[call'[d].r] = "absent"
                 /\ \A e \in Calls : e # d => call'[e].pc = "idle" \/ call'[e].r # call'[d].r
      <4>1. CASE d = c
        <5>1. SubmitCheckOverlap(c)
          BY <2>2, <3>3, <4>1, ContinueEffect
        <5>2. call[c].pc = "checkOverlap" /\ req' = req /\ call'[c].r = call[c].r
          BY <2>2, <3>3, <4>1, <5>1, ContinueEffect, NoCallType DEF SubmitCheckOverlap, At
        <5>3. QED
          BY <2>2, <3>1, <4>1, <5>2 DEF SubmitterAlone, At
      <4>2. CASE d # c
        <5>1. call'[d] = call[d] /\ call[d].r # call[c].r
          BY <2>2, <3>1, <3>3, <4>2, ContinueEffect DEF SubmitterAlone
        <5>2. call'[c].pc = "idle" \/ call'[c].r = call[c].r
          BY <2>2, ContinueEffect, NoCallType
        <5>3. QED
          BY <2>2, <3>1, <3>2, <3>3, <4>2, <5>1, <5>2, ContinueEffect DEF SubmitterAlone, At
      <4>3. QED
        BY <4>1, <4>2
    <3>4. QED
      BY <3>3 DEF SubmitterAlone, At
  <2>3. SubmitterAlone /\ UNCHANGED vars => SubmitterAlone'
    BY DEF SubmitterAlone, At, vars
  <2>4. QED
    BY <2>1, <2>2, <2>3 DEF Next
<1>3. QED
  BY <1>1, <1>2, TypeCorrect, PTL DEF Spec

\* What no step may do to the status of r.
StatusStep(r) ==
  /\ req[r] \in {"rejected", "cancelled", "gone"} => req'[r] \in {req[r], "gone"}
  /\ req[r] = "approved" => req'[r] \in {"approved", "cancelled", "gone"}

\* A step leaves decided requests decided.
LEMMA DecisionStep ==
  ASSUME TypeOK, SubmitterAlone, NEW c \in Calls, Start(c) \/ Continue(c)
  PROVE  \A r \in Requests : StatusStep(r)
<1>1. CASE Start(c)
  BY <1>1, StartEffect DEF StatusStep
<1>2. CASE Continue(c)
  <2>1. CASE SubmitInsert(c)
    <3>1. req[call[c].r] = "absent"
      BY <1>2, <2>1 DEF SubmitterAlone, SubmitInsert, At
    <3>2. QED
      BY <1>2, <3>1, ContinueEffect DEF TypeOK, StatusStep
  <2>2. CASE SubmitRollback(c) \/ DeleteRequest(c)
    BY <1>2, <2>2 DEF TypeOK, SubmitRollback, DeleteRequest, DeleteRow, StatusStep
  <2>3. CASE ApproveRequest(c) \/ RejectRequest(c) \/ CancelUpdate(c)
    BY <1>2, <2>3 DEF TypeOK, ApproveRequest, RejectRequest, CancelUpdate, Active, StatusStep
  <2>4. CASE UNCHANGED req
    BY <2>4 DEF StatusStep
  <2>5. SubmitInsert(c) \/ SubmitRollback(c) \/ DeleteRequest(c) \/ ApproveRequest(c)
          \/ RejectRequest(c) \/ CancelUpdate(c) \/ UNCHANGED req
    BY <1>2 DEF Continue, Submit, SubmitCheckOverlap, SubmitRaceCheck, SubmitCreateApproval,
       SubmitAutoDeduct, SyncRead, SyncWrite, Approve, ApproveAdvancePrior, ApproveStep,
       ApproveCountPending, ApproveRereadRequest, ApproveDeduct, ApproveCompensate, Reject,
       RejectStep, RejectRemaining, Cancel, CancelApprovals, CancelRefund, CancelReverse,
       Delete, DeleteRefund, DeleteReverse, DeleteApprovals
  <2>6. QED
    BY <2>1, <2>2, <2>3, <2>4, <2>5
<1>3. QED
  BY <1>1, <1>2

\* A decision once made is never changed by a later or a slower call.
THEOREM DecisionsAreFinal == Spec => DecisionFinal
<1>1. TypeOK /\ SubmitterAlone /\ [Next]_vars => \A r \in Requests : StatusStep(r)
  <2>1. UNCHANGED vars => \A r \in Requests : StatusStep(r)
    BY DEF StatusStep, vars
  <2>2. QED
    BY <2>1, DecisionStep DEF Next
<1>2. QED
  BY <1>1, TypeCorrect, SubmitterIsAlone, PTL DEF Spec, DecisionFinal, StatusStep

-----------------------------------------------------------------------------
(* Attendance rows.                                                        *)

\* The request has been approved, whatever was done with it afterwards.
Granted(r) == req[r] \in {"approved", "cancelled", "gone"}

\* The submission of an automatically approved request, once the row is in, and
\* whoever is about to write attendance rows work on a request that was granted.
Syncing(c) ==
  \/ call[c].pc \in {"autoDeduct", "syncRead", "syncWrite"}
  \/ call[c].pc = "raceCheck" /\ AutoApproved[call[c].r]

SyncsGranted == \A c \in Calls : Syncing(c) => Granted(call[c].r)

\* A step leaves a granted request granted.
LEMMA GrantedStays ==
  ASSUME TypeOK, SubmitterAlone, NEW c \in Calls, Start(c) \/ Continue(c),
         NEW r \in Requests, Granted(r)
  PROVE  Granted(r)'
BY DecisionStep DEF StatusStep, Granted

\* A handler comes to a statement that leads to the attendance rows from such a
\* statement, from the INSERT of an approved row, or by approving the request.
LEMMA SyncingStarts ==
  ASSUME TypeOK, NEW c \in Calls, Continue(c), Syncing(c)'
  PROVE  /\ call'[c].r = call[c].r
         /\ Syncing(c) \/ Granted(call[c].r)'
<1>0. NoCall.pc = "idle" /\ call[c] \in CallRecord
  BY NoCallType DEF TypeOK
<1>1. CASE SubmitCheckOverlap(c) \/ SubmitRaceCheck(c) \/ SubmitInsert(c)
  BY <1>0, <1>1 DEF TypeOK, CallRecord, SubmitCheckOverlap, SubmitRaceCheck, SubmitInsert,
     AfterRaceCheck, Return, Goto, At, Syncing, Granted
<1>2. CASE SubmitRollback(c) \/ SubmitAutoDeduct(c) \/ SyncRead(c) \/ SyncWrite(c)
  BY <1>0, <1>2 DEF TypeOK, CallRecord, SubmitRollback, SubmitAutoDeduct, DeductOrElse,
     SyncRead, SyncWrite, Return, Goto, At, Syncing
<1>3. CASE SubmitCreateApproval(c)
  <2>1. ASSUME NEW s, call' = [call EXCEPT ![c].step = s]
        PROVE  call'[c].pc = call[c].pc
    BY <1>0, <2>1 DEF TypeOK, CallRecord
  <2>2. Return(c) => call'[c] = NoCall
    BY DEF TypeOK, Return
  <2>3. call'[c].pc \in {"idle", "createApproval"}
    BY <1>0, <1>3, <2>1, <2>2 DEF SubmitCreateApproval, At
  <2>4. QED
    BY <2>3 DEF Syncing
<1>4. CASE ApproveAdvancePrior(c) \/ ApproveStep(c) \/ ApproveCountPending(c)
            \/ ApproveRereadRequest(c)
  <2>1. CASE ApproveAdvancePrior(c)
    BY <1>0, <2>1 DEF TypeOK, CallRecord, ApproveAdvancePrior, Return, At, Syncing
  <2>2. CASE ApproveStep(c) \/ ApproveCountPending(c) \/ ApproveRereadRequest(c)
    BY <1>0, <2>2 DEF TypeOK, CallRecord, ApproveStep, ApproveCountPending,
       ApproveRereadRequest, Return, Goto, At, Syncing
  <2>3. QED
    BY <1>4, <2>1, <2>2
<1>5. CASE ApproveDeduct(c) \/ ApproveRequest(c) \/ ApproveCompensate(c)
  BY <1>0, <1>5 DEF TypeOK, CallRecord, ApproveDeduct, DeductOrElse, ApproveRequest,
     ApproveCompensate, Return, Goto, At, Syncing, Granted
<1>6. CASE Reject(c)
  BY <1>0, <1>6 DEF TypeOK, CallRecord, Reject, RejectStep, RejectRemaining, RejectRequest,
     Return, Goto, At, Syncing
<1>7. CASE Cancel(c)
  BY <1>0, <1>7 DEF TypeOK, CallRecord, Cancel, CancelUpdate, CancelApprovals, CancelRefund,
     CancelReverse, Return, Goto, At, Syncing
<1>8. CASE Delete(c)
  BY <1>0, <1>8 DEF TypeOK, CallRecord, Delete, DeleteRefund, DeleteReverse, DeleteApprovals,
     DeleteRequest, DeleteRow, Return, Goto, At, Syncing
<1>9. QED
  BY <1>1, <1>2, <1>3, <1>4, <1>5, <1>6, <1>7, <1>8 DEF Continue, Submit, Approve

\* No endpoint starts at one of those statements.
LEMMA StartDoesNotSync ==
  ASSUME TypeOK, NEW c \in Calls, Start(c)
  PROVE  ~Syncing(c)'
<1>1. ASSUME NEW r \in Requests, SubmitStart(c, r) \/ CancelStart(c, r) \/ DeleteStart(c, r)
      PROVE  ~Syncing(c)'
  BY <1>1 DEF TypeOK, SubmitStart, CancelStart, DeleteStart, Begin, Syncing
<1>2. ASSUME NEW r \in Requests, NEW s \in Steps, NEW o \in BOOLEAN,
             ApproveStart(c, r, s, o) \/ RejectStart(c, r, s)
      PROVE  ~Syncing(c)'
  BY <1>2 DEF TypeOK, ApproveStart, RejectStart, Begin, Syncing
<1>3. QED
  BY <1>1, <1>2 DEF Start

\* The attendance rows only grow by those of a request being synced.
LEMMA RowsOnlyFromSync ==
  ASSUME NEW c \in Calls, Start(c) \/ Continue(c)
  PROVE  \/ leaveRows' \subseteq leaveRows
         \/ Syncing(c) /\ leaveRows' = leaveRows \cup Footprint(call[c].r)
<1>1. CASE Start(c)
  BY <1>1 DEF Start, SubmitStart, ApproveStart, RejectStart, CancelStart, DeleteStart
<1>2. CASE Submit(c) \/ SyncRead(c) \/ SyncWrite(c)
  BY <1>2 DEF Submit, SubmitCheckOverlap, SubmitInsert, SubmitRaceCheck, SubmitRollback,
     SubmitCreateApproval, SubmitAutoDeduct, SyncRead, SyncWrite, At, Syncing
<1>3. CASE Approve(c) \/ Reject(c)
  BY <1>3 DEF Approve, ApproveAdvancePrior, ApproveStep, ApproveCountPending,
     ApproveRereadRequest, ApproveDeduct, ApproveRequest, ApproveCompensate, Reject,
     RejectStep, RejectRemaining, RejectRequest
<1>4. CASE Cancel(c) \/ Delete(c)
  BY <1>4 DEF Cancel, CancelUpdate, CancelApprovals, CancelRefund, CancelReverse, Delete,
     DeleteRefund, DeleteReverse, DeleteApprovals, DeleteRequest, ReverseAttendance
<1>5. QED
  BY <1>1, <1>2, <1>3, <1>4 DEF Continue

\* A step keeps the rows, and those about to be written, justified.
LEMMA RowsStep ==
  ASSUME TypeOK, SubmitterAlone, SyncsGranted, LeaveRowsJustified,
         NEW c \in Calls, Start(c) \/ Continue(c)
  PROVE  SyncsGranted' /\ LeaveRowsJustified'
<1>1. \A r \in Requests : Granted(r) => Granted(r)'
  BY GrantedStays
<1>2. \A d \in Calls : call[d].r \in Requests
  BY DEF TypeOK, CallRecord
<1>3. SyncsGranted'
  <2>1. ASSUME NEW d \in Calls, Syncing(d)'
        PROVE  req'[call'[d].r] \in {"approved", "cancelled", "gone"}
    <3>1. CASE d # c
      <4>1. call'[d] = call[d]
        BY <3>1, ActiveShrinks
      <4>2. Syncing(d)
        BY <2>1, <4>1 DEF Syncing
      <4>3. QED
        BY <1>1, <1>2, <4>1, <4>2 DEF SyncsGranted, Granted
    <3>2. CASE d = c
      <4>1. Continue(c)
        BY <2>1, <3>2, StartDoesNotSync
      <4>2. PICK r \in Requests : r = call[c].r
        BY <1>2
      <4>3. call'[c].r = r /\ (Syncing(c) \/ Granted(r)')
        BY <2>1, <3>2, <4>1, <4>2, SyncingStarts DEF Granted
      <4>4. QED
        BY <1>1, <3>2, <4>2, <4>3 DEF SyncsGranted, Granted
    <3>3. QED
      BY <3>1, <3>2
  <2>2. QED
    BY <2>1 DEF SyncsGranted, Granted
<1>4. LeaveRowsJustified'
  <2>1. ASSUME NEW row \in leaveRows'
        PROVE  \E r \in Requests : row \in Footprint(r) /\ Granted(r)
    <3>1. CASE row \in leaveRows
      BY <3>1 DEF LeaveRowsJustified, Granted
    <3>2. CASE row \notin leaveRows
      BY <1>2, <2>1, <3>2, RowsOnlyFromSync DEF SyncsGranted
    <3>3. QED
      BY <3>1, <3>2
  <2>2. QED
    BY <1>1, <2>1 DEF LeaveRowsJustified, Granted, Footprint
<1>5. QED
  BY <1>3, <1>4

\* The call of a row about to be synced, and the rows that have been.
LEMMA SyncsAreGranted == Spec => [](SyncsGranted /\ LeaveRowsJustified)
<1>1. Init => SyncsGranted /\ LeaveRowsJustified
  BY NoCallType DEF Init, SyncsGranted, Syncing, LeaveRowsJustified
<1>2. TypeOK /\ SubmitterAlone /\ SyncsGranted /\ LeaveRowsJustified /\ [Next]_vars
        => SyncsGranted' /\ LeaveRowsJustified'
  <2>1. SyncsGranted /\ LeaveRowsJustified /\ UNCHANGED vars => SyncsGranted' /\ LeaveRowsJustified'
    BY DEF SyncsGranted, Syncing, Granted, LeaveRowsJustified, Footprint, vars
  <2>2. QED
    BY <2>1, RowsStep DEF Next
<1>3. QED
  BY <1>1, <1>2, TypeCorrect, SubmitterIsAlone, PTL DEF Spec

\* Only granted requests ever put rows into the attendance table: whoever loses a
\* race for the decision writes none.
THEOREM RowsAreJustified == Spec => []LeaveRowsJustified
BY SyncsAreGranted, PTL

-----------------------------------------------------------------------------
(* Approvals.                                                              *)

\* c is a submission that has not come to its last statement; it may yet add
\* approval rows; it has approved its step and carries on to the decision.
InSubmission(c) ==
  call[c].pc \in {"checkOverlap", "insert", "raceCheck", "rollback", "createApproval", "autoDeduct"}
Building(c) == call[c].pc \in {"checkOverlap", "insert", "raceCheck", "createApproval"}
Deciding(c) == call[c].pc \in {"countPending", "rereadRequest", "deduct", "approveRequest"}

\* A request is submitted by one call, which adds the rows of its chain in order.
OneSubmission ==
  \A c, d \in Calls : InSubmission(c) /\ InSubmission(d) /\ call[c].r = call[d].r => c = d

StepsToCome ==
  \A c \in Calls : Building(c) =>
    \A s \in Steps : s > call[c].step => appr[call[c].r][s] = "none"

\* A request that is not there has no approval rows.
AbsentBare == \A r \in Requests : req[r] = "absent" => \A s \in Steps : appr[r][s] = "none"

\* The approval a call decides on stands as long as the request does.
StepApproved ==
  \A c \in Calls : Deciding(c) /\ Exists(call[c].r) =>
    call[c].step \in Steps /\ appr[call[c].r][call[c].step] = "approved"

\* Steps are decided in order: a call about to decide a step has no pending step
\* below it, but those an override approves first ...
Ordered ==
  \A c \in Calls : call[c].pc \in {"advancePrior", "approveStep", "rejectStep"} =>
    /\ call[c].step \in Steps
    /\ Exists(call[c].r) => appr[call[c].r][call[c].step] # "none"
    /\ \A p \in call[c].prior : p < call[c].step
    /\ \A p \in Steps : p < call[c].step /\ appr[call[c].r][p] = "pending" =>
         At(c, "advancePrior") /\ p \in call[c].prior

\* ... so nothing below a decided step is pending.
InOrder ==
  \A r \in Requests, s, p \in Steps :
    appr[r][s] \in {"approved", "rejected"} /\ p < s => appr[r][p] # "pending"

Chained == OneSubmission /\ StepsToCome /\ AbsentBare /\ StepApproved /\ Ordered /\ InOrder

\* What a step may do to the approval row of step s of q.
RowStep(c, q, s) ==
  \/ appr'[q][s] = appr[q][s]
  \/ appr[q][s] = "pending" /\ appr'[q][s] \in {"approved", "rejected"}
  \/ appr'[q][s] = "none" /\ req'[q] = "gone"
  \/ /\ q = call[c].r /\ At(c, "createApproval") /\ Exists(q)
     /\ s > call[c].step /\ appr'[q][s] = "pending"
     /\ call'[c].pc = "idle" \/ call'[c].step = s

LEMMA RowEffect ==
  ASSUME TypeOK, NEW c \in Calls, Start(c) \/ Continue(c), NEW q \in Requests, NEW s \in Steps
  PROVE  RowStep(c, q, s)
<1>0. PICK r \in Requests : r = call[c].r
  BY DEF TypeOK, CallRecord
<1>t. call \in [Calls -> CallRecord] /\ appr \in [Requests -> [Steps -> ApprovalStatuses]]
        /\ req \in [Requests -> Statuses]
  BY DEF TypeOK
<1>1. CASE UNCHANGED appr
  BY <1>1 DEF RowStep
<1>2. CASE RejectPending(r)
  BY <1>t, <1>2 DEF RejectPending, RowStep
<1>3. CASE DeleteRow(r)
  BY <1>t, <1>3 DEF DeleteRow, RowStep
<1>4. CASE SubmitCreateApproval(c)
  <2>1. CASE UNCHANGED appr
    BY <2>1 DEF RowStep
  <2>2. CASE ~UNCHANGED appr
    <3>1. PICK t \in Chain[r] :
            /\ t > call[c].step /\ Exists(r)
            /\ appr' = [appr EXCEPT ![r][t] = "pending"]
            /\ Return(c) \/ call' = [call EXCEPT ![c].step = t]
      BY <1>0, <1>4, <2>2 DEF SubmitCreateApproval
    <3>2. call'[c].pc = "idle" \/ call'[c].step = t
      BY <1>t, <3>1, NoCallType DEF Return, CallRecord
    <3>3. q # r \/ s # t => appr'[q][s] = appr[q][s]
      BY <1>t, <3>1
    <3>4. t \in Steps
      BY ConstantsOK
    <3>5. appr'[r][t] = "pending"
      BY <1>t, <3>1, <3>4
    <3>6. QED
      BY <1>0, <1>4, <3>1, <3>2, <3>3, <3>5 DEF RowStep, SubmitCreateApproval
  <2>3. QED
    BY <2>1, <2>2
<1>5. CASE ApproveAdvancePrior(c)
  <2>1. CASE UNCHANGED appr
    BY <2>1 DEF RowStep
  <2>2. CASE ~UNCHANGED appr
    <3>1. PICK p \in call[c].prior :
            appr[r][p] = "pending" /\ appr' = [appr EXCEPT ![r][p] = "approved"]
      BY <1>0, <1>5, <2>2 DEF ApproveAdvancePrior
    <3>2. QED
      BY <1>t, <3>1 DEF RowStep
  <2>3. QED
    BY <2>1, <2>2
<1>6. CASE ApproveStep(c)
  BY <1>0, <1>t, <1>6 DEF ApproveStep, RowStep
<1>7. CASE RejectStep(c)
  BY <1>0, <1>t, <1>7 DEF RejectStep, RowStep
<1>8. \/ UNCHANGED appr \/ RejectPending(r) \/ DeleteRow(r) \/ SubmitCreateApproval(c)
      \/ ApproveAdvancePrior(c) \/ ApproveStep(c) \/ RejectStep(c)
  <2>1. CASE Start(c)
    BY <2>1 DEF Start, SubmitStart, ApproveStart, RejectStart, CancelStart, DeleteStart
  <2>2. CASE Submit(c) \/ SyncRead(c) \/ SyncWrite(c)
    BY <1>0, <2>2 DEF Submit, SubmitCheckOverlap, SubmitInsert, SubmitRaceCheck,
       SubmitRollback, SubmitAutoDeduct, SyncRead, SyncWrite
  <2>3. CASE Approve(c)
    BY <2>3 DEF Approve, ApproveCountPending, ApproveRereadRequest, ApproveDeduct,
       ApproveRequest, ApproveCompensate
  <2>4. CASE Reject(c) \/ Cancel(c) \/ Delete(c)
    BY <1>0, <2>4 DEF Reject, RejectRemaining, RejectRequest, Cancel, CancelUpdate,
       CancelApprovals, CancelRefund, CancelReverse, Delete, DeleteRefund, DeleteReverse,
       DeleteApprovals, DeleteRequest
  <2>5. QED
    BY <2>1, <2>2, <2>3, <2>4 DEF Continue
<1>9. QED
  BY <1>1, <1>2, <1>3, <1>4, <1>5, <1>6, <1>7, <1>8

\* How a request comes to exist, and how it comes to be approved.
LEMMA RequestEffect ==
  ASSUME TypeOK, NEW c \in Calls, Start(c) \/ Continue(c), NEW q \in Requests
  PROVE  /\ req'[q] = "absent" => req[q] = "absent"
         /\ req'[q] # req[q] => q = call[c].r
         /\ req'[q] # req[q] /\ req'[q] = "rejected" => req[q] = "pending" /\ At(c, "rejectRequest")
         /\ req'[q] # req[q] /\ req'[q] = "cancelled" => At(c, "cancelUpdate")
         /\ req'[q] # req[q] /\ req'[q] = "gone" => call[c].pc \in {"rollback", "deleteRow"}
         /\ \/ req'[q] = req[q]
            \/ Exists(q) /\ req'[q] \in {"rejected", "cancelled", "gone"}
            \/ /\ SubmitInsert(c) /\ q = call[c].r
               /\ req'[q] = IF AutoApproved[q] THEN "approved" ELSE "pending"
            \/ At(c, "approveRequest") /\ q = call[c].r /\ req[q] = "pending" /\ req'[q] = "approved"
<1>1. CASE SubmitInsert(c)
  <2>1. req' = [req EXCEPT ![call[c].r] = IF AutoApproved[call[c].r] THEN "approved" ELSE "pending"]
    BY <1>1 DEF SubmitInsert
  <2>2. QED
    BY <1>1, <2>1 DEF TypeOK
<1>2. CASE SubmitRollback(c) \/ DeleteRequest(c)
  BY <1>2 DEF TypeOK, SubmitRollback, DeleteRequest, DeleteRow, Exists, At
<1>3. CASE ApproveRequest(c)
  BY <1>3 DEF TypeOK, ApproveRequest
<1>4. CASE RejectRequest(c) \/ CancelUpdate(c)
  BY <1>4 DEF TypeOK, RejectRequest, CancelUpdate, Active, Exists, At
<1>5. CASE UNCHANGED req
  BY <1>5
<1>6. SubmitInsert(c) \/ SubmitRollback(c) \/ DeleteRequest(c) \/ ApproveRequest(c)
        \/ RejectRequest(c) \/ CancelUpdate(c) \/ UNCHANGED req
  BY StartEffect DEF Continue, Submit, SubmitCheckOverlap, SubmitRaceCheck, SubmitCreateApproval,
     SubmitAutoDeduct, SyncRead, SyncWrite, Approve, ApproveAdvancePrior, ApproveStep,
     ApproveCountPending, ApproveRereadRequest, ApproveDeduct, ApproveCompensate, Reject,
     RejectStep, RejectRemaining, Cancel, CancelApprovals, CancelRefund, CancelReverse,
     Delete, DeleteRefund, DeleteReverse, DeleteApprovals
<1>7. QED
  BY <1>1, <1>2, <1>3, <1>4, <1>5, <1>6

\* How a handler comes to those statements: a submission goes on with its request
\* and its place in the chain, a decision with its request and its step.
LEMMA CarriesOn ==
  ASSUME TypeOK, NEW c \in Calls, Continue(c)
  PROVE  /\ InSubmission(c)' \/ Deciding(c)' => call'[c].r = call[c].r
         /\ InSubmission(c)' => InSubmission(c)
         /\ Building(c)' => Building(c)
         /\ Building(c)' => call'[c].step >= call[c].step
         /\ Deciding(c)' => call'[c].step = call[c].step
                             /\ (Deciding(c) \/ ApproveStep(c))
<1>0. NoCall.pc = "idle" /\ call[c] \in CallRecord /\ call[c].step \in Int
  BY NoCallType, ConstantsOK DEF TypeOK, CallRecord
<1>1. CASE SubmitCheckOverlap(c) \/ SubmitRaceCheck(c) \/ SubmitInsert(c)
  <2>1. CASE SubmitCheckOverlap(c)
    BY <1>0, <2>1 DEF TypeOK, CallRecord, SubmitCheckOverlap, Return, Goto, At, InSubmission,
       Building, Deciding
  <2>2. CASE SubmitRaceCheck(c)
    <3>1. PICK l \in {"rollback", "createApproval", "autoDeduct", "syncRead"} :
            call' = [call EXCEPT ![c].pc = l]
      BY <2>2 DEF SubmitRaceCheck, AfterRaceCheck, Goto
    <3>2. call'[c].pc = l /\ call'[c].r = call[c].r /\ call'[c].step = call[c].step
      BY <1>0, <3>1 DEF TypeOK, CallRecord
    <3>3. QED
      BY <1>0, <2>2, <3>2 DEF SubmitRaceCheck, At, InSubmission, Building, Deciding
  <2>3. CASE SubmitInsert(c)
    BY <1>0, <2>3 DEF TypeOK, CallRecord, SubmitInsert, Goto, At, InSubmission, Building,
       Deciding
  <2>4. QED
    BY <1>1, <2>1, <2>2, <2>3
<1>2. CASE SubmitRollback(c) \/ SubmitAutoDeduct(c) \/ SyncRead(c) \/ SyncWrite(c)
  BY <1>0, <1>2 DEF TypeOK, CallRecord, SubmitRollback, SubmitAutoDeduct, DeductOrElse,
     SyncRead, SyncWrite, Return, Goto, At, InSubmission, Building, Deciding
<1>3. CASE SubmitCreateApproval(c)
  <2>1. CASE Return(c)
    BY <1>0, <2>1 DEF TypeOK, Return, InSubmission, Building, Deciding
  <2>2. CASE ~Return(c)
    <3>1. PICK s \in Chain[call[c].r] :
            s > call[c].step /\ call' = [call EXCEPT ![c].step = s] /\ At(c, "createApproval")
      BY <1>3, <2>2 DEF SubmitCreateApproval
    <3>2. call'[c].pc = "createApproval" /\ call'[c].r = call[c].r /\ call'[c].step = s
      BY <1>0, <3>1 DEF TypeOK, CallRecord, At
    <3>3. s \in Int /\ s >= call[c].step
      BY <1>0, <3>1, ConstantsOK DEF TypeOK, CallRecord, Steps
    <3>4. QED
      BY <3>1, <3>2, <3>3 DEF At, InSubmission, Building, Deciding
  <2>3. QED
    BY <2>1, <2>2
<1>4. CASE Approve(c)
  <2>1. CASE ApproveAdvancePrior(c)
    BY <1>0, <2>1 DEF TypeOK, CallRecord, ApproveAdvancePrior, Return, At, InSubmission,
       Building, Deciding
  <2>2. CASE ApproveStep(c)
    BY <1>0, <2>2 DEF TypeOK, CallRecord, ApproveStep, Return, Goto, InSubmission, Building,
       Deciding
  <2>3. CASE ApproveCountPending(c) \/ ApproveRereadRequest(c)
    BY <1>0, <2>3 DEF TypeOK, CallRecord, ApproveCountPending, ApproveRereadRequest, Return,
       Goto, At, InSubmission, Building, Deciding
  <2>4. CASE ApproveDeduct(c) \/ ApproveRequest(c) \/ ApproveCompensate(c)
    BY <1>0, <2>4 DEF TypeOK, CallRecord, ApproveDeduct, DeductOrElse, ApproveRequest,
       ApproveCompensate, Return, Goto, At, InSubmission, Building, Deciding
  <2>5. QED
    BY <1>4, <2>1, <2>2, <2>3, <2>4 DEF Approve
<1>5. CASE Reject(c)
  BY <1>0, <1>5 DEF TypeOK, CallRecord, Reject, RejectStep, RejectRemaining, RejectRequest,
     Return, Goto, At, InSubmission, Building, Deciding
<1>6. CASE Cancel(c)
  BY <1>0, <1>6 DEF TypeOK, CallRecord, Cancel, CancelUpdate, CancelApprovals, CancelRefund,
     CancelReverse, Return, Goto, At, InSubmission, Building, Deciding
<1>7. CASE Delete(c)
  BY <1>0, <1>7 DEF TypeOK, CallRecord, Delete, DeleteRefund, DeleteReverse, DeleteApprovals,
     DeleteRequest, DeleteRow, Return, Goto, At, InSubmission, Building, Deciding
<1>8. QED
  BY <1>1, <1>2, <1>3, <1>4, <1>5, <1>6, <1>7 DEF Continue, Submit

\* What an endpoint finds when it starts at one of those statements.
LEMMA StartsThere ==
  ASSUME TypeOK, NEW c \in Calls, Start(c)
  PROVE  /\ ~Deciding(c)'
         /\ appr' = appr /\ req' = req
         /\ InSubmission(c)' =>
              /\ req[call'[c].r] = "absent" /\ call'[c].step = 0
              /\ \A d \in Calls : d # c => At(d, "idle") \/ call[d].r # call'[c].r
         /\ call'[c].pc \in {"advancePrior", "approveStep", "rejectStep"} =>
              /\ call'[c].step \in Steps
              /\ appr[call'[c].r][call'[c].step] # "none"
              /\ \A p \in call'[c].prior : p < call'[c].step
              /\ \A p \in Steps : p < call'[c].step /\ appr[call'[c].r][p] = "pending" =>
                   call'[c].pc = "advancePrior" /\ p \in call'[c].prior
<1>t. call \in [Calls -> CallRecord]
  BY DEF TypeOK
<1>1. ASSUME NEW r \in Requests, SubmitStart(c, r)
      PROVE  /\ call'[c].pc = "checkOverlap" /\ call'[c].r = r /\ call'[c].step = 0
             /\ req[r] = "absent" /\ appr' = appr /\ req' = req
             /\ \A d \in Calls : d # c => At(d, "idle") \/ call[d].r # r
  BY <1>t, <1>1 DEF SubmitStart, Begin, At
<1>2. ASSUME NEW r \in Requests, NEW s \in Steps, NEW o \in BOOLEAN, ApproveStart(c, r, s, o)
      PROVE  /\ call'[c].pc \in {"advancePrior", "approveStep"}
             /\ call'[c].r = r /\ call'[c].step = s
             /\ call'[c].prior = {p \in PendingSteps(r) : p < s}
             /\ call'[c].prior # {} => call'[c].pc = "advancePrior"
             /\ appr[r][s] # "none" /\ appr' = appr /\ req' = req
  BY <1>t, <1>2 DEF ApproveStart, Begin
<1>3. ASSUME NEW r \in Requests, NEW s \in Steps, RejectStart(c, r, s)
      PROVE  /\ call'[c].pc = "rejectStep" /\ call'[c].r = r /\ call'[c].step = s
             /\ call'[c].prior = {}
             /\ \A p \in PendingSteps(r) : p >= s
             /\ appr[r][s] # "none" /\ appr' = appr /\ req' = req
  BY <1>t, <1>3 DEF RejectStart, Begin
<1>4. ASSUME NEW r \in Requests, CancelStart(c, r) \/ DeleteStart(c, r)
      PROVE  /\ call'[c].pc \in {"cancelUpdate", "deleteRefund", "deleteApprovals"}
             /\ appr' = appr /\ req' = req
  BY <1>t, <1>4 DEF CancelStart, DeleteStart, Begin
<1>5. CASE \E r \in Requests : SubmitStart(c, r)
  BY <1>1, <1>5 DEF InSubmission, Deciding
<1>6. CASE \E r \in Requests, s \in Steps, o \in BOOLEAN : ApproveStart(c, r, s, o)
  BY <1>2, <1>6 DEF InSubmission, Deciding, PendingSteps
<1>7. CASE \E r \in Requests, s \in Steps : RejectStart(c, r, s)
  <2>1. PICK r \in Requests, s \in Steps : RejectStart(c, r, s)
    BY <1>7
  <2>2. \A p \in Steps : p < s => ~(p >= s)
    BY ConstantsOK DEF Steps
  <2>3. QED
    BY <1>3, <2>1, <2>2 DEF InSubmission, Deciding, PendingSteps
<1>8. CASE \E r \in Requests : CancelStart(c, r) \/ DeleteStart(c, r)
  BY <1>4, <1>8 DEF InSubmission, Deciding
<1>9. QED
  BY <1>5, <1>6, <1>7, <1>8 DEF Start

\* A handler comes to decide a step by its override only, each earlier step it
\* has approved being decided.
LEMMA AdvanceEffect ==
  ASSUME TypeOK, NEW c \in Calls, Continue(c),
         call'[c].pc \in {"advancePrior", "approveStep", "rejectStep"}
  PROVE  /\ At(c, "advancePrior") /\ call'[c].r = call[c].r /\ call'[c].step = call[c].step
         /\ \E p \in call[c].prior :
              /\ call'[c].prior = call[c].prior \ {p}
              /\ call'[c].pc # "advancePrior" => call[c].prior = {p}
              /\ appr'[call[c].r][p] # "pending"
<1>0. NoCall.pc = "idle" /\ call[c] \in CallRecord
  BY NoCallType DEF TypeOK
<1>1. CASE ApproveAdvancePrior(c)
  <2>1. PICK r \in Requests : r = call[c].r
    BY <1>0 DEF CallRecord
  <2>2. ~Return(c)
    BY <1>0 DEF TypeOK, Return
  <2>3. PICK p \in call[c].prior :
          /\ appr' = [appr EXCEPT ![r][p] = "approved"]
          /\ call' = [call EXCEPT ![c].prior = @ \ {p},
                                  ![c].pc = IF call[c].prior = {p} THEN "approveStep" ELSE @]
    BY <1>1, <2>1, <2>2 DEF ApproveAdvancePrior
  <2>4. p \in Steps
    BY <1>0 DEF CallRecord
  <2>5. appr'[r][p] # "pending"
    BY <2>3, <2>4 DEF TypeOK
  <2>6. /\ call'[c].r = call[c].r /\ call'[c].step = call[c].step
        /\ call'[c].prior = call[c].prior \ {p}
        /\ call'[c].pc = IF call[c].prior = {p} THEN "approveStep" ELSE call[c].pc
    BY <1>0, <2>3 DEF TypeOK, CallRecord
  <2>7. QED
    BY <1>1, <2>1, <2>5, <2>6 DEF ApproveAdvancePrior, At
<1>2. CASE SubmitCheckOverlap(c) \/ SubmitInsert(c) \/ SubmitRollback(c) \/ SubmitAutoDeduct(c)
  BY <1>0, <1>2 DEF TypeOK, CallRecord, SubmitCheckOverlap, SubmitInsert, SubmitRollback,
     SubmitAutoDeduct, DeductOrElse, Return, Goto
<1>3. CASE SubmitRaceCheck(c)
  <2>1. PICK l \in {"rollback", "createApproval", "autoDeduct", "syncRead"} :
          call' = [call EXCEPT ![c].pc = l]
    BY <1>3 DEF SubmitRaceCheck, AfterRaceCheck, Goto
  <2>2. QED
    BY <1>0, <2>1 DEF TypeOK, CallRecord
<1>4. CASE SubmitCreateApproval(c)
  <2>1. ASSUME NEW s, call' = [call EXCEPT ![c].step = s]
        PROVE  call'[c].pc = call[c].pc
    BY <1>0, <2>1 DEF TypeOK, CallRecord
  <2>2. Return(c) => call'[c] = NoCall
    BY DEF TypeOK, Return
  <2>3. call'[c].pc \in {"idle", "createApproval"}
    BY <1>0, <1>4, <2>1, <2>2 DEF SubmitCreateApproval, At
  <2>4. QED
    BY <2>3
<1>5. CASE SyncRead(c) \/ SyncWrite(c)
  BY <1>0, <1>5 DEF TypeOK, CallRecord, SyncRead, SyncWrite, Return, Goto
<1>6. CASE ApproveStep(c) \/ ApproveCountPending(c) \/ ApproveRereadRequest(c)
  BY <1>0, <1>6 DEF TypeOK, CallRecord, ApproveStep, ApproveCountPending,
     ApproveRereadRequest, Return, Goto
<1>7. CASE ApproveDeduct(c) \/ ApproveRequest(c) \/ ApproveCompensate(c)
  BY <1>0, <1>7 DEF TypeOK, CallRecord, ApproveDeduct, DeductOrElse, ApproveRequest,
     ApproveCompensate, Return, Goto
<1>8. CASE Reject(c) \/ Cancel(c)
  BY <1>0, <1>8 DEF TypeOK, CallRecord, Reject, RejectStep, RejectRemaining, RejectRequest,
     Cancel, CancelUpdate, CancelApprovals, CancelRefund, CancelReverse, Return, Goto
<1>9. CASE Delete(c)
  BY <1>0, <1>9 DEF TypeOK, CallRecord, Delete, DeleteRefund, DeleteReverse, DeleteApprovals,
     DeleteRequest, DeleteRow, Return, Goto
<1>10. QED
  BY <1>1, <1>2, <1>3, <1>4, <1>5, <1>6, <1>7, <1>8, <1>9 DEF Continue, Submit, Approve

\* A row is inserted by nobody but its own submission: for every other call a
\* request exists after a step only if it did before.
LEMMA ExistsBefore ==
  ASSUME TypeOK, SubmitterAlone, NEW c \in Calls, Start(c) \/ Continue(c),
         NEW d \in Calls, NEW r \in Requests,
         call[d].r = r, ~At(d, "idle"), ~At(d, "insert"), Exists(r)'
  PROVE  Exists(r)
<1>1. CASE SubmitInsert(c) /\ r = call[c].r
  BY <1>1 DEF SubmitterAlone, SubmitInsert, At
<1>2. CASE ~(SubmitInsert(c) /\ r = call[c].r)
  BY <1>2, RequestEffect DEF Exists
<1>3. QED
  BY <1>1, <1>2

\* The invariant of the approval rows, part by part.
LEMMA OneSubmissionStep ==
  ASSUME TypeOK, OneSubmission, NEW c \in Calls, Start(c) \/ Continue(c)
  PROVE  OneSubmission'
<1>1. \A d \in Calls : d # c => call'[d] = call[d]
  BY ActiveShrinks
<1>2. ASSUME NEW d \in Calls, d # c, InSubmission(c)', InSubmission(d)', call'[c].r = call'[d].r
      PROVE  FALSE
  <2>1. call'[d] = call[d] /\ InSubmission(d) /\ ~At(d, "idle")
    BY <1>1, <1>2 DEF InSubmission, At
  <2>2. CASE Start(c)
    BY <1>2, <2>1, <2>2, StartsThere
  <2>3. CASE Continue(c)
    BY <1>2, <2>1, <2>3, CarriesOn DEF OneSubmission
  <2>4. QED
    BY <2>2, <2>3
<1>3. ASSUME NEW d \in Calls, NEW e \in Calls, d # c, e # c,
             InSubmission(d)', InSubmission(e)', call'[d].r = call'[e].r
      PROVE  d = e
  BY <1>1, <1>3 DEF OneSubmission, InSubmission
<1>4. ASSUME NEW d \in Calls, NEW e \in Calls,
             InSubmission(d)', InSubmission(e)', call'[d].r = call'[e].r
      PROVE  d = e
  BY <1>2, <1>3, <1>4
<1>5. QED
  BY <1>4 DEF OneSubmission, InSubmission

LEMMA StepsToComeStep ==
  ASSUME TypeOK, Chained, NEW c \in Calls, Start(c) \/ Continue(c)
  PROVE  StepsToCome'
<1>1. \A d \in Calls : d # c => call'[d] = call[d]
  BY ActiveShrinks
<1>2. ASSUME NEW d \in Calls, Building(d)', NEW s \in Steps, s > call'[d].step
      PROVE  appr'[call'[d].r][s] = "none"
  <2>0. InSubmission(d)'
    BY <1>2 DEF Building, InSubmission
  <2>1. PICK r : r = call'[d].r
    OBVIOUS
  <2>2. CASE d # c
    <3>1. Building(d) /\ InSubmission(d) /\ call[d].r = r /\ call'[d] = call[d]
      BY <1>1, <1>2, <2>1, <2>2 DEF Building, InSubmission
    <3>2. r \in Requests /\ appr[r][s] = "none"
      BY <1>2, <3>1 DEF TypeOK, CallRecord, Chained, StepsToCome
    <3>3. ~(r = call[c].r /\ At(c, "createApproval"))
      BY <2>2, <3>1 DEF Chained, OneSubmission, InSubmission, At
    <3>4. QED
      BY <2>1, <3>2, <3>3, RowEffect DEF RowStep
  <2>3. CASE d = c /\ Start(c)
    <3>1. req[r] = "absent" /\ appr' = appr
      BY <2>0, <2>1, <2>3, StartsThere
    <3>2. r \in Requests
      BY <2>1, <2>3, StartType DEF TypeOK, CallRecord
    <3>3. QED
      BY <2>1, <3>1, <3>2 DEF Chained, AbsentBare
  <2>4. CASE d = c /\ Continue(c)
    <3>1. Building(c) /\ call[c].r = r /\ call'[c].step >= call[c].step
      BY <1>2, <2>0, <2>1, <2>4, CarriesOn
    <3>2. call'[c] \in CallRecord /\ call[c] \in CallRecord
      BY <2>4, SubmitType, ApproveType, DecideType DEF Continue, TypeOK
    <3>3. s > call[c].step
      BY <1>2, <2>4, <3>1, <3>2, ConstantsOK DEF CallRecord, Steps
    <3>4. r \in Requests /\ appr[r][s] = "none"
      BY <3>1, <3>2, <3>3 DEF CallRecord, Chained, StepsToCome
    <3>5. ~(call'[c].pc = "idle" \/ call'[c].step = s)
      BY <1>2, <2>4, <3>2, ConstantsOK DEF Building, CallRecord, Steps
    <3>6. QED
      BY <2>1, <2>4, <3>4, <3>5, RowEffect DEF RowStep
  <2>5. QED
    BY <2>2, <2>3, <2>4
<1>3. QED
  BY <1>2 DEF StepsToCome, Building

LEMMA AbsentBareStep ==
  ASSUME TypeOK, AbsentBare, NEW c \in Calls, Start(c) \/ Continue(c)
  PROVE  AbsentBare'
<1>1. ASSUME NEW r \in Requests, req'[r] = "absent", NEW s \in Steps
      PROVE  appr'[r][s] = "none"
  <2>1. req[r] = "absent" /\ appr[r][s] = "none"
    BY <1>1, RequestEffect DEF AbsentBare
  <2>2. QED
    BY <1>1, <2>1, RowEffect DEF RowStep, Exists
<1>2. QED
  BY <1>1 DEF AbsentBare

\* An approved row of a request that exists stays approved.
LEMMA ApprovedStays ==
  ASSUME TypeOK, Chained, NEW c \in Calls, Start(c) \/ Continue(c),
         NEW r \in Requests, NEW s \in Steps, appr[r][s] = "approved", Exists(r)'
  PROVE  appr'[r][s] = "approved"
<1>1. ~(r = call[c].r /\ At(c, "createApproval") /\ s > call[c].step)
  BY DEF Chained, StepsToCome, Building, At
<1>2. QED
  BY <1>1, RowEffect DEF RowStep, Exists

LEMMA StepApprovedStep ==
  ASSUME TypeOK, SubmitterAlone, Chained, NEW c \in Calls, Start(c) \/ Continue(c)
  PROVE  StepApproved'
<1>1. \A d \in Calls : d # c => call'[d] = call[d]
  BY ActiveShrinks
<1>2. ASSUME NEW d \in Calls, NEW r \in Requests, Deciding(d), call[d].r = r, Exists(r)'
      PROVE  call[d].step \in Steps /\ appr'[r][call[d].step] = "approved"
  <2>1. Exists(r)
    BY <1>2, ExistsBefore DEF Deciding, At
  <2>2. PICK s \in Steps : s = call[d].step /\ appr[r][s] = "approved"
    BY <1>2, <2>1 DEF Chained, StepApproved
  <2>3. QED
    BY <1>2, <2>2, ApprovedStays
<1>3. ASSUME NEW d \in Calls, NEW r \in Requests, Deciding(d)', call'[d].r = r, Exists(r)'
      PROVE  call'[d].step \in Steps /\ appr'[r][call'[d].step] = "approved"
  <2>1. CASE d # c
    BY <1>1, <1>2, <1>3, <2>1 DEF Deciding
  <2>2. CASE d = c /\ Start(c)
    BY <1>3, <2>2, StartsThere
  <2>3. CASE d = c /\ Continue(c)
    <3>1. call[c].r = r /\ call'[c].step = call[c].step /\ (Deciding(c) \/ ApproveStep(c))
      BY <1>3, <2>3, CarriesOn
    <3>2. CASE Deciding(c)
      BY <1>2, <1>3, <2>3, <3>1, <3>2
    <3>3. CASE ApproveStep(c)
      <4>1. call[c].step \in Steps
        BY <3>3 DEF Chained, Ordered, ApproveStep, At
      <4>2. ~Return(c)
        BY <1>3, <2>3, NoCallType DEF TypeOK, Return, Deciding
      <4>3. appr' = [appr EXCEPT ![r][call[c].step] = "approved"]
        BY <3>1, <3>3, <4>2 DEF ApproveStep
      <4>4. QED
        BY <2>3, <3>1, <4>1, <4>3 DEF TypeOK
    <3>4. QED
      BY <3>1, <3>2, <3>3
  <2>4. QED
    BY <2>1, <2>2, <2>3
<1>4. \A d \in Calls : call'[d].r \in Requests
  BY StartType, SubmitType, ApproveType, DecideType DEF Continue, TypeOK, CallRecord
<1>5. ASSUME NEW d \in Calls, Deciding(d)', req'[call'[d].r] \notin {"absent", "gone"}
      PROVE  call'[d].step \in Steps /\ appr'[call'[d].r][call'[d].step] = "approved"
  <2>1. PICK r \in Requests : r = call'[d].r
    BY <1>4
  <2>2. QED
    BY <1>3, <1>5, <2>1 DEF Exists
<1>6. QED
  BY <1>5 DEF StepApproved, Exists, Deciding

\* Once there, a row is removed only together with its request.
LEMMA RowStays ==
  ASSUME TypeOK, NEW c \in Calls, Start(c) \/ Continue(c),
         NEW r \in Requests, NEW s \in Steps, appr[r][s] # "none", Exists(r)'
  PROVE  appr'[r][s] # "none"
BY RowEffect DEF RowStep, Exists

\* A row below one that is there does not become pending any more.
LEMMA NoNewBelow ==
  ASSUME TypeOK, Chained, NEW c \in Calls, Start(c) \/ Continue(c),
         NEW r \in Requests, NEW s \in Steps, NEW p \in Steps, p < s,
         Exists(r) => appr[r][s] # "none",
         appr'[r][p] = "pending"
  PROVE  appr[r][p] = "pending"
<1>1. ASSUME At(c, "createApproval"), r = call[c].r, Exists(r), p > call[c].step
      PROVE  FALSE
  <2>1. s > call[c].step
    BY <1>1, ConstantsOK DEF TypeOK, CallRecord, Steps
  <2>2. QED
    BY <1>1, <2>1 DEF Chained, StepsToCome, Building, At
<1>2. QED
  BY <1>1, RowEffect DEF RowStep

LEMMA OrderedStep ==
  ASSUME TypeOK, SubmitterAlone, Chained, NEW c \in Calls, Start(c) \/ Continue(c)
  PROVE  Ordered'
<1> DEFINE Doing == {"advancePrior", "approveStep", "rejectStep"}
<1>1. \A d \in Calls : d # c => call'[d] = call[d]
  BY ActiveShrinks
<1>2. \A d \in Calls : call[d] \in CallRecord /\ call'[d] \in CallRecord
  BY StartType, SubmitType, ApproveType, DecideType DEF Continue, TypeOK
<1>3. ASSUME NEW d \in Calls, NEW r \in Requests, call[d].pc \in Doing, call[d].r = r
      PROVE  /\ call[d].step \in Steps
             /\ Exists(r)' => appr'[r][call[d].step] # "none"
             /\ \A p \in call[d].prior : p < call[d].step
             /\ \A p \in Steps : p < call[d].step /\ appr'[r][p] = "pending" =>
                  At(d, "advancePrior") /\ p \in call[d].prior
  <2>1. PICK s \in Steps : s = call[d].step /\ (Exists(r) => appr[r][s] # "none")
    BY <1>3 DEF Chained, Ordered
  <2>2. Exists(r)' => Exists(r)
    BY <1>3, ExistsBefore DEF At
  <2>3. Exists(r)' => appr'[r][s] # "none"
    BY <2>1, <2>2, RowStays
  <2>4. \A p \in Steps : p < s /\ appr'[r][p] = "pending" => appr[r][p] = "pending"
    BY <2>1, NoNewBelow
  <2>5. QED
    BY <1>3, <2>1, <2>3, <2>4 DEF Chained, Ordered
<1>4. ASSUME NEW d \in Calls, NEW r \in Requests, call'[d].pc \in Doing, call'[d].r = r
      PROVE  /\ call'[d].step \in Steps
             /\ Exists(r)' => appr'[r][call'[d].step] # "none"
             /\ \A p \in call'[d].prior : p < call'[d].step
             /\ \A p \in Steps : p < call'[d].step /\ appr'[r][p] = "pending" =>
                  call'[d].pc = "advancePrior" /\ p \in call'[d].prior
  <2>1. CASE d # c
    BY <1>1, <1>3, <1>4, <2>1 DEF At
  <2>2. CASE d = c /\ Start(c)
    BY <1>4, <2>2, StartsThere
  <2>3. CASE d = c /\ Continue(c)
    <3>1. At(c, "advancePrior") /\ call[c].r = r /\ call'[c].step = call[c].step
      BY <1>4, <2>3, AdvanceEffect
    <3>2. PICK p \in call[c].prior :
            /\ call'[c].prior = call[c].prior \ {p}
            /\ call'[c].pc # "advancePrior" => call[c].prior = {p}
            /\ appr'[r][p] # "pending"
      BY <1>4, <2>3, <3>1, AdvanceEffect
    <3>3. /\ call[c].step \in Steps
          /\ Exists(r)' => appr'[r][call[c].step] # "none"
          /\ \A q \in call[c].prior : q < call[c].step
          /\ \A q \in Steps : q < call[c].step /\ appr'[r][q] = "pending" => q \in call[c].prior
      BY <1>3, <3>1 DEF At
    <3>4. QED
      BY <2>3, <3>1, <3>2, <3>3
  <2>4. QED
    BY <2>1, <2>2, <2>3
<1>5. ASSUME NEW d \in Calls, call'[d].pc \in Doing
      PROVE  /\ call'[d].step \in Steps
             /\ req'[call'[d].r] \notin {"absent", "gone"} => appr'[call'[d].r][call'[d].step] # "none"
             /\ \A p \in call'[d].prior : p < call'[d].step
             /\ \A p \in Steps : p < call'[d].step /\ appr'[call'[d].r][p] = "pending" =>
                  call'[d].pc = "advancePrior" /\ p \in call'[d].prior
  <2>1. PICK r \in Requests : r = call'[d].r
    BY <1>2 DEF CallRecord
  <2>2. QED
    BY <1>4, <1>5, <2>1 DEF Exists
<1>6. QED
  BY <1>5 DEF Ordered, Exists, At

\* A pending row is decided by a call that leaves nothing pending below it.
LEMMA DecidesInOrder ==
  ASSUME TypeOK, Chained, NEW c \in Calls, Start(c) \/ Continue(c),
         NEW r \in Requests, NEW s \in Steps, NEW p \in Steps, p < s,
         appr[r][s] = "pending", appr'[r][s] \in {"approved", "rejected"}
  PROVE  appr'[r][p] # "pending"
<1>0. appr \in [Requests -> [Steps -> ApprovalStatuses]] /\ call[c] \in CallRecord
  BY DEF TypeOK
<1>1. CASE RejectPending(r)
  BY <1>0, <1>1 DEF RejectPending
<1>2. CASE ApproveAdvancePrior(c)
  <2>1. PICK q \in call[c].prior :
          /\ \A t \in call[c].prior : q <= t
          /\ appr' = [appr EXCEPT ![call[c].r][q] = "approved"]
    BY <1>2 DEF ApproveAdvancePrior
  <2>2. r = call[c].r /\ s = q /\ appr'[r][p] = appr[r][p]
    BY <1>0, <2>1, ConstantsOK DEF Steps
  <2>3. s < call[c].step
    BY <1>2, <2>1, <2>2 DEF Chained, Ordered, ApproveAdvancePrior, At
  <2>4. p < call[c].step /\ ~(s <= p)
    BY <1>0, <2>3, ConstantsOK DEF CallRecord, Steps
  <2>5. appr[r][p] = "pending" => p \in call[c].prior
    BY <1>2, <2>2, <2>4 DEF Chained, Ordered, ApproveAdvancePrior, At
  <2>6. QED
    BY <2>1, <2>2, <2>4, <2>5
<1>3. CASE ApproveStep(c) \/ RejectStep(c)
  <2>0. PICK v \in {"approved", "rejected"} :
          appr' = [appr EXCEPT ![call[c].r][call[c].step] = v]
    BY <1>3 DEF ApproveStep, RejectStep
  <2>1. r = call[c].r /\ s = call[c].step /\ appr'[r][p] = appr[r][p]
    BY <1>0, <2>0, ConstantsOK DEF CallRecord, Steps
  <2>2. QED
    BY <1>3, <2>1 DEF Chained, Ordered, ApproveStep, RejectStep, At
<1>4. \/ RejectPending(r) \/ ApproveAdvancePrior(c) \/ ApproveStep(c) \/ RejectStep(c)
  <2>1. appr'[r][s] # appr[r][s]
    OBVIOUS
  <2>2. CASE Start(c)
    BY <2>1, <2>2, StartsThere
  <2>3. CASE SubmitCreateApproval(c)
    <3>1. PICK t \in Chain[call[c].r] : appr' = [appr EXCEPT ![call[c].r][t] = "pending"]
      BY <2>1, <2>3 DEF SubmitCreateApproval
    <3>2. QED
      BY <1>0, <3>1
  <2>4. CASE SubmitRollback(c) \/ DeleteRequest(c)
    BY <1>0, <2>1, <2>4 DEF SubmitRollback, DeleteRequest, DeleteRow
  <2>5. CASE RejectRemaining(c) \/ CancelApprovals(c) \/ DeleteApprovals(c)
    <3>1. RejectPending(call[c].r)
      BY <2>5 DEF RejectRemaining, CancelApprovals, DeleteApprovals
    <3>2. r = call[c].r
      BY <1>0, <2>1, <3>1 DEF RejectPending, CallRecord
    <3>3. QED
      BY <3>1, <3>2
  <2>6. CASE UNCHANGED appr
    BY <2>1, <2>6
  <2>7. CASE Submit(c) \/ SyncRead(c) \/ SyncWrite(c)
    BY <2>3, <2>4, <2>6, <2>7 DEF Submit, SubmitCheckOverlap, SubmitInsert, SubmitRaceCheck,
       SubmitAutoDeduct, SyncRead, SyncWrite
  <2>8. CASE Approve(c)
    BY <2>6, <2>8 DEF Approve, ApproveCountPending, ApproveRereadRequest, ApproveDeduct,
       ApproveRequest, ApproveCompensate
  <2>9. CASE Reject(c) \/ Cancel(c) \/ Delete(c)
    BY <2>4, <2>5, <2>6, <2>9 DEF Reject, RejectRequest, Cancel, CancelUpdate, CancelRefund,
       CancelReverse, Delete, DeleteRefund, DeleteReverse
  <2>10. QED
    BY <2>2, <2>7, <2>8, <2>9 DEF Continue
<1>5. QED
  BY <1>1, <1>2, <1>3, <1>4

LEMMA InOrderStep ==
  ASSUME TypeOK, Chained, NEW c \in Calls, Start(c) \/ Continue(c)
  PROVE  InOrder'
<1>1. ASSUME NEW r \in Requests, NEW s \in Steps, NEW p \in Steps, p < s,
             appr'[r][s] \in {"approved", "rejected"}
      PROVE  appr'[r][p] # "pending"
  <2>1. CASE appr[r][s] = "pending"
    BY <1>1, <2>1, DecidesInOrder
  <2>2. CASE appr[r][s] # "pending"
    <3>1. appr[r][s] \in {"approved", "rejected"}
      BY <1>1, <2>2, RowEffect DEF RowStep
    <3>2. appr[r][p] # "pending"
      BY <1>1, <3>1 DEF Chained, InOrder
    <3>3. QED
      BY <1>1, <3>1, <3>2, NoNewBelow
  <2>3. QED
    BY <2>1, <2>2
<1>2. QED
  BY <1>1 DEF InOrder

\* Every part together is inductive, and it is an invariant.
LEMMA ChainedAlways == Spec => []Chained
<1>1. Init => Chained
  BY NoCallType DEF Init, Chained, OneSubmission, InSubmission, StepsToCome, Building,
     AbsentBare, StepApproved, Deciding, Ordered, InOrder
<1>2. TypeOK /\ SubmitterAlone /\ Chained /\ [Next]_vars => Chained'
  <2>1. ASSUME TypeOK, SubmitterAlone, Chained, NEW c \in Calls, Start(c) \/ Continue(c)
        PROVE  Chained'
    <3>1. OneSubmission' /\ AbsentBare'
      BY <2>1, OneSubmissionStep, AbsentBareStep DEF Chained
    <3>2. StepsToCome' /\ StepApproved'
      BY <2>1, StepsToComeStep, StepApprovedStep
    <3>3. Ordered' /\ InOrder'
      BY <2>1, OrderedStep, InOrderStep
    <3>4. QED
      BY <3>1, <3>2, <3>3 DEF Chained
  <2>2. Chained /\ UNCHANGED vars => Chained'
    BY DEF Chained, OneSubmission, InSubmission, StepsToCome, Building, AbsentBare,
       StepApproved, Deciding, Exists, Ordered, At, InOrder, vars
  <2>3. QED
    BY <2>1, <2>2 DEF Next
<1>3. QED
  BY <1>1, <1>2, TypeCorrect, SubmitterIsAlone, PTL DEF Spec

\* A request that went through a chain is approved only with an approval: retried
\* or racing calls approve none whose every step was refused.
THEOREM ApprovedByHand == Spec => []ApprovalWitness
<1>1. Init => ApprovalWitness
  BY DEF Init, ApprovalWitness
<1>2. TypeOK /\ SubmitterAlone /\ Chained /\ ApprovalWitness /\ [Next]_vars => ApprovalWitness'
  <2>1. ASSUME TypeOK, SubmitterAlone, Chained, ApprovalWitness, NEW c \in Calls,
               Start(c) \/ Continue(c),
               NEW r \in Requests, req'[r] = "approved", ~AutoApproved[r]
        PROVE  \E s \in Steps : appr'[r][s] = "approved"
    <3>1. req[r] = "approved" \/ (At(c, "approveRequest") /\ r = call[c].r /\ req[r] = "pending")
      BY <2>1, RequestEffect
    <3>2. CASE req[r] = "approved"
      BY <2>1, <3>2, ApprovedStays DEF ApprovalWitness, Exists
    <3>3. CASE At(c, "approveRequest") /\ r = call[c].r /\ req[r] = "pending"
      <4>1. call[c].step \in Steps /\ appr[r][call[c].step] = "approved"
        BY <2>1, <3>3 DEF Chained, StepApproved, Deciding, At, Exists
      <4>2. QED
        BY <2>1, <4>1, ApprovedStays DEF Exists
    <3>4. QED
      BY <3>1, <3>2, <3>3
  <2>2. ApprovalWitness /\ UNCHANGED vars => ApprovalWitness'
    BY DEF ApprovalWitness, vars
  <2>3. QED
    BY <2>1, <2>2 DEF Next, ApprovalWitness
<1>3. QED
  BY <1>1, <1>2, TypeCorrect, SubmitterIsAlone, ChainedAlways, PTL DEF Spec

-----------------------------------------------------------------------------
(* Decisions carried through.                                              *)

\* Whatever a final approval is about to charge is there: deductBalance succeeds.
\* Where it does not, approveRequest throws with every step approved and the
\* request pending for good.
BalanceSuffices ==
  \A c \in Calls : At(c, "deduct") => bal[Owner[call[c].r]] >= Days[call[c].r]

\* The call settles its request: it decides it, rejects it, deletes it, or is
\* still about to add approval rows.
Finishing(c) ==
  InSubmission(c) \/ Deciding(c) \/ call[c].pc \in {"rejectRemaining", "rejectRequest", "deleteRow"}

\* Cancelling rejects the pending steps of a request that is cancelled already.
CancelledFirst ==
  \A c \in Calls : At(c, "cancelApprovals") => req[call[c].r] \in {"cancelled", "gone"}

\* Once no step of a waiting request is pending, some call settles the request.
SomebodyFinishes ==
  \A r \in Requests : req[r] = "pending" /\ PendingSteps(r) = {} =>
    \E c \in Calls : call[c].r = r /\ Finishing(c)

LEMMA CancelledFirstStep ==
  ASSUME TypeOK, SubmitterAlone, CancelledFirst, NEW c \in Calls, Start(c) \/ Continue(c)
  PROVE  CancelledFirst'
<1>0. NoCall.pc = "idle" /\ call[c] \in CallRecord
  BY NoCallType DEF TypeOK
<1>1. \A d \in Calls : d # c => call'[d] = call[d]
  BY ActiveShrinks
<1>2. \A r \in Requests : req[r] \in {"cancelled", "gone"} => req'[r] \in {"cancelled", "gone"}
  BY DecisionStep DEF StatusStep
<1>3. ASSUME At(c, "cancelApprovals")'
      PROVE  CancelUpdate(c) /\ ~Return(c)
  <2>1. ~Return(c)
    BY <1>0, <1>3 DEF TypeOK, Return, At
  <2>2. CASE Start(c)
    BY <1>3, <2>2 DEF TypeOK, Start, SubmitStart, ApproveStart, RejectStart, CancelStart,
       DeleteStart, Begin, At
  <2>3. CASE SubmitCreateApproval(c)
    <3>1. PICK s : call' = [call EXCEPT ![c].step = s]
      BY <2>1, <2>3 DEF SubmitCreateApproval
    <3>2. QED
      BY <1>0, <1>3, <2>3, <3>1 DEF TypeOK, CallRecord, SubmitCreateApproval, At
  <2>4. CASE ApproveAdvancePrior(c)
    BY <1>0, <1>3, <2>1, <2>4 DEF TypeOK, CallRecord, ApproveAdvancePrior, At
  <2>5. CASE CancelUpdate(c)
    BY <2>1, <2>5
  <2>6. CASE \E l \in Labels \ {"cancelApprovals"} : Goto(c, l)
    BY <1>0, <1>3, <2>6 DEF TypeOK, CallRecord, Goto, At
  <2>7. CASE Submit(c) \/ SyncRead(c) \/ SyncWrite(c)
    BY <2>1, <2>3, <2>6, <2>7 DEF Submit, SubmitCheckOverlap, SubmitInsert, SubmitRaceCheck,
       AfterRaceCheck, SubmitRollback, SubmitAutoDeduct, DeductOrElse, SyncRead, SyncWrite, Labels
  <2>8. CASE Approve(c)
    BY <2>1, <2>4, <2>6, <2>8 DEF Approve, ApproveStep, ApproveCountPending,
       ApproveRereadRequest, ApproveDeduct, DeductOrElse, ApproveRequest, ApproveCompensate, Labels
  <2>9. CASE Reject(c) \/ Cancel(c) \/ Delete(c)
    BY <2>1, <2>5, <2>6, <2>9 DEF Reject, RejectStep, RejectRemaining, RejectRequest, Cancel,
       CancelApprovals, CancelRefund, CancelReverse, Delete, DeleteRefund, DeleteReverse,
       DeleteApprovals, DeleteRequest, Labels
  <2>10. QED
    BY <2>2, <2>7, <2>8, <2>9 DEF Continue
<1>4. ASSUME NEW d \in Calls, At(d, "cancelApprovals")'
      PROVE  req'[call'[d].r] \in {"cancelled", "gone"}
  <2>1. CASE d # c
    <3>1. call'[d] = call[d] /\ call[d].r \in Requests
      BY <1>1, <2>1 DEF TypeOK, CallRecord
    <3>2. QED
      BY <1>2, <1>4, <3>1 DEF CancelledFirst, At
  <2>2. CASE d = c
    <3>1. req' = [req EXCEPT ![call[c].r] = "cancelled"] /\ Goto(c, "cancelApprovals")
      BY <1>3, <1>4, <2>2 DEF CancelUpdate
    <3>2. QED
      BY <1>0, <2>2, <3>1 DEF TypeOK, CallRecord, Goto
  <2>3. QED
    BY <2>1, <2>2
<1>5. QED
  BY <1>4 DEF CancelledFirst, At

\* Where a call stands after Goto.
LEMMA GotoPlace ==
  ASSUME TypeOK, NEW c \in Calls, NEW l, Goto(c, l)
  PROVE  call'[c].pc = l /\ call'[c].r = call[c].r
BY DEF TypeOK, CallRecord, Goto

\* The call that settles a waiting request without pending steps goes on to.
LEMMA FinishingGoesOn ==
  ASSUME TypeOK, SubmitterAlone, SyncsGranted, BalanceSuffices,
         NEW c \in Calls, Start(c) \/ Continue(c), Finishing(c),
         NEW r \in Requests, call[c].r = r, req[r] = "pending", req'[r] = "pending",
         PendingSteps(r) = {}, PendingSteps(r)' = {}
  PROVE  call'[c].r = r /\ Finishing(c)'
<1>1. ~At(c, "checkOverlap") /\ ~At(c, "insert")
  BY DEF SubmitterAlone, At
<1>2. ~At(c, "autoDeduct") /\ (At(c, "raceCheck") => ~AutoApproved[r])
  BY DEF SyncsGranted, Syncing, Granted, At
<1>3. CASE SubmitRaceCheck(c)
  <2>1. PICK l \in {"rollback", "createApproval"} : Goto(c, l)
    BY <1>2, <1>3 DEF SubmitRaceCheck, AfterRaceCheck
  <2>2. QED
    BY <2>1, GotoPlace DEF Finishing, InSubmission
<1>4. CASE SubmitRollback(c) \/ DeleteRequest(c)
  BY <1>4 DEF TypeOK, SubmitRollback, DeleteRequest, Exists, DeleteRow
<1>5. CASE SubmitCreateApproval(c)
  <2>1. PICK s \in Chain[r] : appr' = [appr EXCEPT ![r][s] = "pending"]
    BY <1>5 DEF SubmitCreateApproval, Exists
  <2>2. s \in Steps
    BY ConstantsOK
  <2>3. appr'[r][s] = "pending"
    BY <2>1, <2>2 DEF TypeOK
  <2>4. QED
    BY <2>2, <2>3 DEF PendingSteps
<1>6. CASE ApproveCountPending(c)
  BY <1>6, GotoPlace DEF ApproveCountPending, Finishing, Deciding
<1>7. CASE ApproveRereadRequest(c)
  BY <1>7, GotoPlace DEF ApproveRereadRequest, Finishing, Deciding
<1>8. CASE ApproveDeduct(c)
  <2>1. bal[Owner[r]] >= Days[r]
    BY <1>8 DEF BalanceSuffices, ApproveDeduct
  <2>2. ~(bal[Owner[r]] < Days[r])
    BY <2>1, ConstantsOK DEF TypeOK
  <2>3. Goto(c, "approveRequest")
    BY <1>8, <2>2 DEF ApproveDeduct, DeductOrElse
  <2>4. QED
    BY <2>3, GotoPlace DEF Finishing, Deciding
<1>9. CASE ApproveRequest(c) \/ RejectRequest(c)
  BY <1>9 DEF TypeOK, ApproveRequest, RejectRequest
<1>10. CASE RejectRemaining(c)
  BY <1>10, GotoPlace DEF RejectRemaining, Finishing
<1>11. \/ SubmitRaceCheck(c) \/ SubmitRollback(c) \/ DeleteRequest(c) \/ SubmitCreateApproval(c)
       \/ ApproveCountPending(c) \/ ApproveRereadRequest(c) \/ ApproveDeduct(c)
       \/ ApproveRequest(c) \/ RejectRequest(c) \/ RejectRemaining(c)
  <2>1. call[c].pc \in {"raceCheck", "rollback", "createApproval", "countPending",
           "rereadRequest", "deduct", "approveRequest", "rejectRemaining", "rejectRequest", "deleteRow"}
    BY <1>1, <1>2 DEF Finishing, InSubmission, Deciding, At
  <2>2. ~Start(c)
    BY <2>1 DEF Start, SubmitStart, ApproveStart, RejectStart, CancelStart, DeleteStart, Begin, At
  <2>3. ~SyncRead(c) /\ ~SyncWrite(c) /\ ~Cancel(c)
    BY <2>1 DEF SyncRead, SyncWrite, Cancel, CancelUpdate, CancelApprovals, CancelRefund,
       CancelReverse, At
  <2>4. QED
    BY <2>1, <2>2, <2>3 DEF Continue, Submit, SubmitCheckOverlap, SubmitInsert, SubmitAutoDeduct,
       Approve, ApproveAdvancePrior, ApproveStep, ApproveCompensate, Reject, RejectStep, Delete,
       DeleteRefund, DeleteReverse, DeleteApprovals, At
<1>12. QED
  BY <1>3, <1>4, <1>5, <1>6, <1>7, <1>8, <1>9, <1>10, <1>11

\* The call that decides the last pending step of a waiting request settles it.
LEMMA LastDeciderFinishes ==
  ASSUME TypeOK, Chained, CancelledFirst, NEW c \in Calls, Start(c) \/ Continue(c),
         NEW r \in Requests, req[r] = "pending", req'[r] = "pending",
         PendingSteps(r) # {}, PendingSteps(r)' = {}
  PROVE  call'[c].r = r /\ Finishing(c)'
<1>0. appr \in [Requests -> [Steps -> ApprovalStatuses]] /\ call[c] \in CallRecord
  BY DEF TypeOK
<1>1. appr'[r] # appr[r]
  BY DEF PendingSteps
<1>2. CASE ApproveAdvancePrior(c)
  <2>1. PICK q \in call[c].prior :
          appr[call[c].r][q] = "pending" /\ appr' = [appr EXCEPT ![call[c].r][q] = "approved"]
    BY <1>1, <1>2 DEF ApproveAdvancePrior
  <2>2. PICK s \in Steps : s = call[c].step
    BY <1>2 DEF Chained, Ordered, ApproveAdvancePrior, At
  <2>3. r = call[c].r /\ q \in Steps /\ q < s /\ appr[r][s] # "none"
    BY <1>0, <1>1, <1>2, <2>1, <2>2 DEF CallRecord, Chained, Ordered, ApproveAdvancePrior, At, Exists
  <2>4. appr[r][s] = "pending"
    BY <1>0, <2>1, <2>2, <2>3 DEF Chained, InOrder, ApprovalStatuses
  <2>5. q # s
    BY <2>2, <2>3, ConstantsOK DEF Steps
  <2>6. appr'[r][s] = "pending"
    BY <1>0, <2>1, <2>3, <2>4, <2>5
  <2>7. QED
    BY <2>6 DEF PendingSteps
<1>3. CASE ApproveStep(c)
  <2>1. Goto(c, "countPending") /\ r = call[c].r
    BY <1>0, <1>1, <1>3 DEF ApproveStep, CallRecord
  <2>2. QED
    BY <2>1, GotoPlace DEF Finishing, Deciding
<1>4. CASE RejectStep(c)
  <2>1. Goto(c, "rejectRemaining") /\ r = call[c].r
    BY <1>0, <1>1, <1>4 DEF RejectStep, CallRecord
  <2>2. QED
    BY <2>1, GotoPlace DEF Finishing
<1>5. CASE RejectRemaining(c) \/ DeleteApprovals(c)
  <2>1. r = call[c].r
    BY <1>0, <1>1, <1>5 DEF RejectRemaining, DeleteApprovals, RejectPending, CallRecord
  <2>2. Goto(c, "rejectRequest") \/ Goto(c, "deleteRow")
    BY <1>5 DEF RejectRemaining, DeleteApprovals
  <2>3. QED
    BY <2>1, <2>2, GotoPlace DEF Finishing
<1>6. CASE CancelApprovals(c)
  <2>1. r = call[c].r
    BY <1>0, <1>1, <1>6 DEF CancelApprovals, RejectPending, CallRecord
  <2>2. QED
    BY <1>6, <2>1 DEF CancelApprovals, CancelledFirst
<1>7. CASE SubmitRollback(c) \/ DeleteRequest(c)
  BY <1>0, <1>1, <1>7 DEF TypeOK, SubmitRollback, DeleteRequest, DeleteRow, CallRecord
<1>8. CASE SubmitCreateApproval(c)
  <2>1. PICK s \in Chain[call[c].r] : appr' = [appr EXCEPT ![call[c].r][s] = "pending"]
    BY <1>1, <1>8 DEF SubmitCreateApproval
  <2>2. s \in Steps
    BY <1>0, ConstantsOK DEF CallRecord
  <2>3. appr'[r][s] = "pending"
    BY <1>0, <1>1, <2>1, <2>2
  <2>4. QED
    BY <2>2, <2>3 DEF PendingSteps
<1>9. CASE UNCHANGED appr
  BY <1>1, <1>9
<1>10. \/ UNCHANGED appr \/ ApproveAdvancePrior(c) \/ ApproveStep(c) \/ RejectStep(c)
       \/ RejectRemaining(c) \/ DeleteApprovals(c) \/ CancelApprovals(c) \/ SubmitRollback(c)
       \/ DeleteRequest(c) \/ SubmitCreateApproval(c)
  BY StartsThere DEF Continue, Submit, SubmitCheckOverlap, SubmitInsert, SubmitRaceCheck,
     SubmitAutoDeduct, SyncRead, SyncWrite, Approve, ApproveCountPending, ApproveRereadRequest,
     ApproveDeduct, ApproveRequest, ApproveCompensate, Reject, RejectRequest, Cancel,
     CancelUpdate, CancelRefund, CancelReverse, Delete, DeleteRefund, DeleteReverse
<1>11. QED
  BY <1>2, <1>3, <1>4, <1>5, <1>6, <1>7, <1>8, <1>9, <1>10

LEMMA SomebodyFinishesStep ==
  ASSUME TypeOK, SubmitterAlone, SyncsGranted, Chained, CancelledFirst, BalanceSuffices,
         SomebodyFinishes, NEW c \in Calls, Start(c) \/ Continue(c)
  PROVE  SomebodyFinishes'
<1>1. \A d \in Calls : d # c => call'[d] = call[d]
  BY ActiveShrinks
<1>2. ASSUME NEW r \in Requests, req'[r] = "pending", PendingSteps(r)' = {}
      PROVE  \E d \in Calls : call'[d].r = r /\ Finishing(d)'
  <2>1. CASE SubmitInsert(c) /\ r = call[c].r
    BY <2>1, GotoPlace DEF SubmitInsert, Finishing, InSubmission
  <2>2. CASE ~(SubmitInsert(c) /\ r = call[c].r)
    <3>1. req[r] = "pending"
      BY <1>2, <2>2, RequestEffect
    <3>2. CASE PendingSteps(r) # {}
      BY <1>2, <3>1, <3>2, LastDeciderFinishes
    <3>3. CASE PendingSteps(r) = {}
      <4>1. PICK d \in Calls : call[d].r = r /\ Finishing(d)
        BY <3>1, <3>3 DEF SomebodyFinishes
      <4>2. CASE d # c
        BY <1>1, <4>1, <4>2 DEF Finishing, InSubmission, Deciding
      <4>3. CASE d = c
        BY <1>2, <3>1, <3>3, <4>1, <4>3, FinishingGoesOn
      <4>4. QED
        BY <4>2, <4>3
    <3>4. QED
      BY <3>2, <3>3
  <2>3. QED
    BY <2>1, <2>2
<1>3. QED
  BY <1>2 DEF SomebodyFinishes, PendingSteps, Finishing, InSubmission, Deciding

\* As long as no final approval finds too little balance, no request is left
\* waiting with every step decided and no handler at work on it.
THEOREM NobodyLeftWaiting == Spec /\ []BalanceSuffices => []NobodyStuck
<1>1. Init => CancelledFirst /\ SomebodyFinishes
  BY NoCallType DEF Init, CancelledFirst, SomebodyFinishes, At
<1>2. TypeOK /\ SubmitterAlone /\ SyncsGranted /\ Chained /\ BalanceSuffices
        /\ CancelledFirst /\ SomebodyFinishes /\ [Next]_vars
        => CancelledFirst' /\ SomebodyFinishes'
  <2>1. CancelledFirst /\ SomebodyFinishes /\ UNCHANGED vars => CancelledFirst' /\ SomebodyFinishes'
    BY DEF CancelledFirst, SomebodyFinishes, PendingSteps, Finishing, InSubmission, Deciding, At, vars
  <2>2. ASSUME TypeOK, SubmitterAlone, SyncsGranted, Chained, BalanceSuffices, CancelledFirst,
               SomebodyFinishes, NEW c \in Calls, Start(c) \/ Continue(c)
        PROVE  CancelledFirst' /\ SomebodyFinishes'
    <3>1. CancelledFirst'
      BY <2>2, CancelledFirstStep
    <3>2. SomebodyFinishes'
      BY <2>2, SomebodyFinishesStep
    <3>3. QED
      BY <3>1, <3>2
  <2>3. QED
    BY <2>1, <2>2 DEF Next
<1>3. SomebodyFinishes => NobodyStuck
  BY DEF SomebodyFinishes, NobodyStuck, Quiet, Finishing, InSubmission, Deciding, At
<1>4. QED
  BY <1>1, <1>2, <1>3, TypeCorrect, SubmitterIsAlone, SyncsAreGranted, ChainedAlways, PTL DEF Spec

-----------------------------------------------------------------------------
(* Sums over finite sets.                                                  *)

\* A non-empty set of subsets of a finite set has a smallest one: the library's
\* well-foundedness of set inclusion as a fact about sets, which replaces an
\* induction.
LEMMA SmallestSubset ==
  ASSUME NEW S, IsFiniteSet(S), NEW T, T \subseteq SUBSET S, T # {}
  PROVE  \E x \in T : \A y \in T : y \subseteq x => y = x
<1>1. IsWellFoundedOn(StrictSubsetOrdering(S), SUBSET S)
  BY FS_StrictSubsetOrderingWellFounded, FS_FiniteSubsetsOfFinite, Zenon
<1>2. PICK x \in T : \A y \in T : ~(<<y, x>> \in StrictSubsetOrdering(S))
  BY <1>1, WFMin, Zenon
<1>3. QED
  BY <1>2 DEF StrictSubsetOrdering

\* The element a sum over s takes first, and the equation of the sum.
Pick(s) == CHOOSE x \in s : TRUE
Sums(g, w, T) ==
  \A s \in SUBSET T : g[s] = IF s = {} THEN 0 ELSE w[Pick(s)] + g[s \ {Pick(s)}]

\* The sum of w over T.
SumOf(w, T) == LET W(x) == w[x] IN MapThenSumSet(W, T)

LEMMA PickIn == ASSUME NEW s, s # {} PROVE Pick(s) \in s
BY DEF Pick

\* The equation has a solution: the largest family of subsets on which it has one,
\* closed under inclusion, is that of all subsets.
LEMMA SumsSolvable ==
  ASSUME NEW S, IsFiniteSet(S), NEW w \in [S -> Int]
  PROVE  \E g \in [SUBSET S -> Int] : Sums(g, w, S)
<1> DEFINE Rest(F) == (SUBSET S) \ F
           Closed(F) == \A s \in F : \A t \in SUBSET s : t \in F
           Solved(F) == \E g \in [F -> Int] :
             \A s \in F : g[s] = IF s = {} THEN 0 ELSE w[Pick(s)] + g[s \ {Pick(s)}]
           Families == {F \in SUBSET SUBSET S : Closed(F) /\ Solved(F)}
           Rests == {Rest(F) : F \in Families}
<1>1. {} \in Families
  <2>1. [s \in {} |-> 0] \in [{} -> Int]
    OBVIOUS
  <2>2. Solved({})
    BY <2>1
  <2>3. QED
    BY <2>2
<1>2. IsFiniteSet(SUBSET S)
  BY FS_SUBSET
<1>3. PICK F \in Families : \A G \in Families : Rest(G) \subseteq Rest(F) => Rest(G) = Rest(F)
  <2>1. Rest({}) \in Rests /\ \A x \in Rests : \E G \in Families : x = Rest(G)
    <3> HIDE DEF Families, Rest
    <3>1. QED
      BY <1>1
  <2>a. Rests # {} /\ Rests \subseteq SUBSET SUBSET S
    <3>1. \A G \in Families : Rest(G) \subseteq SUBSET S
      OBVIOUS
    <3> HIDE DEF Families, Rest, Rests
    <3>2. QED
      BY <2>1, <3>1
  <2>2. PICK x \in Rests : \A y \in Rests : y \subseteq x => y = x
    <3> HIDE DEF Rests
    <3>1. QED
      BY <1>2, <2>a, SmallestSubset
  <2>b. PICK F \in Families : x = Rest(F)
    <3> HIDE DEF Families, Rest, Rests
    <3>1. QED
      BY <2>1, <2>2
  <2>c. \A G \in Families : Rest(G) \in Rests
    <3> HIDE DEF Families, Rest
    <3>1. QED
      OBVIOUS
  <2>3. QED
    <3> HIDE DEF Families, Rest, Rests
    <3>1. QED
      BY <2>2, <2>b, <2>c
<1>4. CASE Rest(F) = {}
  <2>1. F = SUBSET S
    BY <1>4
  <2>2. QED
    BY <1>3, <2>1 DEF Sums
<1>5. CASE Rest(F) # {}
  <2>1. PICK s \in Rest(F) : \A t \in Rest(F) : t \subseteq s => t = s
    <3>1. Rest(F) \subseteq SUBSET S
      OBVIOUS
    <3> HIDE DEF Rest, Families
    <3>2. QED
      BY <1>5, <3>1, SmallestSubset
  <2>2. \A t \in SUBSET s : t # s => t \in F
    BY <2>1
  <2>3. PICK g \in [F -> Int] :
          \A t \in F : g[t] = IF t = {} THEN 0 ELSE w[Pick(t)] + g[t \ {Pick(t)}]
    BY <1>3
  <2> DEFINE v == IF s = {} THEN 0 ELSE w[Pick(s)] + g[s \ {Pick(s)}]
             h == [t \in F \cup {s} |-> IF t = s THEN v ELSE g[t]]
  <2>4. s # {} => Pick(s) \in s /\ Pick(s) \in S /\ s \ {Pick(s)} \in F
    BY <2>1, <2>2, PickIn
  <2>5. v \in Int
    BY <2>4
  <2>6. h \in [F \cup {s} -> Int]
    BY <2>5
  <2>7. ASSUME NEW t \in F \cup {s}
        PROVE  h[t] = IF t = {} THEN 0 ELSE w[Pick(t)] + h[t \ {Pick(t)}]
    <3>1. CASE t = s
      <4>1. s # {} => h[s \ {Pick(s)}] = g[s \ {Pick(s)}]
        BY <2>4
      <4>2. QED
        BY <3>1, <4>1
    <3>2. CASE t # s
      <4>1. t \in F /\ s \notin F /\ h[t] = g[t]
        BY <2>1, <3>2
      <4>2. t # {} => t \ {Pick(t)} \in F
        BY <1>3, <4>1
      <4>3. t # {} => h[t \ {Pick(t)}] = g[t \ {Pick(t)}]
        BY <4>1, <4>2
      <4>4. QED
        BY <2>3, <4>1, <4>3
    <3>3. QED
      BY <3>1, <3>2
  <2>8. Solved(F \cup {s})
    <3> HIDE DEF h
    <3>1. QED
      BY <2>6, <2>7
  <2>9. Closed(F \cup {s}) /\ F \cup {s} \in SUBSET SUBSET S
    BY <1>3, <2>1, <2>2
  <2>10. F \cup {s} \in Families
    <3> HIDE DEF Solved, Closed
    <3>1. QED
      BY <2>8, <2>9
  <2>11. QED
    <3>1. Rest(F \cup {s}) \subseteq Rest(F) /\ s \in Rest(F) /\ s \notin Rest(F \cup {s})
      BY <2>1
    <3> HIDE DEF Rest, Families
    <3>2. QED
      BY <1>3, <2>10, <3>1
<1>6. QED
  BY <1>4, <1>5

\* It has one solution.
LEMMA SumsUnique ==
  ASSUME NEW S, IsFiniteSet(S), NEW w, NEW g, NEW h, NEW T \in SUBSET S,
         Sums(g, w, S), Sums(h, w, T)
  PROVE  \A s \in SUBSET T : g[s] = h[s]
<1> DEFINE Bad == {s \in SUBSET T : g[s] # h[s]}
<1>1. SUFFICES ASSUME Bad # {} PROVE FALSE
  OBVIOUS
<1>2. PICK s \in Bad : \A t \in Bad : t \subseteq s => t = s
  <2>1. IsFiniteSet(T) /\ Bad \subseteq SUBSET T
    BY FS_Subset
  <2> HIDE DEF Bad
  <2>2. QED
    BY <1>1, <2>1, SmallestSubset
<1>3. CASE s = {}
  BY <1>2, <1>3 DEF Sums
<1>4. CASE s # {}
  <2>1. Pick(s) \in s
    BY <1>4, PickIn
  <2>2. s \ {Pick(s)} \in SUBSET T /\ s \ {Pick(s)} # s
    BY <2>1
  <2>3. g[s \ {Pick(s)}] = h[s \ {Pick(s)}]
    BY <1>2, <2>2
  <2>4. QED
    BY <1>4, <2>3 DEF Sums
<1>5. QED
  BY <1>3, <1>4

\* So the sums over the subsets of a finite set are the values of one function.
ValuesOf(g, w, S) ==
  g \in [SUBSET S -> Int] /\ Sums(g, w, S) /\ \A T \in SUBSET S : SumOf(w, T) = g[T]

LEMMA SumsAreValues ==
  ASSUME NEW S, IsFiniteSet(S), NEW w \in [S -> Int]
  PROVE  \E g : ValuesOf(g, w, S)
<1>1. PICK g \in [SUBSET S -> Int] : Sums(g, w, S)
  BY SumsSolvable
<1>2. ASSUME NEW T \in SUBSET S
      PROVE  SumOf(w, T) = g[T]
  <2> DEFINE Eq(e) == e = [s \in SUBSET T |-> IF s = {} THEN 0 ELSE w[Pick(s)] + e[s \ {Pick(s)}]]
             f == CHOOSE ff : Eq(ff)
  <2>1. SumOf(w, T) = f[T]
    BY DEF SumOf, MapThenSumSet, MapThenFoldSet, Pick
  <2> DEFINE k == [s \in SUBSET T |-> g[s]]
  <2>2. Eq(k)
    <3>1. ASSUME NEW s \in SUBSET T
          PROVE  k[s] = IF s = {} THEN 0 ELSE w[Pick(s)] + k[s \ {Pick(s)}]
      <4>1. s \in SUBSET S /\ s \ {Pick(s)} \in SUBSET T
        OBVIOUS
      <4>2. QED
        BY <1>1, <4>1 DEF Sums
    <3>2. QED
      BY <3>1
  <2>3. Eq(f)
    <3> HIDE DEF Eq, k
    <3>1. QED
      BY <2>2
  <2>4. Sums(f, w, T)
    <3> HIDE DEF f
    <3>1. QED
      BY <2>3 DEF Sums
  <2>5. QED
    <3> HIDE DEF f
    <3>1. QED
      BY <1>1, <2>1, <2>4, SumsUnique
<1>3. \A T \in SUBSET S : SumOf(w, T) = g[T]
  BY <1>2
<1>4. QED
  BY <1>1, <1>3 DEF ValuesOf

\* Taking an element out of a set takes its value out of the sum, whichever
\* element the sum itself would take first.
LEMMA SumPeel ==
  ASSUME NEW S, IsFiniteSet(S), NEW w \in [S -> Int], NEW T \in SUBSET S, NEW r \in T
  PROVE  SumOf(w, T) = w[r] + SumOf(w, T \ {r})
<1>0. PICK g : ValuesOf(g, w, S)
  BY SumsAreValues
<1>1. g \in [SUBSET S -> Int] /\ Sums(g, w, S) /\ \A U \in SUBSET S : SumOf(w, U) = g[U]
  BY <1>0 DEF ValuesOf
<1> DEFINE Bad == {U \in SUBSET S : \E x \in U : g[U] # w[x] + g[U \ {x}]}
<1>2. Bad = {}
  <2>1. SUFFICES ASSUME Bad # {} PROVE FALSE
    OBVIOUS
  <2>2. PICK U \in Bad : \A V \in Bad : V \subseteq U => V = U
    <3>1. Bad \subseteq SUBSET S
      OBVIOUS
    <3> HIDE DEF Bad
    <3>2. QED
      BY <2>1, <3>1, SmallestSubset
  <2>3. PICK x \in U : g[U] # w[x] + g[U \ {x}]
    BY <2>2
  <2>4. PICK y : y = Pick(U)
    OBVIOUS
  <2>5. y \in U /\ g[U] = w[y] + g[U \ {y}]
    BY <1>1, <2>2, <2>3, <2>4, PickIn DEF Sums
  <2>6. x # y
    BY <2>3, <2>5
  <2>7. U \ {y} \notin Bad /\ U \ {x} \notin Bad
    BY <2>2, <2>3, <2>5
  <2>8. g[U \ {y}] = w[x] + g[(U \ {y}) \ {x}]
    BY <2>2, <2>3, <2>6, <2>7
  <2>9. g[U \ {x}] = w[y] + g[(U \ {x}) \ {y}]
    BY <2>2, <2>5, <2>6, <2>7
  <2>10. (U \ {y}) \ {x} = (U \ {x}) \ {y}
    OBVIOUS
  <2>11. PICK V \in SUBSET S : V = (U \ {x}) \ {y}
    BY <2>2
  <2>12. w[x] \in Int /\ w[y] \in Int /\ g[V] \in Int
    BY <1>1, <2>2, <2>3, <2>5
  <2>13. g[U] = w[y] + (w[x] + g[V]) /\ g[U \ {x}] = w[y] + g[V]
    BY <2>5, <2>8, <2>9, <2>10, <2>11
  <2>14. QED
    BY <2>3, <2>12, <2>13
<1>3. g[T] = w[r] + g[T \ {r}]
  BY <1>2
<1>4. T \ {r} \in SUBSET S
  OBVIOUS
<1>5. QED
  BY <1>1, <1>3, <1>4

LEMMA SumEmpty ==
  ASSUME NEW S, IsFiniteSet(S), NEW w \in [S -> Int]
  PROVE  SumOf(w, {}) = 0
<1>0. PICK g : ValuesOf(g, w, S)
  BY SumsAreValues
<1>1. g \in [SUBSET S -> Int] /\ Sums(g, w, S) /\ \A U \in SUBSET S : SumOf(w, U) = g[U]
  BY <1>0 DEF ValuesOf
<1>2. {} \in SUBSET S
  OBVIOUS
<1>3. QED
  BY <1>1, <1>2 DEF Sums

LEMMA SumType ==
  ASSUME NEW S, IsFiniteSet(S), NEW w \in [S -> Int], NEW T \in SUBSET S
  PROVE  SumOf(w, T) \in Int
<1>0. PICK g : ValuesOf(g, w, S)
  BY SumsAreValues
<1>1. g \in [SUBSET S -> Int] /\ Sums(g, w, S) /\ \A U \in SUBSET S : SumOf(w, U) = g[U]
  BY <1>0 DEF ValuesOf
<1>2. QED
  BY <1>1

\* Adding an element adds its value.
LEMMA SumPlus ==
  ASSUME NEW S, IsFiniteSet(S), NEW w \in [S -> Int], NEW T \in SUBSET S, NEW r \in S, r \notin T
  PROVE  SumOf(w, T \cup {r}) = SumOf(w, T) + w[r]
<1>1. PICK U \in SUBSET S : U = T \cup {r} /\ U \ {r} = T
  OBVIOUS
<1>2. SumOf(w, U) = w[r] + SumOf(w, T)
  BY <1>1, SumPeel
<1>3. SumOf(w, T) \in Int /\ w[r] \in Int
  BY SumType
<1>4. QED
  BY <1>1, <1>2, <1>3

\* With no negative values, a larger set has no smaller sum.
LEMMA SumMonotone ==
  ASSUME NEW S, IsFiniteSet(S), NEW w \in [S -> Nat], NEW T \in SUBSET S, NEW U \in SUBSET T
  PROVE  SumOf(w, U) <= SumOf(w, T)
<1> DEFINE Bad == {V \in SUBSET S : U \subseteq V /\ ~(SumOf(w, U) <= SumOf(w, V))}
<1>0. w \in [S -> Int] /\ \A V \in SUBSET S : SumOf(w, V) \in Int
  BY SumType
<1>1. SUFFICES ASSUME Bad # {} PROVE FALSE
  OBVIOUS
<1>2. PICK V \in Bad : \A X \in Bad : X \subseteq V => X = V
  <2>1. Bad \subseteq SUBSET S
    OBVIOUS
  <2> HIDE DEF Bad
  <2>2. QED
    BY <1>1, <2>1, SmallestSubset
<1>3. PICK x \in V : x \notin U
  <2>1. V # U
    BY <1>0, <1>2
  <2>2. QED
    BY <1>2, <2>1
<1>4. SumOf(w, V) = w[x] + SumOf(w, V \ {x})
  BY <1>0, <1>2, <1>3, SumPeel
<1>5. SumOf(w, U) <= SumOf(w, V \ {x})
  BY <1>2, <1>3
<1>6. w[x] \in Nat /\ V \ {x} \in SUBSET S
  BY <1>2, <1>3
<1>7. QED
  BY <1>0, <1>2, <1>4, <1>5, <1>6

-----------------------------------------------------------------------------
(* Where a handler stands, and what it knows there.                        *)

\* The statements an approval of one step of a chain goes through, and those
\* that carry rows of a chain.
OfAChain(l) ==
  l \in {"createApproval", "advancePrior", "approveStep", "countPending", "rereadRequest",
         "deduct", "approveRequest", "compensate"}

\* From which statement a handler comes to statement l.
Moves(c, l) ==
  \/ l = "idle"
  \/ At(c, "checkOverlap") /\ l = "insert"
  \/ SubmitInsert(c) /\ l = "raceCheck"
  \/ At(c, "raceCheck") /\ l = "rollback"
  \/ At(c, "raceCheck") /\ l = AfterRaceCheck(call[c].r)
  \/ At(c, "createApproval") /\ l = "createApproval"
  \/ At(c, "autoDeduct") /\ l \in {"syncRead", "rollback"}
  \/ At(c, "syncRead") /\ l = "syncWrite"
  \/ At(c, "advancePrior") /\ l \in {"advancePrior", "approveStep"}
  \/ At(c, "approveStep") /\ l = "countPending"
  \/ At(c, "countPending") /\ l = "rereadRequest"
  \/ At(c, "rereadRequest") /\ l = (IF Paid[call[c].r] THEN "deduct" ELSE "approveRequest")
  \/ At(c, "deduct") /\ l = "approveRequest"
  \/ At(c, "approveRequest") /\ l = "syncRead"
  \/ At(c, "approveRequest") /\ Paid[call[c].r] /\ l = "compensate"
  \/ RejectStep(c) /\ l = "rejectRemaining"
  \/ At(c, "rejectRemaining") /\ l = "rejectRequest"
  \/ CancelUpdate(c) /\ Active(call[c].r) /\ l = "cancelApprovals"
  \/ At(c, "cancelApprovals") /\ call[c].was /\ Paid[call[c].r] /\ l = "cancelRefund"
  \/ At(c, "cancelRefund") /\ l = "cancelReverse"
  \/ At(c, "deleteRefund") /\ l = "deleteReverse"
  \/ At(c, "deleteReverse") /\ l = "deleteApprovals"
  \/ At(c, "deleteApprovals") /\ l = "deleteRow"

\* A call that goes on keeps its request and what it read at its start.
LEMMA ContinueMoves ==
  ASSUME TypeOK, NEW c \in Calls, Continue(c)
  PROVE  /\ Moves(c, call'[c].pc)
         /\ call'[c].pc # "idle" => call'[c].r = call[c].r /\ call'[c].was = call[c].was
<1>0. NoCall.pc = "idle" /\ call[c] \in CallRecord
  BY NoCallType DEF TypeOK
<1>1. CASE Return(c)
  BY <1>0, <1>1 DEF TypeOK, Return, Moves
<1>2. ASSUME NEW l, Goto(c, l), Moves(c, l)
      PROVE  /\ Moves(c, call'[c].pc)
             /\ call'[c].pc # "idle" => call'[c].r = call[c].r /\ call'[c].was = call[c].was
  <2>1. call'[c].pc = l /\ call'[c].r = call[c].r /\ call'[c].was = call[c].was
    BY <1>0, <1>2 DEF TypeOK, CallRecord, Goto
  <2>2. QED
    BY <1>2, <2>1
<1>3. CASE Submit(c)
  <2>1. CASE SubmitCheckOverlap(c)
    BY <1>1, <1>2, <2>1 DEF SubmitCheckOverlap, Moves
  <2>2. CASE SubmitInsert(c)
    BY <1>1, <1>2, <2>2 DEF SubmitInsert, Moves
  <2>3. CASE SubmitRaceCheck(c)
    BY <1>1, <1>2, <2>3 DEF SubmitRaceCheck, Moves
  <2>4. CASE SubmitRollback(c)
    BY <1>1, <2>4 DEF SubmitRollback
  <2>5. CASE SubmitCreateApproval(c)
    <3>1. CASE ~Return(c)
      <4>1. PICK s : call' = [call EXCEPT ![c].step = s] /\ At(c, "createApproval")
        BY <2>5, <3>1 DEF SubmitCreateApproval
      <4>2. call'[c].pc = "createApproval" /\ call'[c].r = call[c].r /\ call'[c].was = call[c].was
        BY <1>0, <4>1 DEF TypeOK, CallRecord, At
      <4>3. QED
        BY <4>1, <4>2 DEF Moves
    <3>2. QED
      BY <1>1, <3>1
  <2>6. CASE SubmitAutoDeduct(c)
    BY <1>1, <1>2, <2>6 DEF SubmitAutoDeduct, DeductOrElse, Moves
  <2>7. QED
    BY <1>3, <2>1, <2>2, <2>3, <2>4, <2>5, <2>6 DEF Submit
<1>4. CASE SyncRead(c) \/ SyncWrite(c)
  BY <1>1, <1>2, <1>4 DEF SyncRead, SyncWrite, Moves
<1>5. CASE Approve(c)
  <2>1. CASE ApproveAdvancePrior(c)
    <3>1. CASE ~Return(c)
      <4>1. PICK p : call' = [call EXCEPT ![c].prior = @ \ {p},
                         ![c].pc = IF call[c].prior = {p} THEN "approveStep" ELSE @]
        BY <2>1, <3>1 DEF ApproveAdvancePrior
      <4>2. /\ call'[c].pc \in {"advancePrior", "approveStep"}
            /\ call'[c].r = call[c].r /\ call'[c].was = call[c].was
        BY <1>0, <2>1, <4>1 DEF TypeOK, CallRecord, ApproveAdvancePrior, At
      <4>3. QED
        BY <2>1, <4>2 DEF Moves, ApproveAdvancePrior
    <3>2. QED
      BY <1>1, <3>1
  <2>2. CASE ApproveStep(c) \/ ApproveCountPending(c)
    BY <1>1, <1>2, <2>2 DEF ApproveStep, ApproveCountPending, Moves
  <2>3. CASE ApproveRereadRequest(c)
    BY <1>1, <1>2, <2>3 DEF ApproveRereadRequest, Moves
  <2>4. CASE ApproveDeduct(c)
    BY <1>1, <1>2, <2>4 DEF ApproveDeduct, DeductOrElse, Moves
  <2>5. CASE ApproveRequest(c)
    BY <1>1, <1>2, <2>5 DEF ApproveRequest, Moves
  <2>6. CASE ApproveCompensate(c)
    BY <1>1, <2>6 DEF ApproveCompensate
  <2>7. QED
    BY <1>5, <2>1, <2>2, <2>3, <2>4, <2>5, <2>6 DEF Approve
<1>6. CASE Reject(c)
  BY <1>1, <1>2, <1>6 DEF Reject, RejectStep, RejectRemaining, RejectRequest, Moves
<1>7. CASE CancelUpdate(c)
  BY <1>1, <1>2, <1>7 DEF CancelUpdate, Moves
<1>8. CASE CancelApprovals(c) \/ CancelRefund(c) \/ CancelReverse(c)
  BY <1>1, <1>2, <1>8 DEF CancelApprovals, CancelRefund, CancelReverse, Moves
<1>9. CASE Delete(c)
  BY <1>1, <1>2, <1>9 DEF Delete, DeleteRefund, DeleteReverse, DeleteApprovals, DeleteRequest, Moves
<1>10. QED
  BY <1>3, <1>4, <1>5, <1>6, <1>7, <1>8, <1>9 DEF Continue, Cancel

\* Where an endpoint starts.
LEMMA StartMoves ==
  ASSUME TypeOK, NEW c \in Calls, Start(c)
  PROVE  /\ At(c, "idle") /\ call'[c].r \in Requests
         /\ \/ /\ "submit" \in Endpoints /\ call'[c].pc = "checkOverlap"
               /\ \A d \in Calls : At(d, "idle") \/ call[d].r # call'[c].r
            \/ /\ "approve" \in Endpoints /\ call'[c].pc \in {"advancePrior", "approveStep"}
               /\ Exists(call'[c].r)
               /\ \E s \in Steps : appr[call'[c].r][s] # "none"
            \/ /\ "reject" \in Endpoints /\ call'[c].pc = "rejectStep"
               /\ Exists(call'[c].r)
            \/ /\ "cancel" \in Endpoints /\ call'[c].pc = "cancelUpdate"
               /\ Exists(call'[c].r) /\ req[call'[c].r] # "cancelled"
               /\ call'[c].was = (req[call'[c].r] = "approved")
            \/ /\ "delete" \in Endpoints /\ call'[c].pc \in {"deleteRefund", "deleteApprovals"}
               /\ Exists(call'[c].r)
<1>t. call \in [Calls -> CallRecord]
  BY DEF TypeOK
<1>1. CASE \E r \in Requests : SubmitStart(c, r)
  BY <1>t, <1>1 DEF SubmitStart, Begin, At
<1>2. CASE \E r \in Requests, s \in Steps, o \in BOOLEAN : ApproveStart(c, r, s, o)
  <2>1. PICK r \in Requests, s \in Steps, o \in BOOLEAN : ApproveStart(c, r, s, o)
    BY <1>2
  <2>2. call'[c].r = r /\ call'[c].pc \in {"advancePrior", "approveStep"}
    BY <1>t, <2>1 DEF ApproveStart, Begin
  <2>3. QED
    BY <2>1, <2>2 DEF ApproveStart, Begin
<1>3. CASE \E r \in Requests, s \in Steps : RejectStart(c, r, s)
  BY <1>t, <1>3 DEF RejectStart, Begin
<1>4. CASE \E r \in Requests : CancelStart(c, r)
  BY <1>t, <1>4 DEF CancelStart, Begin
<1>5. CASE \E r \in Requests : DeleteStart(c, r)
  BY <1>t, <1>5 DEF DeleteStart, Begin
<1>6. QED
  BY <1>1, <1>2, <1>3, <1>4, <1>5 DEF Start

\* What a call working on r knows of it at each statement.
Standing(c, r) ==
  /\ At(c, "autoDeduct") => AutoApproved[r] /\ Paid[r]
  /\ OfAChain(call[c].pc) => ~AutoApproved[r]
  /\ call[c].pc \in {"deduct", "compensate"} => Paid[r]
  /\ At(c, "cancelUpdate") => (call[c].was => Granted(r)) /\ (AutoApproved[r] => call[c].was)
  /\ call[c].pc \in {"cancelApprovals", "cancelRefund"} => req[r] \in {"cancelled", "gone"}
  /\ At(c, "cancelRefund") => call[c].was /\ Paid[r]
  /\ call[c].pc \notin {"idle", "checkOverlap", "insert"} => req[r] # "absent"

AllStanding == \A c \in Calls, r \in Requests : call[c].r = r => Standing(c, r)

\* An automatically approved request is never pending or rejected and has no chain.
AutoBare ==
  \A r \in Requests : AutoApproved[r] =>
    req[r] \notin {"pending", "rejected"} /\ \A s \in Steps : appr[r][s] = "none"

\* One cancellation gets past the UPDATE of the status.
Cancelling(c) == call[c].pc \in {"cancelApprovals", "cancelRefund"}
OneCanceller ==
  \A c, d \in Calls : Cancelling(c) /\ Cancelling(d) /\ call[c].r = call[d].r => c = d

\* A submission has no approval rows before createApproval.
Fresh(c) == call[c].pc \in {"checkOverlap", "insert", "raceCheck", "rollback", "autoDeduct"}
NoRowsYet ==
  \A c \in Calls, r \in Requests : call[c].r = r /\ Fresh(c) => \A s \in Steps : appr[r][s] = "none"

\* A rejection under way has a row it has rejected.
RejectsARow ==
  \A c \in Calls, r \in Requests :
    call[c].r = r /\ call[c].pc \in {"rejectRemaining", "rejectRequest"} /\ Exists(r) =>
      \E s \in Steps : appr[r][s] # "none"

Places == AllStanding /\ AutoBare /\ OneCanceller /\ NoRowsYet /\ RejectsARow

LEMMA StandingStep ==
  ASSUME TypeOK, SubmitterAlone, Places, NEW c \in Calls, Start(c) \/ Continue(c)
  PROVE  AllStanding'
<1>1. \A d \in Calls : d # c => call'[d] = call[d]
  BY ActiveShrinks
<1>2. \A r \in Requests : /\ Granted(r) => Granted(r)'
                          /\ req[r] \in {"cancelled", "gone"} => req'[r] \in {"cancelled", "gone"}
                          /\ req'[r] = "absent" => req[r] = "absent"
  BY DecisionStep, RequestEffect DEF StatusStep, Granted
<1>3. ASSUME NEW d \in Calls, d # c, NEW r \in Requests, call'[d].r = r
      PROVE  Standing(d, r)'
  <2>1. call'[d] = call[d] /\ Standing(d, r)
    BY <1>1, <1>3 DEF Places, AllStanding
  <2>2. QED
    BY <1>2, <2>1 DEF Standing, At, Granted
<1>4. ASSUME NEW r \in Requests, call'[c].r = r, Start(c)
      PROVE  Standing(c, r)'
  <2>1. req' = req
    BY <1>4, StartEffect
  <2>2. CASE call'[c].pc = "cancelUpdate"
    <3>1. call'[c].was = (req[r] = "approved") /\ Exists(r) /\ req[r] # "cancelled"
      BY <1>4, <2>2, StartMoves
    <3>2. AutoApproved[r] => req[r] = "approved"
      BY <3>1 DEF Places, AutoBare, TypeOK, Statuses, Exists
    <3>3. QED
      BY <2>1, <2>2, <3>1, <3>2 DEF Standing, At, Granted, OfAChain, Exists
  <2>3. CASE call'[c].pc \in {"advancePrior", "approveStep"}
    <3>1. Exists(r) /\ \E s \in Steps : appr[r][s] # "none"
      BY <1>4, <2>3, StartMoves
    <3>2. QED
      BY <2>1, <2>3, <3>1 DEF Standing, At, OfAChain, Exists, Places, AutoBare
  <2>4. CASE call'[c].pc \in {"checkOverlap", "rejectStep", "deleteRefund", "deleteApprovals"}
    <3>1. call'[c].pc = "checkOverlap" \/ Exists(r)
      BY <1>4, <2>4, StartMoves
    <3>2. QED
      BY <2>1, <2>4, <3>1 DEF Standing, At, OfAChain, Exists
  <2>5. QED
    BY <1>4, <2>2, <2>3, <2>4, StartMoves
<1>5. ASSUME NEW r \in Requests, call'[c].r = r, Continue(c)
      PROVE  Standing(c, r)'
  <2>1. CASE call'[c].pc = "idle"
    BY <2>1 DEF Standing, At, OfAChain
  <2>2. CASE call'[c].pc # "idle"
    <3>1. PICK l \in Labels : l = call'[c].pc
      BY <1>5, SubmitType, ApproveType, DecideType DEF Continue, TypeOK, CallRecord
    <3>2. Moves(c, l) /\ call[c].r = r /\ call'[c].was = call[c].was /\ Standing(c, r)
      BY <1>5, <2>2, <3>1, ContinueMoves DEF Places, AllStanding
    <3>3. l \in {"cancelApprovals", "cancelRefund"} => req'[r] \in {"cancelled", "gone"}
      <4>1. CASE l = "cancelApprovals"
        <5>1. CancelUpdate(c) /\ Active(r)
          BY <3>2, <4>1 DEF Moves, AfterRaceCheck
        <5>2. QED
          BY <3>2, <5>1 DEF CancelUpdate, TypeOK
      <4>2. CASE l = "cancelRefund"
        BY <1>2, <3>2, <4>2 DEF Moves, Standing, AfterRaceCheck, At
      <4>3. QED
        BY <4>1, <4>2
    <3>4. l \notin {"checkOverlap", "insert"} => req'[r] # "absent"
      <4>1. CASE l = "raceCheck"
        <5>1. SubmitInsert(c)
          BY <3>2, <4>1 DEF Moves, AfterRaceCheck
        <5>2. QED
          BY <3>2, <5>1 DEF SubmitInsert, TypeOK
      <4>2. CASE l \notin {"raceCheck", "checkOverlap", "insert"}
        <5>1. CASE CancelUpdate(c) \/ RejectStep(c)
          BY <1>2, <3>2, <5>1 DEF Standing, CancelUpdate, RejectStep, At
        <5>2. CASE ~CancelUpdate(c) /\ ~RejectStep(c)
          BY <1>2, <2>2, <3>1, <3>2, <4>2, <5>2 DEF Moves, Standing, At, AfterRaceCheck
        <5>3. QED
          BY <5>1, <5>2
      <4>3. QED
        BY <4>1, <4>2
    <3>5. /\ l = "autoDeduct" => AutoApproved[r] /\ Paid[r]
          /\ OfAChain(l) => ~AutoApproved[r]
          /\ l \in {"deduct", "compensate"} => Paid[r]
          /\ l = "cancelRefund" => call'[c].was /\ Paid[r]
          /\ l # "cancelUpdate"
      BY <3>2 DEF Moves, Standing, OfAChain, AfterRaceCheck, At
    <3>6. QED
      BY <3>1, <3>3, <3>4, <3>5, <2>2 DEF Standing, At
  <2>3. QED
    BY <2>1, <2>2
<1>6. ASSUME NEW d \in Calls, NEW r \in Requests, call'[d].r = r
      PROVE  Standing(d, r)'
  BY <1>3, <1>4, <1>5, <1>6
<1>7. QED
  BY <1>6 DEF AllStanding, Standing, At, Granted

LEMMA AutoBareStep ==
  ASSUME TypeOK, Places, NEW c \in Calls, Start(c) \/ Continue(c)
  PROVE  AutoBare'
<1>1. ASSUME NEW r \in Requests, AutoApproved[r]
      PROVE  req'[r] \notin {"pending", "rejected"}
  <2>1. req[r] \notin {"pending", "rejected"}
    BY <1>1 DEF Places, AutoBare
  <2>2. QED
    BY <1>1, <2>1, RequestEffect
<1>2. ASSUME NEW r \in Requests, AutoApproved[r], NEW s \in Steps
      PROVE  appr'[r][s] = "none"
  <2>1. appr[r][s] = "none"
    BY <1>2 DEF Places, AutoBare
  <2>2. ~(r = call[c].r /\ At(c, "createApproval"))
    BY <1>2 DEF Places, AllStanding, Standing, OfAChain, At
  <2>3. QED
    BY <2>1, <2>2, RowEffect DEF RowStep
<1>3. QED
  BY <1>1, <1>2 DEF AutoBare

LEMMA OneCancellerStep ==
  ASSUME TypeOK, Places, NEW c \in Calls, Start(c) \/ Continue(c)
  PROVE  OneCanceller'
<1>1. \A d \in Calls : d # c => call'[d] = call[d]
  BY ActiveShrinks
<1>2. ASSUME Cancelling(c)', NEW d \in Calls, d # c, Cancelling(d)', call'[d].r = call'[c].r
      PROVE  FALSE
  <2>1. Cancelling(d) /\ call'[d] = call[d]
    BY <1>1, <1>2 DEF Cancelling
  <2>2. Continue(c)
    BY <1>2, StartMoves DEF Cancelling
  <2>3. PICK r \in Requests : r = call[c].r
    BY DEF TypeOK, CallRecord
  <2>4. call'[c].r = r /\ call[d].r = r
    BY <1>2, <2>1, <2>2, <2>3, ContinueMoves DEF Cancelling
  <2>5. CASE call'[c].pc = "cancelApprovals"
    <3>1. Active(r)
      BY <2>2, <2>3, <2>5, ContinueMoves DEF Moves, AfterRaceCheck
    <3>2. req[r] \in {"cancelled", "gone"}
      BY <2>1, <2>4 DEF Places, AllStanding, Standing, Cancelling
    <3>3. QED
      BY <3>1, <3>2 DEF Active
  <2>6. CASE call'[c].pc = "cancelRefund"
    <3>1. Cancelling(c)
      BY <2>2, <2>6, ContinueMoves DEF Moves, AfterRaceCheck, Cancelling, At
    <3>2. QED
      BY <1>2, <2>1, <2>3, <2>4, <3>1 DEF Places, OneCanceller
  <2>7. QED
    BY <1>2, <2>5, <2>6 DEF Cancelling
<1>3. ASSUME NEW d \in Calls, NEW e \in Calls, Cancelling(d)', Cancelling(e)', call'[d].r = call'[e].r
      PROVE  d = e
  <2>1. CASE d # c /\ e # c
    BY <1>1, <1>3, <2>1 DEF Places, OneCanceller, Cancelling
  <2>2. QED
    BY <1>2, <1>3, <2>1
<1>4. QED
  BY <1>3 DEF OneCanceller, Cancelling

LEMMA NoRowsYetStep ==
  ASSUME TypeOK, Chained, Places, NEW c \in Calls, Start(c) \/ Continue(c)
  PROVE  NoRowsYet'
<1>1. \A d \in Calls : d # c => call'[d] = call[d]
  BY ActiveShrinks
<1>2. ASSUME NEW d \in Calls, NEW r \in Requests, call'[d].r = r, Fresh(d)', NEW s \in Steps
      PROVE  appr'[r][s] = "none"
  <2>1. CASE d = c /\ Start(c)
    <3>1. InSubmission(c)'
      BY <1>2, <2>1 DEF Fresh, InSubmission
    <3>2. req[r] = "absent" /\ appr' = appr
      BY <1>2, <2>1, <3>1, StartsThere
    <3>3. QED
      BY <3>2 DEF Chained, AbsentBare
  <2>2. CASE d # c \/ Continue(c)
    <3>1. call[d].r = r /\ Fresh(d)
      <4>1. CASE d # c
        BY <1>1, <1>2, <4>1 DEF Fresh
      <4>2. CASE d = c
        <5>1. Continue(c) /\ call'[c].pc # "idle"
          BY <1>2, <2>2, <4>2 DEF Fresh
        <5>2. call[c].r = r /\ Moves(c, call'[c].pc)
          BY <1>2, <4>2, <5>1, ContinueMoves
        <5>3. call'[c].pc \in {"checkOverlap", "insert", "raceCheck", "rollback", "autoDeduct"}
          BY <1>2, <4>2 DEF Fresh
        <5>4. Fresh(c)
          BY <5>2, <5>3 DEF Moves, AfterRaceCheck, Fresh, At, SubmitInsert
        <5>5. QED
          BY <4>2, <5>2, <5>4
      <4>3. QED
        BY <4>1, <4>2
    <3>2. appr[r][s] = "none"
      BY <3>1 DEF Places, NoRowsYet
    <3>3. ~(r = call[c].r /\ At(c, "createApproval"))
      BY <3>1 DEF Chained, OneSubmission, InSubmission, Fresh, At
    <3>4. QED
      BY <3>2, <3>3, RowEffect DEF RowStep
  <2>3. QED
    BY <2>1, <2>2
<1>3. QED
  BY <1>2 DEF NoRowsYet, Fresh

LEMMA RejectsARowStep ==
  ASSUME TypeOK, SubmitterAlone, Chained, Places, NEW c \in Calls, Start(c) \/ Continue(c)
  PROVE  RejectsARow'
<1>1. \A d \in Calls : d # c => call'[d] = call[d]
  BY ActiveShrinks
<1>2. ASSUME NEW d \in Calls, NEW r \in Requests, call'[d].r = r,
             call'[d].pc \in {"rejectRemaining", "rejectRequest"}, Exists(r)'
      PROVE  \E s \in Steps : appr'[r][s] # "none"
  <2>1. CASE call[d].r = r /\ call[d].pc \in {"rejectRemaining", "rejectRequest"}
    <3>1. Exists(r)
      BY <1>2, <2>1, ExistsBefore DEF At
    <3>2. PICK s \in Steps : appr[r][s] # "none"
      BY <2>1, <3>1 DEF Places, RejectsARow
    <3>3. QED
      BY <1>2, <3>2, RowStays
  <2>2. CASE ~(call[d].r = r /\ call[d].pc \in {"rejectRemaining", "rejectRequest"})
    <3>1. d = c /\ Continue(c)
      BY <1>1, <1>2, <2>2, StartMoves
    <3>2. call[c].r = r /\ Moves(c, call'[c].pc) /\ call'[c].pc # "idle"
      BY <1>2, <3>1, ContinueMoves
    <3>3. RejectStep(c)
      BY <1>2, <2>2, <3>1, <3>2 DEF Moves, AfterRaceCheck, At
    <3>4. PICK s \in Steps : s = call[c].step
      BY <3>3 DEF Chained, Ordered, RejectStep, At
    <3>5. ~Return(c)
      BY <3>2, NoCallType DEF TypeOK, Return
    <3>6. appr' = [appr EXCEPT ![r][s] = "rejected"]
      BY <3>2, <3>3, <3>4, <3>5 DEF RejectStep
    <3>7. QED
      BY <3>6 DEF TypeOK
  <2>3. QED
    BY <2>1, <2>2
<1>3. QED
  BY <1>2 DEF RejectsARow, Exists

LEMMA PlacesAlways == Spec => []Places
<1>1. Init => Places
  BY NoCallType DEF Init, Places, AllStanding, Standing, OfAChain, AutoBare, OneCanceller, Cancelling,
     NoRowsYet, Fresh, RejectsARow, At
<1>2. TypeOK /\ SubmitterAlone /\ Chained /\ Places /\ [Next]_vars => Places'
  <2>1. ASSUME TypeOK, SubmitterAlone, Chained, Places, NEW c \in Calls, Start(c) \/ Continue(c)
        PROVE  Places'
    <3>1. AllStanding' /\ AutoBare' /\ OneCanceller'
      BY <2>1, StandingStep, AutoBareStep, OneCancellerStep
    <3>2. NoRowsYet' /\ RejectsARow'
      BY <2>1, NoRowsYetStep, RejectsARowStep
    <3>3. QED
      BY <3>1, <3>2 DEF Places
  <2>2. Places /\ UNCHANGED vars => Places'
    BY DEF Places, AllStanding, Standing, AutoBare, OneCanceller, Cancelling, Granted,
     NoRowsYet, Fresh, RejectsARow, At, Exists, vars
  <2>3. QED
    BY <2>1, <2>2 DEF Next
<1>3. QED
  BY <1>1, <1>2, TypeCorrect, SubmitterIsAlone, ChainedAlways, PTL DEF Spec

\* Two sets that differ in one element have sums that differ by its value.
LEMMA SumDiffer ==
  ASSUME NEW S, IsFiniteSet(S), NEW w \in [S -> Int], NEW T \in SUBSET S, NEW U \in SUBSET S,
         NEW x \in S, T \ {x} = U \ {x}
  PROVE  SumOf(w, U) - (IF x \in U THEN w[x] ELSE 0) = SumOf(w, T) - (IF x \in T THEN w[x] ELSE 0)
<1>1. ASSUME NEW V \in SUBSET S
      PROVE  SumOf(w, V) = SumOf(w, V \ {x}) + (IF x \in V THEN w[x] ELSE 0)
  <2>1. SumOf(w, V \ {x}) \in Int /\ w[x] \in Int
    <3>1. V \ {x} \in SUBSET S
      OBVIOUS
    <3>2. QED
      BY <3>1, SumType
  <2>2. CASE x \in V
    <3>1. SumOf(w, V) = w[x] + SumOf(w, V \ {x})
      BY <2>2, SumPeel
    <3>2. QED
      BY <2>1, <2>2, <3>1
  <2>3. CASE x \notin V
    <3>1. V \ {x} = V
      BY <2>3
    <3>2. QED
      BY <2>1, <2>3, <3>1
  <2>4. QED
    BY <2>2, <2>3
<1>2. PICK R \in SUBSET S : R = T \ {x} /\ R = U \ {x}
  OBVIOUS
<1>3. SumOf(w, R) \in Int /\ w[x] \in Int
  BY SumType
<1>4. /\ SumOf(w, T) = SumOf(w, R) + (IF x \in T THEN w[x] ELSE 0)
      /\ SumOf(w, U) = SumOf(w, R) + (IF x \in U THEN w[x] ELSE 0)
  BY <1>1, <1>2
<1>5. QED
  BY <1>3, <1>4

-----------------------------------------------------------------------------
(* Nothing is cancelled or deleted.                                        *)

OnlyDecided == Endpoints \subseteq {"submit", "approve", "reject"}

\* A row its submission may still delete is as that submission inserted it.
Undisturbed ==
  OnlyDecided =>
    /\ \A c \in Calls : call[c].pc \notin
         {"cancelUpdate", "cancelApprovals", "cancelRefund", "cancelReverse",
          "deleteRefund", "deleteReverse", "deleteApprovals", "deleteRow"}
    /\ \A r \in Requests : req[r] # "cancelled"
    /\ \A c \in Calls, r \in Requests :
         call[c].r = r /\ call[c].pc \in {"raceCheck", "rollback", "autoDeduct"} =>
           req[r] = IF AutoApproved[r] THEN "approved" ELSE "pending"

LEMMA UndisturbedStep ==
  ASSUME TypeOK, SubmitterAlone, Chained, Places, Undisturbed, NEW c \in Calls, Start(c) \/ Continue(c)
  PROVE  Undisturbed'
<1>0. SUFFICES ASSUME OnlyDecided PROVE Undisturbed'
  BY DEF Undisturbed
<1>1. \A d \in Calls : d # c => call'[d] = call[d]
  BY ActiveShrinks
<1>2. \A d \in Calls : call'[d].pc \notin
         {"cancelUpdate", "cancelApprovals", "cancelRefund", "cancelReverse",
          "deleteRefund", "deleteReverse", "deleteApprovals", "deleteRow"}
  <2>1. CASE Start(c)
    BY <1>0, <1>1, <2>1, StartMoves DEF OnlyDecided, Undisturbed
  <2>2. CASE Continue(c)
    <3>1. Moves(c, call'[c].pc)
      BY <2>2, ContinueMoves
    <3>2. call'[c].pc \notin
         {"cancelUpdate", "cancelApprovals", "cancelRefund", "cancelReverse",
          "deleteRefund", "deleteReverse", "deleteApprovals", "deleteRow"}
      BY <1>0, <3>1 DEF Moves, AfterRaceCheck, Undisturbed, At, CancelUpdate
    <3>3. QED
      BY <1>0, <1>1, <3>2 DEF Undisturbed
  <2>3. QED
    BY <2>1, <2>2
<1>3. \A r \in Requests : req'[r] # "cancelled"
  BY <1>0, RequestEffect DEF Undisturbed, At
<1>4. ASSUME NEW d \in Calls, NEW r \in Requests, call'[d].r = r,
             call'[d].pc \in {"raceCheck", "rollback", "autoDeduct"}
      PROVE  req'[r] = IF AutoApproved[r] THEN "approved" ELSE "pending"
  <2>1. CASE d = c
    <3>1. Continue(c)
      BY <1>4, <2>1, StartMoves
    <3>2. call[c].r = r /\ Moves(c, call'[c].pc)
      BY <1>4, <2>1, <3>1, ContinueMoves
    <3>3. CASE SubmitInsert(c)
      <4>1. req' = [req EXCEPT ![r] = IF AutoApproved[r] THEN "approved" ELSE "pending"]
        BY <3>2, <3>3 DEF SubmitInsert
      <4>2. QED
        BY <4>1 DEF TypeOK
    <3>4. CASE ~SubmitInsert(c)
      <4>1. call[c].pc \in {"raceCheck", "autoDeduct"}
        BY <1>4, <2>1, <3>2, <3>4 DEF Moves, AfterRaceCheck, At
      <4>2. req'[r] = req[r]
        BY <3>4, <4>1, RequestEffect DEF At, Exists, TypeOK, Statuses
      <4>3. QED
        BY <1>0, <3>2, <4>1, <4>2 DEF Undisturbed
    <3>5. QED
      BY <3>3, <3>4
  <2>2. CASE d # c
    <3>1. call[d].r = r /\ call[d].pc \in {"raceCheck", "rollback", "autoDeduct"}
      BY <1>1, <1>4, <2>2
    <3>2. req[r] = (IF AutoApproved[r] THEN "approved" ELSE "pending") /\ Exists(r)
      BY <1>0, <3>1 DEF Undisturbed, Exists
    <3>3. \A s \in Steps : appr[r][s] = "none"
      BY <3>1 DEF Places, NoRowsYet, Fresh
    <3>4. ~(r = call[c].r /\ call[c].pc \in {"insert", "rollback"})
      BY <2>2, <3>1 DEF Chained, OneSubmission, InSubmission
    <3>5. ~(r = call[c].r /\ At(c, "approveRequest"))
      BY <3>2, <3>3 DEF Chained, StepApproved, Deciding, At
    <3>6. ~(r = call[c].r /\ At(c, "rejectRequest"))
      BY <3>2, <3>3 DEF Places, RejectsARow, At
    <3>7. call[c].pc \notin {"deleteRow", "cancelUpdate"}
      BY <1>0 DEF Undisturbed
    <3>8. req'[r] = req[r]
      BY <3>4, <3>5, <3>6, <3>7, RequestEffect DEF At, SubmitInsert
    <3>9. QED
      BY <3>2, <3>8
  <2>3. QED
    BY <2>1, <2>2
<1>5. QED
  BY <1>2, <1>3, <1>4 DEF Undisturbed

LEMMA UndisturbedAlways == Spec => []Undisturbed
<1>1. Init => Undisturbed
  BY NoCallType DEF Init, Undisturbed
<1>2. TypeOK /\ SubmitterAlone /\ Chained /\ Places /\ Undisturbed /\ [Next]_vars => Undisturbed'
  <2>1. Undisturbed /\ UNCHANGED vars => Undisturbed'
    BY DEF Undisturbed, vars
  <2>2. QED
    BY <2>1, UndisturbedStep DEF Next
<1>3. QED
  BY <1>1, <1>2, TypeCorrect, SubmitterIsAlone, ChainedAlways, PlacesAlways, PTL DEF Spec

-----------------------------------------------------------------------------
(* The ledger between two statements.                                      *)

\* An automatic approval that is not paid for yet and may still be rolled back.
Provisional(c) == call[c].pc \in {"raceCheck", "rollback", "autoDeduct"}
Unpaid(r) == AutoApproved[r] /\ \E c \in Calls : call[c].r = r /\ Provisional(c)

\* A cancellation that is going to give the days of r back.
Refunding(c) == call[c].was /\ Cancelling(c)
RefundDue(r) == \E c \in Calls : call[c].r = r /\ Refunding(c)

\* The days of r are deducted: it is approved, or its refund is still to come.
RowHeld(r) == Paid[r] /\ ~Unpaid(r) /\ (req[r] = "approved" \/ RefundDue(r))

\* The days of r were given back before they were deducted.
RowOwed(r) == Paid[r] /\ Unpaid(r) /\ req[r] = "cancelled" /\ ~RefundDue(r)

\* c has deducted the days of its request and has not approved it, or not yet.
InHand(c) == call[c].pc \in {"approveRequest", "compensate"} /\ Paid[call[c].r]

RowsHeld(e) == {r \in RequestsOf(e) : RowHeld(r)}
RowsOwed(e) == {r \in RequestsOf(e) : RowOwed(r)}
HandDays == [u \in Requests \X Calls |-> Days[u[1]]]
HandsHeld(e) == {u \in Requests \X Calls : Owner[u[1]] = e /\ call[u[2]].r = u[1] /\ InHand(u[2])}

\* No request of e was deleted, and none will be by a deletion that has refunded it.
Undeleted(e) ==
  \A r \in RequestsOf(e) :
    /\ req[r] # "gone"
    /\ \A c \in Calls : call[c].r = r => call[c].pc \notin {"deleteReverse", "deleteApprovals", "deleteRow"}
Whole(e) == OnlyDecided \/ Undeleted(e)
Uncancelled(e) == \A r \in RequestsOf(e) : req[r] # "cancelled"

Taken(e) == SumOf(Days, RowsHeld(e)) + SumOf(HandDays, HandsHeld(e))

\* What was used is what is held, except for what a cancellation has lost.
LedgerKept ==
  \A e \in Employees : Whole(e) =>
    /\ used[e] + SumOf(Days, RowsOwed(e)) >= Taken(e)
    /\ Uncancelled(e) => used[e] = Taken(e)

Conserved == \A e \in Employees : bal[e] + used[e] = InitBalance[e]

\* A step of a call on r changes what is held for r and by that call only.
LEMMA OthersHold ==
  ASSUME TypeOK, NEW c \in Calls, NEW r \in Requests, call[c].r = r, Continue(c), NEW e \in Employees
  PROVE  /\ RowsHeld(e) \ {r} = RowsHeld(e)' \ {r}
         /\ RowsOwed(e) \ {r} = RowsOwed(e)' \ {r}
         /\ HandsHeld(e) \ {<<r, c>>} = HandsHeld(e)' \ {<<r, c>>}
<1>1. \A d \in Calls : d # c => call'[d] = call[d]
  BY ActiveShrinks
<1>2. call'[c].pc = "idle" \/ call'[c].r = r
  BY ContinueMoves
<1>3. ASSUME NEW q \in Requests, q # r
      PROVE  (RowHeld(q)' <=> RowHeld(q)) /\ (RowOwed(q)' <=> RowOwed(q))
  <2>1. req'[q] = req[q]
    BY <1>3, ContinueEffect
  <2>2. \A d \in Calls : \A l : l # "idle" =>
          ((call'[d].r = q /\ call'[d].pc = l) <=> (call[d].r = q /\ call[d].pc = l))
    BY <1>1, <1>2, <1>3
  <2>3. Unpaid(q)' <=> Unpaid(q)
    BY <2>2 DEF Unpaid, Provisional
  <2>4. RefundDue(q)' <=> RefundDue(q)
    BY <1>1, <1>2, <1>3 DEF RefundDue, Refunding, Cancelling
  <2>5. QED
    BY <2>1, <2>3, <2>4 DEF RowHeld, RowOwed
<1>4. RowsHeld(e) \ {r} = RowsHeld(e)' \ {r} /\ RowsOwed(e) \ {r} = RowsOwed(e)' \ {r}
  BY <1>3 DEF RowsHeld, RowsOwed, RequestsOf
<1>5. HandsHeld(e) \ {<<r, c>>} = HandsHeld(e)' \ {<<r, c>>}
  <2>1. ASSUME NEW q \in Requests, NEW d \in Calls, <<q, d>> # <<r, c>>
        PROVE  (call'[d].r = q /\ InHand(d)') <=> (call[d].r = q /\ InHand(d))
    BY <1>1, <1>2, <2>1 DEF InHand
  <2>2. QED
    BY <2>1 DEF HandsHeld, InHand
<1>6. QED
  BY <1>4, <1>5

\* A new call holds nothing.
LEMMA StartHolds ==
  ASSUME TypeOK, NEW c \in Calls, Start(c), NEW e \in Employees
  PROVE  /\ RowsHeld(e)' = RowsHeld(e) /\ RowsOwed(e)' = RowsOwed(e) /\ HandsHeld(e)' = HandsHeld(e)
         /\ bal' = bal /\ used' = used
<1>1. \A d \in Calls : d # c => call'[d] = call[d]
  BY ActiveShrinks
<1>2. /\ call[c].pc = "idle"
      /\ call'[c].pc \in {"checkOverlap", "advancePrior", "approveStep", "rejectStep", "cancelUpdate",
                          "deleteRefund", "deleteApprovals"}
  BY StartMoves DEF At
<1>3. bal' = bal /\ used' = used /\ req' = req
  BY StartEffect DEF Start, SubmitStart, ApproveStart, RejectStart, CancelStart, DeleteStart
<1>4. ASSUME NEW q \in Requests
      PROVE  (RowHeld(q)' <=> RowHeld(q)) /\ (RowOwed(q)' <=> RowOwed(q))
  <2>1. Unpaid(q)' <=> Unpaid(q)
    BY <1>1, <1>2 DEF Unpaid, Provisional
  <2>2. RefundDue(q)' <=> RefundDue(q)
    BY <1>1, <1>2 DEF RefundDue, Refunding, Cancelling
  <2>3. QED
    BY <1>3, <2>1, <2>2 DEF RowHeld, RowOwed
<1>5. \A d \in Calls, q \in Requests : (call'[d].r = q /\ InHand(d)') <=> (call[d].r = q /\ InHand(d))
  BY <1>1, <1>2 DEF InHand
<1>6. QED
  BY <1>3, <1>4, <1>5 DEF RowsHeld, RowsOwed, RequestsOf, HandsHeld, InHand

Mine(c, r) == call[c].r = r /\ InHand(c)
Val(b, r) == IF b THEN Days[r] ELSE 0

\* A row is unpaid, or a refund due, by the same calls as before unless the call
\* that moves comes to such a statement or leaves it.
LEMMA Unmoved ==
  ASSUME TypeOK, NEW c \in Calls, NEW r \in Requests, call[c].r = r, Continue(c)
  PROVE  /\ (Provisional(c)' <=> Provisional(c)) => (Unpaid(r)' <=> Unpaid(r))
         /\ (Refunding(c)' <=> Refunding(c)) => (RefundDue(r)' <=> RefundDue(r))
         /\ Mine(c, r)' <=> InHand(c)'
<1>1. \A d \in Calls : d # c => call'[d] = call[d]
  BY ActiveShrinks
<1>2. call'[c].pc = "idle" \/ call'[c].r = r
  BY ContinueMoves
<1>3. QED
  BY <1>1, <1>2 DEF Unpaid, Provisional, RefundDue, Refunding, Cancelling, Mine, InHand

\* A statement that touches neither the balance nor the status nor a call's claim.
LEMMA NothingMoves ==
  ASSUME TypeOK, NEW c \in Calls, NEW r \in Requests, call[c].r = r, Continue(c),
         req' = req, Paid[r] /\ AutoApproved[r] => (Provisional(c)' <=> Provisional(c)),
         Paid[r] => (Refunding(c)' <=> Refunding(c)), InHand(c)' <=> InHand(c)
  PROVE  /\ RowHeld(r)' <=> RowHeld(r)
         /\ RowOwed(r)' <=> RowOwed(r)
         /\ Mine(c, r)' <=> Mine(c, r)
<1>1. AutoApproved[r] \/ (~Unpaid(r) /\ ~Unpaid(r)')
  BY DEF Unpaid
<1>2. QED
  BY <1>1, Unmoved DEF RowHeld, RowOwed, Mine

\* What a step does to the days of the request it works on: it books what it
\* takes or gives back.
Booked(c, r) ==
  /\ used'[Owner[r]] + Val(RowOwed(r)', r) - Val(RowHeld(r)', r) - Val(Mine(c, r)', r)
       >= used[Owner[r]] + Val(RowOwed(r), r) - Val(RowHeld(r), r) - Val(Mine(c, r), r)
  /\ req'[r] # "cancelled" =>
       used'[Owner[r]] - Val(RowHeld(r)', r) - Val(Mine(c, r)', r)
         = used[Owner[r]] - Val(RowHeld(r), r) - Val(Mine(c, r), r)

LEMMA BookedSame ==
  ASSUME TypeOK, NEW c \in Calls, NEW r \in Requests, used' = used,
         RowHeld(r)' <=> RowHeld(r), RowOwed(r)' <=> RowOwed(r), Mine(c, r)' <=> Mine(c, r)
  PROVE  Booked(c, r)
<1>1. used[Owner[r]] \in Int /\ Days[r] \in Int
  BY ConstantsOK DEF TypeOK
<1>2. QED
  BY <1>1 DEF Booked, Val

\* The statements of submitRequest.
LEMMA SubmitBooked ==
  ASSUME TypeOK, SubmitterAlone, Chained, Places, Undisturbed,
         NEW c \in Calls, NEW r \in Requests, call[c].r = r, Submit(c),
         OnlyDecided \/ req'[r] # "gone"
  PROVE  Booked(c, r)
<1>c. Continue(c)
  BY DEF Continue
<1>0. NoCall.pc = "idle" /\ call[c] \in CallRecord /\ Owner[r] \in Employees /\ Days[r] \in Nat
        /\ used \in [Employees -> Int] /\ req[r] \in Statuses /\ Paid[r] \in BOOLEAN
  BY NoCallType, ConstantsOK DEF TypeOK
<1>1. Moves(c, call'[c].pc)
  BY <1>c, ContinueMoves
<1>s. Standing(c, r)
  BY DEF Places, AllStanding
<1>2. CASE SubmitCheckOverlap(c) \/ SubmitRaceCheck(c) \/ SubmitCreateApproval(c)
  <2>1. req' = req /\ used' = used
    BY <1>2 DEF SubmitCheckOverlap, SubmitRaceCheck, SubmitCreateApproval
  <2>2. /\ Paid[r] /\ AutoApproved[r] => (Provisional(c)' <=> Provisional(c))
        /\ ~Refunding(c) /\ ~Refunding(c)' /\ ~InHand(c) /\ ~InHand(c)'
    <3>1. call[c].pc \in {"checkOverlap", "raceCheck", "createApproval"}
      BY <1>2 DEF SubmitCheckOverlap, SubmitRaceCheck, SubmitCreateApproval, At
    <3>2. /\ call'[c].pc \in {"idle", "insert", "rollback", "createApproval", "autoDeduct", "syncRead"}
          /\ call[c].pc = "raceCheck" => call'[c].pc \in {"rollback", AfterRaceCheck(r)}
          /\ call[c].pc # "raceCheck" => call'[c].pc \in {"idle", "insert", "createApproval"}
      <4>1. ~Return(c) \/ call'[c].pc = "idle"
        BY <1>0 DEF TypeOK, Return
      <4>2. call[c].pc = "raceCheck" => ~(call'[c].pc = "idle")
        BY <1>2, GotoPlace DEF SubmitCheckOverlap, SubmitRaceCheck, SubmitCreateApproval, AfterRaceCheck, At
      <4>3. QED
        BY <1>1, <3>1, <4>2 DEF Moves, AfterRaceCheck, At, SubmitInsert, CancelUpdate, RejectStep
    <3>3. /\ Paid[r] /\ AutoApproved[r] => (Provisional(c)' <=> Provisional(c))
      BY <1>s, <3>1, <3>2 DEF Provisional, AfterRaceCheck, Standing, OfAChain
    <3>4. QED
      BY <3>1, <3>2, <3>3 DEF Refunding, Cancelling, InHand
  <2>3. QED
    BY <1>c, <2>1, <2>2, NothingMoves, BookedSame
<1>3. CASE SubmitInsert(c)
  <2>1. /\ call[c].pc = "insert" /\ call'[c].pc = "raceCheck" /\ call'[c].r = r
        /\ used' = used /\ req'[r] = IF AutoApproved[r] THEN "approved" ELSE "pending"
    BY <1>3, GotoPlace DEF SubmitInsert, At, TypeOK
  <2>2. req[r] = "absent" /\ \A d \in Calls : d # c /\ call[d].r = r => At(d, "idle")
    BY <2>1 DEF SubmitterAlone
  <2>3. ~RefundDue(r)
    BY <2>1, <2>2 DEF RefundDue, Refunding, Cancelling, At
  <2>4. ~RefundDue(r)'
    BY <1>c, <2>1, <2>3, Unmoved DEF Refunding, Cancelling
  <2>5. AutoApproved[r] => Unpaid(r)'
    BY <2>1 DEF Unpaid, Provisional
  <2>6. ~RowHeld(r) /\ ~RowOwed(r) /\ ~Mine(c, r)
    BY <2>1, <2>2, <2>3 DEF RowHeld, RowOwed, Mine, InHand
  <2>7. ~RowHeld(r)' /\ ~RowOwed(r)' /\ ~Mine(c, r)'
    BY <2>1, <2>4, <2>5 DEF RowHeld, RowOwed, Mine, InHand
  <2>8. QED
    BY <2>1, <2>6, <2>7, BookedSame
<1>4. CASE SubmitRollback(c)
  <2>1. /\ call[c].pc = "rollback" /\ call'[c].pc = "idle" /\ used' = used
        /\ Exists(r) => req'[r] = "gone"
        /\ ~Exists(r) => req' = req
    BY <1>0, <1>4 DEF SubmitRollback, DeleteRow, Return, At, TypeOK
  <2>2. req[r] # "absent"
    BY <1>s, <2>1 DEF Standing
  <2>3. OnlyDecided
    BY <2>1, <2>2 DEF Exists
  <2>4. req[r] = IF AutoApproved[r] THEN "approved" ELSE "pending"
    BY <2>1, <2>3 DEF Undisturbed
  <2>5. ~RefundDue(r)
    BY <2>3 DEF Undisturbed, RefundDue, Refunding, Cancelling
  <2>6. ~RefundDue(r)'
    BY <1>c, <2>1, <2>5, Unmoved DEF Refunding, Cancelling
  <2>7. AutoApproved[r] => Unpaid(r)
    BY <2>1 DEF Unpaid, Provisional
  <2>8. ~RowHeld(r) /\ ~RowOwed(r) /\ ~Mine(c, r)
    BY <2>1, <2>4, <2>5, <2>7 DEF RowHeld, RowOwed, Mine, InHand
  <2>9. ~RowHeld(r)' /\ ~RowOwed(r)' /\ ~Mine(c, r)'
    BY <2>1, <2>4, <2>6 DEF RowHeld, RowOwed, Mine, InHand, Exists
  <2>10. QED
    BY <2>1, <2>8, <2>9, BookedSame
<1>5. CASE SubmitAutoDeduct(c)
  <2>1. call[c].pc = "autoDeduct" /\ req' = req /\ AutoApproved[r] /\ Paid[r]
    BY <1>s, <1>5 DEF SubmitAutoDeduct, At, Standing
  <2>2. CASE bal[Owner[r]] >= Days[r] /\ Charge(r) /\ Goto(c, "syncRead")
    <3>1. call'[c].pc = "syncRead" /\ used'[Owner[r]] = used[Owner[r]] + Days[r]
      BY <1>0, <2>2, GotoPlace DEF Charge
    <3>2. Unpaid(r) /\ ~Mine(c, r) /\ ~Mine(c, r)' /\ ~RowHeld(r)
      BY <2>1, <3>1 DEF Unpaid, Provisional, Mine, InHand, RowHeld
    <3>3. ~Unpaid(r)'
      <4>1. \A d \in Calls : d # c => call'[d] = call[d]
        BY <1>c, ActiveShrinks
      <4>2. \A d \in Calls : d # c /\ call[d].r = r => ~Provisional(d)
        BY <2>1 DEF Chained, OneSubmission, InSubmission, Provisional
      <4>3. QED
        BY <3>1, <4>1, <4>2 DEF Unpaid, Provisional
    <3>4. RefundDue(r)' <=> RefundDue(r)
      BY <1>c, <2>1, <3>1, Unmoved DEF Refunding, Cancelling
    <3>5. ~RowOwed(r)'
      BY <3>3 DEF RowOwed
    <3>6. req[r] \in {"approved", "cancelled", "gone"}
      BY <1>0, <1>s, <2>1 DEF Standing, Places, AutoBare, Statuses
    <3>7. CASE req[r] = "approved" \/ RefundDue(r)
      <4>1. RowHeld(r)' /\ ~RowOwed(r)
        BY <2>1, <3>3, <3>4, <3>7 DEF RowHeld, RowOwed
      <4>2. QED
        BY <1>0, <3>1, <3>2, <3>5, <4>1 DEF Booked, Val
    <3>8. CASE req[r] = "cancelled" /\ ~RefundDue(r)
      <4>1. ~RowHeld(r)' /\ RowOwed(r) /\ req'[r] = "cancelled"
        BY <2>1, <3>2, <3>4, <3>8 DEF RowHeld, RowOwed
      <4>2. QED
        BY <1>0, <3>1, <3>2, <3>5, <4>1 DEF Booked, Val
    <3>9. CASE req[r] = "gone"
      BY <2>1, <3>9 DEF Undisturbed
    <3>10. QED
      BY <3>6, <3>7, <3>8, <3>9
  <2>3. CASE UNCHANGED <<bal, used>> /\ Goto(c, "rollback")
    <3>1. call'[c].pc = "rollback" /\ used' = used
      BY <2>3, GotoPlace
    <3>2. /\ Provisional(c) /\ Provisional(c)' /\ ~Refunding(c) /\ ~Refunding(c)'
          /\ ~InHand(c) /\ ~InHand(c)'
      BY <2>1, <3>1 DEF Provisional, Refunding, Cancelling, InHand
    <3>3. QED
      BY <1>c, <2>1, <3>1, <3>2, NothingMoves, BookedSame
  <2>4. QED
    BY <1>5, <2>2, <2>3 DEF SubmitAutoDeduct, DeductOrElse
<1>6. QED
  BY <1>2, <1>3, <1>4, <1>5 DEF Submit

\* The statements of approveRequest and rejectApproval, and the attendance sync.
LEMMA DecideBooked ==
  ASSUME TypeOK, SubmitterAlone, Chained, Places,
         NEW c \in Calls, NEW r \in Requests, call[c].r = r,
         Approve(c) \/ Reject(c) \/ SyncRead(c) \/ SyncWrite(c)
  PROVE  Booked(c, r)
<1>c. Continue(c)
  BY DEF Continue
<1>0. NoCall.pc = "idle" /\ call[c] \in CallRecord /\ Owner[r] \in Employees /\ Days[r] \in Nat
        /\ used \in [Employees -> Int] /\ req[r] \in Statuses /\ Paid[r] \in BOOLEAN
  BY NoCallType, ConstantsOK DEF TypeOK
<1>1. Moves(c, call'[c].pc)
  BY <1>c, ContinueMoves
<1>s. Standing(c, r)
  BY DEF Places, AllStanding
<1>2. CASE \/ ApproveAdvancePrior(c) \/ ApproveStep(c) \/ ApproveCountPending(c)
           \/ ApproveRereadRequest(c) \/ RejectStep(c) \/ RejectRemaining(c)
           \/ SyncRead(c) \/ SyncWrite(c)
  <2>1. /\ req' = req /\ used' = used
        /\ call[c].pc \in {"advancePrior", "approveStep", "countPending", "rereadRequest",
                           "rejectStep", "rejectRemaining", "syncRead", "syncWrite"}
    BY <1>2 DEF ApproveAdvancePrior, ApproveStep, ApproveCountPending, ApproveRereadRequest,
       RejectStep, RejectRemaining, SyncRead, SyncWrite, At
  <2>2. call'[c].pc \in {"idle", "advancePrior", "approveStep", "countPending", "rereadRequest",
                "deduct", "rejectRemaining", "rejectRequest", "syncWrite"}
          \/ (call'[c].pc = "approveRequest" /\ ~Paid[r])
    BY <1>1, <2>1 DEF Moves, At, SubmitInsert, CancelUpdate
  <2>3. InHand(c)' => call'[c].r = r
    BY <1>c, ContinueMoves DEF InHand
  <2>4. ~InHand(c) /\ ~InHand(c)' /\ ~Provisional(c) /\ ~Provisional(c)' /\ ~Refunding(c) /\ ~Refunding(c)'
    BY <2>1, <2>2, <2>3 DEF Refunding, Cancelling, InHand, Provisional
  <2>5. QED
    BY <1>c, <2>1, <2>4, NothingMoves, BookedSame
<1>3. CASE ApproveDeduct(c)
  <2>1. call[c].pc = "deduct" /\ req' = req /\ Paid[r]
    BY <1>s, <1>3 DEF ApproveDeduct, At, Standing
  <2>2. CASE Charge(r) /\ Goto(c, "approveRequest")
    <3>1. call'[c].pc = "approveRequest" /\ call'[c].r = r /\ used'[Owner[r]] = used[Owner[r]] + Days[r]
      BY <1>0, <2>2, GotoPlace DEF Charge
    <3>2. ~Mine(c, r) /\ Mine(c, r)'
      BY <2>1, <3>1 DEF Mine, InHand
    <3>3. (Unpaid(r)' <=> Unpaid(r)) /\ (RefundDue(r)' <=> RefundDue(r))
      BY <1>c, <2>1, <3>1, Unmoved DEF Provisional, Refunding, Cancelling
    <3>4. (RowHeld(r)' <=> RowHeld(r)) /\ (RowOwed(r)' <=> RowOwed(r))
      BY <2>1, <3>3 DEF RowHeld, RowOwed
    <3>5. QED
      BY <1>0, <3>1, <3>2, <3>4 DEF Booked, Val
  <2>3. CASE UNCHANGED <<bal, used>> /\ Return(c)
    <3>1. call'[c].pc = "idle" /\ used' = used
      BY <1>0, <2>3 DEF Return, TypeOK
    <3>2. /\ ~Provisional(c) /\ ~Provisional(c)' /\ ~Refunding(c) /\ ~Refunding(c)'
          /\ ~InHand(c) /\ ~InHand(c)'
      BY <2>1, <3>1 DEF Provisional, Refunding, Cancelling, InHand
    <3>3. QED
      BY <1>c, <2>1, <3>1, <3>2, NothingMoves, BookedSame
  <2>4. QED
    BY <1>3, <2>2, <2>3 DEF ApproveDeduct, DeductOrElse
<1>4. CASE ApproveRequest(c)
  <2>1. call[c].pc = "approveRequest" /\ used' = used /\ ~AutoApproved[r]
    BY <1>s, <1>4 DEF ApproveRequest, At, Standing, OfAChain
  <2>2. ~Unpaid(r) /\ ~Unpaid(r)'
    BY <2>1 DEF Unpaid
  <2>3. CASE req[r] = "pending"
    <3>1. req'[r] = "approved" /\ call'[c].pc = "syncRead"
      BY <1>4, <2>3, GotoPlace DEF ApproveRequest, TypeOK
    <3>2. ~RefundDue(r)
      BY <2>3 DEF Places, AllStanding, Standing, RefundDue, Refunding, Cancelling
    <3>3. ~RowHeld(r) /\ (RowHeld(r)' <=> Paid[r])
      BY <2>2, <2>3, <3>1, <3>2 DEF RowHeld
    <3>4. ~RowOwed(r) /\ ~RowOwed(r)'
      BY <2>2 DEF RowOwed
    <3>5. (Mine(c, r) <=> Paid[r]) /\ ~Mine(c, r)'
      BY <2>1, <3>1 DEF Mine, InHand
    <3>6. QED
      BY <1>0, <2>1, <3>3, <3>4, <3>5 DEF Booked, Val
  <2>4. CASE req[r] # "pending"
    <3>1. req' = req /\ (Paid[r] => Goto(c, "compensate")) /\ (~Paid[r] => Return(c))
      BY <1>4, <2>4 DEF ApproveRequest
    <3>2. InHand(c)' <=> InHand(c)
      <4>1. Return(c) => call'[c].pc = "idle"
        BY <1>0 DEF Return, TypeOK
      <4>2. QED
        BY <2>1, <3>1, <4>1, GotoPlace DEF InHand
    <3>3. ~Refunding(c) /\ ~Refunding(c)' /\ ~Provisional(c) /\ ~Provisional(c)'
      <4>1. Return(c) => call'[c].pc = "idle"
        BY <1>0 DEF Return, TypeOK
      <4>2. QED
        BY <2>1, <3>1, <4>1, GotoPlace DEF Refunding, Cancelling, Provisional
    <3>4. QED
      BY <1>c, <2>1, <3>1, <3>2, <3>3, NothingMoves, BookedSame
  <2>5. QED
    BY <2>3, <2>4
<1>5. CASE ApproveCompensate(c)
  <2>1. /\ call[c].pc = "compensate" /\ req' = req /\ Paid[r] /\ call'[c].pc = "idle"
        /\ used'[Owner[r]] = used[Owner[r]] - Days[r]
    BY <1>0, <1>s, <1>5 DEF ApproveCompensate, RestoreBalance, Return, At, Standing, TypeOK
  <2>2. Mine(c, r) /\ ~Mine(c, r)'
    BY <2>1 DEF Mine, InHand
  <2>3. (Unpaid(r)' <=> Unpaid(r)) /\ (RefundDue(r)' <=> RefundDue(r))
    BY <1>c, <2>1, Unmoved DEF Provisional, Refunding, Cancelling
  <2>4. (RowHeld(r)' <=> RowHeld(r)) /\ (RowOwed(r)' <=> RowOwed(r))
    BY <2>1, <2>3 DEF RowHeld, RowOwed
  <2>5. QED
    BY <1>0, <2>1, <2>2, <2>4 DEF Booked, Val
<1>6. CASE RejectRequest(c)
  <2>1. call[c].pc = "rejectRequest" /\ call'[c].pc = "idle" /\ used' = used
    BY <1>0, <1>6 DEF RejectRequest, Return, At, TypeOK
  <2>2. /\ ~Provisional(c) /\ ~Provisional(c)' /\ ~Refunding(c) /\ ~Refunding(c)'
        /\ ~InHand(c) /\ ~InHand(c)'
    BY <2>1 DEF Provisional, Refunding, Cancelling, InHand
  <2>3. CASE req[r] = "pending"
    <3>1. req'[r] = "rejected"
      BY <1>6, <2>3 DEF RejectRequest, TypeOK
    <3>2. ~RefundDue(r) /\ ~RefundDue(r)'
      <4>1. ~RefundDue(r)
        BY <2>3 DEF Places, AllStanding, Standing, RefundDue, Refunding, Cancelling
      <4>2. QED
        BY <1>c, <2>2, <4>1, Unmoved
    <3>3. ~RowHeld(r) /\ ~RowHeld(r)' /\ ~RowOwed(r) /\ ~RowOwed(r)' /\ ~Mine(c, r) /\ ~Mine(c, r)'
      BY <2>2, <2>3, <3>1, <3>2 DEF RowHeld, RowOwed, Mine
    <3>4. QED
      BY <2>1, <3>3, BookedSame
  <2>4. CASE req[r] # "pending"
    <3>1. req' = req
      BY <1>6, <2>4 DEF RejectRequest
    <3>2. QED
      BY <1>c, <2>1, <2>2, <3>1, NothingMoves, BookedSame
  <2>5. QED
    BY <2>3, <2>4
<1>7. QED
  BY <1>2, <1>3, <1>4, <1>5, <1>6 DEF Approve, Reject

\* The statements of cancelRequest and deleteRequest; a deletion is not booked.
LEMMA CancelBooked ==
  ASSUME TypeOK, SubmitterAlone, Chained, Places, Undisturbed,
         NEW c \in Calls, NEW r \in Requests, call[c].r = r, Cancel(c) \/ Delete(c),
         OnlyDecided \/ (req'[r] # "gone" /\ call'[c].pc \notin {"deleteReverse", "deleteApprovals", "deleteRow"})
  PROVE  Booked(c, r)
<1>c. Continue(c)
  BY DEF Continue
<1>0. NoCall.pc = "idle" /\ call[c] \in CallRecord /\ Owner[r] \in Employees /\ Days[r] \in Nat
        /\ used \in [Employees -> Int] /\ req[r] \in Statuses /\ Paid[r] \in BOOLEAN
  BY NoCallType, ConstantsOK DEF TypeOK
<1>s. Standing(c, r)
  BY DEF Places, AllStanding
<1>d. ~OnlyDecided
  BY DEF Undisturbed, Cancel, CancelUpdate, CancelApprovals, CancelRefund, CancelReverse,
     Delete, DeleteRefund, DeleteReverse, DeleteApprovals, DeleteRequest, At
<1>1. CASE CancelUpdate(c) /\ Active(r)
  <2>1. /\ call[c].pc = "cancelUpdate" /\ call'[c].pc = "cancelApprovals" /\ call'[c].r = r
        /\ used' = used /\ req'[r] = "cancelled"
    BY <1>1, GotoPlace DEF CancelUpdate, At, TypeOK
  <2>2. call'[c].was = call[c].was
    BY <1>c, <2>1, ContinueMoves
  <2>3. \A d \in Calls : call[d].r = r => ~Refunding(d)
    BY <1>1 DEF Places, AllStanding, Standing, Refunding, Cancelling, Active
  <2>4. RefundDue(r)' <=> call[c].was
    <3>1. \A d \in Calls : d # c => call'[d] = call[d]
      BY <1>c, ActiveShrinks
    <3>2. call'[c].was <=> Refunding(c)'
      BY <2>1 DEF Refunding, Cancelling
    <3>3. QED
      BY <2>1, <2>2, <2>3, <3>1, <3>2 DEF RefundDue, Refunding, Cancelling
  <2>5. Unpaid(r)' <=> Unpaid(r)
    BY <1>c, <2>1, Unmoved DEF Provisional
  <2>6. call[c].was => req[r] = "approved"
    BY <1>1, <1>s, <2>1 DEF Standing, At, Granted, Active
  <2>7. ~RowOwed(r) /\ ~Mine(c, r) /\ ~Mine(c, r)'
    BY <1>1, <2>1 DEF RowOwed, Active, Mine, InHand
  <2>8. ~RowOwed(r)'
    BY <1>s, <2>1, <2>4, <2>5 DEF RowOwed, Standing, At, Unpaid
  <2>9. RowHeld(r)' => RowHeld(r)
    BY <2>4, <2>5, <2>6, <2>1 DEF RowHeld
  <2>10. QED
    BY <1>0, <2>1, <2>7, <2>8, <2>9 DEF Booked, Val
<1>2. CASE CancelUpdate(c) /\ ~Active(r)
  <2>1. call[c].pc = "cancelUpdate" /\ call'[c].pc = "idle" /\ used' = used /\ req' = req
    BY <1>0, <1>2 DEF CancelUpdate, Return, At, TypeOK
  <2>2. /\ ~Provisional(c) /\ ~Provisional(c)' /\ ~Refunding(c) /\ ~Refunding(c)'
        /\ ~InHand(c) /\ ~InHand(c)'
    BY <2>1 DEF Provisional, Refunding, Cancelling, InHand
  <2>3. QED
    BY <1>c, <2>1, <2>2, NothingMoves, BookedSame
<1>3. CASE CancelApprovals(c)
  <2>1. call[c].pc = "cancelApprovals" /\ used' = used /\ req' = req
    BY <1>3 DEF CancelApprovals, At
  <2>2. \/ call[c].was /\ Paid[r] /\ call'[c].pc = "cancelRefund" /\ call'[c].was = call[c].was
        \/ ~(call[c].was /\ Paid[r]) /\ call'[c].pc = "idle"
    <3>1. CASE call[c].was /\ Paid[r]
      <4>1. call'[c].pc = "cancelRefund"
        BY <1>3, <3>1, GotoPlace DEF CancelApprovals
      <4>2. QED
        BY <1>c, <3>1, <4>1, ContinueMoves
    <3>2. CASE ~(call[c].was /\ Paid[r])
      BY <1>0, <1>3, <3>2 DEF CancelApprovals, Return, TypeOK
    <3>3. QED
      BY <3>1, <3>2
  <2>3. /\ ~Provisional(c) /\ ~Provisional(c)'
        /\ Paid[r] => (Refunding(c)' <=> Refunding(c))
        /\ ~InHand(c) /\ ~InHand(c)'
    BY <2>1, <2>2 DEF Provisional, Refunding, Cancelling, InHand
  <2>4. QED
    BY <1>c, <2>1, <2>3, NothingMoves, BookedSame
<1>4. CASE CancelRefund(c)
  <2>1. /\ call[c].pc = "cancelRefund" /\ call'[c].pc = "cancelReverse" /\ req' = req
        /\ used'[Owner[r]] = used[Owner[r]] - Days[r]
    BY <1>0, <1>4, GotoPlace DEF CancelRefund, RestoreBalance, At
  <2>2. call[c].was /\ Paid[r] /\ req[r] = "cancelled"
    BY <1>d, <1>s, <2>1 DEF Standing, At
  <2>3. RefundDue(r)
    BY <2>1, <2>2 DEF RefundDue, Refunding, Cancelling
  <2>4. ~RefundDue(r)'
    <3>1. \A d \in Calls : d # c => call'[d] = call[d]
      BY <1>c, ActiveShrinks
    <3>2. \A d \in Calls : d # c /\ call[d].r = r => ~Refunding(d)
      BY <2>1 DEF Places, OneCanceller, Refunding, Cancelling
    <3>3. QED
      BY <2>1, <3>1, <3>2 DEF RefundDue, Refunding, Cancelling
  <2>5. Unpaid(r)' <=> Unpaid(r)
    BY <1>c, <2>1, Unmoved DEF Provisional
  <2>6. ~Mine(c, r) /\ ~Mine(c, r)' /\ ~RowOwed(r) /\ ~RowHeld(r)' /\ req'[r] = "cancelled"
    BY <2>1, <2>2, <2>3, <2>4 DEF Mine, InHand, RowOwed, RowHeld
  <2>7. (RowHeld(r) /\ ~RowOwed(r)') \/ (~RowHeld(r) /\ RowOwed(r)')
    BY <2>2, <2>3, <2>4, <2>5, <2>6 DEF RowHeld, RowOwed
  <2>8. QED
    BY <1>0, <2>1, <2>6, <2>7 DEF Booked, Val
<1>5. CASE CancelReverse(c)
  <2>1. call[c].pc = "cancelReverse" /\ call'[c].pc = "idle" /\ used' = used /\ req' = req
    BY <1>0, <1>5 DEF CancelReverse, Return, At, TypeOK
  <2>2. /\ ~Provisional(c) /\ ~Provisional(c)' /\ ~Refunding(c) /\ ~Refunding(c)'
        /\ ~InHand(c) /\ ~InHand(c)'
    BY <2>1 DEF Provisional, Refunding, Cancelling, InHand
  <2>3. QED
    BY <1>c, <2>1, <2>2, NothingMoves, BookedSame
<1>6. CASE Delete(c)
  <2>1. CASE DeleteRefund(c) \/ DeleteReverse(c) \/ DeleteApprovals(c)
    BY <1>d, <2>1, GotoPlace DEF DeleteRefund, DeleteReverse, DeleteApprovals
  <2>2. CASE DeleteRequest(c)
    <3>1. CASE Exists(r)
      BY <1>d, <2>2, <3>1 DEF DeleteRequest, DeleteRow, TypeOK
    <3>2. CASE ~Exists(r)
      BY <1>d, <1>s, <2>2, <3>2 DEF DeleteRequest, Standing, Exists, At
    <3>3. QED
      BY <3>1, <3>2
  <2>3. QED
    BY <1>6, <2>1, <2>2 DEF Delete
<1>7. QED
  BY <1>1, <1>2, <1>3, <1>4, <1>5, <1>6 DEF Cancel

\* An employee none of whose requests is deleted after a step had none deleted before.
LEMMA WholeBefore ==
  ASSUME TypeOK, SubmitterAlone, Places, Undisturbed, NEW c \in Calls, Start(c) \/ Continue(c),
         NEW e \in Employees, Whole(e)'
  PROVE  /\ Whole(e)
         /\ Uncancelled(e)' => Uncancelled(e)
<1>1. \A d \in Calls : d # c => call'[d] = call[d]
  BY ActiveShrinks
<1>2. \A r \in Requests : /\ req[r] = "gone" => req'[r] = "gone"
                          /\ req[r] = "cancelled" => req'[r] \in {"cancelled", "gone"}
  BY DecisionStep DEF StatusStep
<1>3. ASSUME OnlyDecided
      PROVE  Whole(e) /\ (Uncancelled(e)' => Uncancelled(e))
  BY <1>3 DEF Whole, Uncancelled, Undisturbed, RequestsOf
<1>4. ASSUME Undeleted(e)'
      PROVE  Whole(e) /\ (Uncancelled(e)' => Uncancelled(e))
  <2>1. \A r \in RequestsOf(e) : req'[r] # "gone" /\ r \in Requests
    BY <1>4 DEF Undeleted, RequestsOf
  <2>2. ASSUME NEW r \in RequestsOf(e), call[c].r = r,
               call[c].pc \in {"deleteReverse", "deleteApprovals", "deleteRow"}
        PROVE  FALSE
    <3>1. Continue(c) /\ r \in Requests
      BY <2>1, <2>2, StartMoves DEF At
    <3>2. CASE DeleteReverse(c) \/ DeleteApprovals(c)
      <4>1. call'[c].pc \in {"deleteApprovals", "deleteRow"} /\ call'[c].r = r
        BY <2>2, <3>2, GotoPlace DEF DeleteReverse, DeleteApprovals
      <4>2. QED
        BY <1>4, <2>2, <4>1 DEF Undeleted, RequestsOf
    <3>3. CASE DeleteRequest(c)
      <4>1. req[r] # "absent"
        BY <2>2, <3>1 DEF Places, AllStanding, Standing
      <4>2. req'[r] = "gone"
        BY <2>2, <3>1, <3>3, <4>1 DEF DeleteRequest, DeleteRow, Exists, TypeOK
      <4>3. QED
        BY <2>1, <2>2, <4>2
    <3>4. QED
      BY <2>2, <3>1, <3>2, <3>3 DEF Continue, Submit, SubmitCheckOverlap, SubmitInsert, SubmitRaceCheck,
         SubmitRollback, SubmitCreateApproval, SubmitAutoDeduct, SyncRead, SyncWrite, Approve,
         ApproveAdvancePrior, ApproveStep, ApproveCountPending, ApproveRereadRequest, ApproveDeduct,
         ApproveRequest, ApproveCompensate, Reject, RejectStep, RejectRemaining, RejectRequest, Cancel,
         CancelUpdate, CancelApprovals, CancelRefund, CancelReverse, Delete, DeleteRefund, At
  <2>3. Undeleted(e)
    BY <1>1, <1>2, <1>4, <2>1, <2>2 DEF Undeleted, RequestsOf
  <2>4. Uncancelled(e)' => Uncancelled(e)
    BY <1>2, <2>1 DEF Uncancelled, RequestsOf
  <2>5. QED
    BY <2>3, <2>4 DEF Whole
<1>5. QED
  BY <1>3, <1>4 DEF Whole

LEMMA StepBooked ==
  ASSUME TypeOK, SubmitterAlone, Chained, Places, Undisturbed,
         NEW c \in Calls, NEW r \in Requests, call[c].r = r, Continue(c), Whole(Owner[r])'
  PROVE  Booked(c, r)
<1>1. r \in RequestsOf(Owner[r])
  BY DEF RequestsOf
<1>2. \/ OnlyDecided
      \/ /\ req'[r] # "gone"
         /\ call'[c].r = r => call'[c].pc \notin {"deleteReverse", "deleteApprovals", "deleteRow"}
  BY <1>1 DEF Whole, Undeleted, RequestsOf
<1>3. call'[c].pc \in {"deleteReverse", "deleteApprovals", "deleteRow"} => call'[c].r = r
  BY ContinueMoves
<1>4. QED
  BY <1>2, <1>3, SubmitBooked, DecideBooked, CancelBooked DEF Continue

\* The other employees' days are not touched.
LEMMA OthersUsed ==
  ASSUME TypeOK, NEW c \in Calls, NEW r \in Requests, call[c].r = r, Continue(c),
         NEW e \in Employees, e # Owner[r]
  PROVE  used'[e] = used[e]
<1>1. UNCHANGED <<bal, used>> \/ Charge(r) \/ RestoreBalance(r)
  BY BalanceOnlyMoves
<1>2. QED
  BY <1>1 DEF Charge, RestoreBalance, TypeOK

\* Days of a unit held, and the finiteness the sums need.
LEMMA HoldingsType ==
  ASSUME NEW e \in Employees
  PROVE  /\ IsFiniteSet(Requests) /\ IsFiniteSet(Requests \X Calls)
         /\ Days \in [Requests -> Nat] /\ Days \in [Requests -> Int]
         /\ HandDays \in [Requests \X Calls -> Nat] /\ HandDays \in [Requests \X Calls -> Int]
         /\ RowsHeld(e) \in SUBSET Requests /\ RowsOwed(e) \in SUBSET Requests
         /\ HandsHeld(e) \in SUBSET (Requests \X Calls)
<1>1. IsFiniteSet(Requests \X Calls)
  BY ConstantsOK, FS_Product
<1>2. \A u \in Requests \X Calls : u[1] \in Requests
  OBVIOUS
<1>3. QED
  BY <1>1, <1>2, ConstantsOK DEF HandDays, RowsHeld, RowsOwed, HandsHeld, RequestsOf

LEMMA LedgerStep ==
  ASSUME TypeOK, SubmitterAlone, Chained, Places, Undisturbed, LedgerKept,
         NEW c \in Calls, Start(c) \/ Continue(c)
  PROVE  LedgerKept'
<1>1. ASSUME NEW e \in Employees, Whole(e)'
      PROVE  /\ used'[e] + SumOf(Days, RowsOwed(e)') >= SumOf(Days, RowsHeld(e)') + SumOf(HandDays, HandsHeld(e)')
             /\ Uncancelled(e)' => used'[e] = SumOf(Days, RowsHeld(e)') + SumOf(HandDays, HandsHeld(e)')
  <2>1. Whole(e) /\ (Uncancelled(e)' => Uncancelled(e))
    BY <1>1, WholeBefore
  <2>2. /\ used[e] + SumOf(Days, RowsOwed(e)) >= SumOf(Days, RowsHeld(e)) + SumOf(HandDays, HandsHeld(e))
        /\ Uncancelled(e) => used[e] = SumOf(Days, RowsHeld(e)) + SumOf(HandDays, HandsHeld(e))
    BY <2>1 DEF LedgerKept, Taken
  <2>3. CASE Start(c)
    <3>1. /\ RowsHeld(e)' = RowsHeld(e) /\ RowsOwed(e)' = RowsOwed(e) /\ HandsHeld(e)' = HandsHeld(e)
          /\ used' = used
      BY <2>3, StartHolds
    <3>2. QED
      BY <2>1, <2>2, <3>1
  <2>4. CASE Continue(c)
    <3>1. PICK r \in Requests : r = call[c].r
      BY DEF TypeOK, CallRecord
    <3>2. PICK HO \in SUBSET Requests, OO \in SUBSET Requests, MO \in SUBSET (Requests \X Calls) :
            HO = RowsHeld(e) /\ OO = RowsOwed(e) /\ MO = HandsHeld(e)
      BY HoldingsType
    <3>3. PICK HN \in SUBSET Requests, ON \in SUBSET Requests, MN \in SUBSET (Requests \X Calls) :
            HN = RowsHeld(e)' /\ ON = RowsOwed(e)' /\ MN = HandsHeld(e)'
      BY DEF RowsHeld, RowsOwed, HandsHeld, RequestsOf
    <3>4. HO \ {r} = HN \ {r} /\ OO \ {r} = ON \ {r} /\ MO \ {<<r, c>>} = MN \ {<<r, c>>}
      BY <2>4, <3>1, <3>2, <3>3, OthersHold
    <3> DEFINE S(T) == SumOf(Days, T)
               P(T) == SumOf(HandDays, T)
               D == Days[r]
    <3>5. /\ S(HN) - Val(r \in HN, r) = S(HO) - Val(r \in HO, r)
          /\ S(ON) - Val(r \in ON, r) = S(OO) - Val(r \in OO, r)
      BY <3>4, HoldingsType, SumDiffer DEF Val
    <3>6. P(MN) - Val(<<r, c>> \in MN, r) = P(MO) - Val(<<r, c>> \in MO, r)
      <4>1. HandDays[<<r, c>>] = D /\ <<r, c>> \in Requests \X Calls
        BY DEF HandDays
      <4>2. QED
        BY <3>4, <4>1, HoldingsType, SumDiffer DEF Val
    <3>7. /\ S(HN) \in Int /\ S(HO) \in Int /\ S(ON) \in Int /\ S(OO) \in Int
          /\ P(MN) \in Int /\ P(MO) \in Int
      BY HoldingsType, SumType
    <3>8. D \in Int /\ used[e] \in Int /\ used'[e] \in Int
      BY <2>4, StartType, SubmitType, ApproveType, DecideType, ConstantsOK DEF TypeOK, Continue
    <3>9. CASE e # Owner[r]
      <4>1. r \notin HN /\ r \notin HO /\ r \notin ON /\ r \notin OO /\ <<r, c>> \notin MN /\ <<r, c>> \notin MO
        BY <3>2, <3>3, <3>9 DEF RowsHeld, RowsOwed, HandsHeld, RequestsOf
      <4>2. used'[e] = used[e]
        BY <2>4, <3>1, <3>9, OthersUsed
      <4>3. QED
        BY <2>1, <2>2, <3>2, <3>3, <3>4, <4>1, <4>2
    <3>10. CASE e = Owner[r]
      <4>1. /\ r \in HO <=> RowHeld(r)
            /\ r \in OO <=> RowOwed(r)
            /\ r \in HN <=> RowHeld(r)'
            /\ r \in ON <=> RowOwed(r)'
            /\ <<r, c>> \in MO <=> Mine(c, r)
            /\ <<r, c>> \in MN <=> Mine(c, r)'
        BY <3>2, <3>3, <3>10 DEF RowsHeld, RowsOwed, HandsHeld, RequestsOf, Mine
      <4>2. Booked(c, r)
        BY <1>1, <2>4, <3>1, <3>10, StepBooked
      <4>3. /\ used'[e] + Val(r \in ON, r) - Val(r \in HN, r) - Val(<<r, c>> \in MN, r)
                 >= used[e] + Val(r \in OO, r) - Val(r \in HO, r) - Val(<<r, c>> \in MO, r)
            /\ req'[r] # "cancelled" =>
                 used'[e] - Val(r \in HN, r) - Val(<<r, c>> \in MN, r)
                   = used[e] - Val(r \in HO, r) - Val(<<r, c>> \in MO, r)
        BY <3>10, <4>1, <4>2 DEF Booked, Val
      <4>4. Uncancelled(e)' => req'[r] # "cancelled"
        BY <3>10 DEF Uncancelled, RequestsOf
      <4>v. /\ Val(r \in HN, r) \in Int /\ Val(r \in HO, r) \in Int
            /\ Val(r \in ON, r) \in Int /\ Val(r \in OO, r) \in Int
            /\ Val(<<r, c>> \in MN, r) \in Int /\ Val(<<r, c>> \in MO, r) \in Int
        BY <3>8 DEF Val
      <4>5. PICK hn \in Int, ho \in Int, on \in Int, oo \in Int, mn \in Int, mo \in Int :
              /\ hn = Val(r \in HN, r) /\ ho = Val(r \in HO, r)
              /\ on = Val(r \in ON, r) /\ oo = Val(r \in OO, r)
              /\ mn = Val(<<r, c>> \in MN, r) /\ mo = Val(<<r, c>> \in MO, r)
        BY <4>v
      <4> HIDE DEF S, P
      <4>6. used[e] + S(OO) >= S(HO) + P(MO) /\ (Uncancelled(e) => used[e] = S(HO) + P(MO))
        BY <2>2, <3>2 DEF S, P
      <4>7. used'[e] + S(ON) >= S(HN) + P(MN)
        BY <3>5, <3>6, <3>7, <3>8, <4>3, <4>5, <4>6
      <4>8. Uncancelled(e)' => used'[e] = S(HN) + P(MN)
        BY <2>1, <3>5, <3>6, <3>7, <3>8, <4>3, <4>4, <4>5, <4>6
      <4>9. QED
        BY <3>3, <4>7, <4>8 DEF S, P
    <3>11. QED
      BY <3>9, <3>10
  <2>5. QED
    BY <2>3, <2>4
<1>2. QED
  BY <1>1 DEF LedgerKept, Taken

LEMMA ConservedStep ==
  ASSUME TypeOK, Conserved, NEW c \in Calls, Start(c) \/ Continue(c)
  PROVE  Conserved'
<1>1. PICK r \in Requests : r = call[c].r
  BY DEF TypeOK, CallRecord
<1>2. UNCHANGED <<bal, used>> \/ Charge(r) \/ RestoreBalance(r)
  BY <1>1, BalanceOnlyMoves
<1>3. Owner[r] \in Employees /\ Days[r] \in Int
  BY ConstantsOK
<1>4. CASE UNCHANGED <<bal, used>>
  BY <1>4 DEF Conserved
<1>5. CASE Charge(r) \/ RestoreBalance(r)
  BY <1>3, <1>5 DEF Conserved, Charge, RestoreBalance, TypeOK
<1>6. QED
  BY <1>2, <1>4, <1>5

\* The sums of the specification are these sums.
LEMMA ChargedIsSum ==
  ASSUME NEW e \in Employees
  PROVE  Charged(e) = SumOf(Days, {r \in RequestsOf(e) : Paid[r] /\ req[r] = "approved"})
BY DEF Charged, SumOf

LEMMA EmptySums == SumOf(Days, {}) = 0 /\ SumOf(HandDays, {}) = 0
<1>1. IsFiniteSet(Requests) /\ IsFiniteSet(Requests \X Calls) /\ Days \in [Requests -> Int]
        /\ HandDays \in [Requests \X Calls -> Int]
  BY ConstantsOK, FS_Product DEF HandDays
<1>2. QED
  BY <1>1, SumEmpty

LEMMA LedgerAlways == Spec => [](LedgerKept /\ Conserved)
<1>1. Init => LedgerKept /\ Conserved
  <2>1. SUFFICES ASSUME Init PROVE LedgerKept /\ Conserved
    OBVIOUS
  <2>2. \A c \in Calls : call[c].pc = "idle"
    BY <2>1, NoCallType DEF Init
  <2>3. \A e \in Employees : RowsHeld(e) = {} /\ RowsOwed(e) = {} /\ HandsHeld(e) = {}
    BY <2>1, <2>2 DEF Init, RowsHeld, RowsOwed, HandsHeld, RowHeld, RowOwed, RefundDue, Refunding,
       Cancelling, InHand, RequestsOf
  <2>4. \A e \in Employees : used[e] = 0 /\ bal[e] = InitBalance[e] /\ InitBalance[e] \in Int
    BY <2>1, ConstantsOK DEF Init
  <2>5. ASSUME NEW e \in Employees
        PROVE  used[e] + SumOf(Days, RowsOwed(e)) = 0 /\ Taken(e) = 0
    BY <2>3, <2>4, EmptySums DEF Taken
  <2>6. \A e \in Employees : bal[e] + used[e] = InitBalance[e]
    BY <2>4
  <2>7. LedgerKept
    BY <2>4, <2>5 DEF LedgerKept
  <2>8. QED
    BY <2>6, <2>7 DEF Conserved
<1>2. TypeOK /\ SubmitterAlone /\ Chained /\ Places /\ Undisturbed /\ LedgerKept /\ Conserved
        /\ [Next]_vars => LedgerKept' /\ Conserved'
  <2>1. ASSUME TypeOK, SubmitterAlone, Chained, Places, Undisturbed, LedgerKept, Conserved,
               NEW c \in Calls, Start(c) \/ Continue(c)
        PROVE  LedgerKept' /\ Conserved'
    BY <2>1, LedgerStep, ConservedStep
  <2>2. LedgerKept /\ Conserved /\ UNCHANGED vars => LedgerKept' /\ Conserved'
    <3>1. SUFFICES ASSUME LedgerKept, Conserved, UNCHANGED vars PROVE LedgerKept' /\ Conserved'
      OBVIOUS
    <3>2. ASSUME NEW e \in Employees
          PROVE  /\ Whole(e)' <=> Whole(e)
                 /\ Uncancelled(e)' <=> Uncancelled(e)
                 /\ RowsHeld(e)' = RowsHeld(e) /\ RowsOwed(e)' = RowsOwed(e) /\ HandsHeld(e)' = HandsHeld(e)
                 /\ used'[e] = used[e] /\ bal'[e] = bal[e]
      BY <3>1 DEF Whole, Undeleted, Uncancelled, RowsHeld, RowsOwed, HandsHeld, RowHeld, RowOwed,
         RefundDue, Refunding, Cancelling, Unpaid, Provisional, InHand, RequestsOf, vars
    <3>3. QED
      BY <3>1, <3>2 DEF LedgerKept, Conserved, Taken
  <2>3. QED
    BY <2>1, <2>2 DEF Next
<1>3. QED
  BY <1>1, <1>2, TypeCorrect, SubmitterIsAlone, ChainedAlways, PlacesAlways, UndisturbedAlways,
     PTL DEF Spec

\* With no handler on the requests of e, the days held are those of its approved
\* paid requests.
LEMMA RestHolds ==
  ASSUME TypeOK, NEW e \in Employees, AtRest(e), \A r \in RequestsOf(e) : req[r] # "gone"
  PROVE  /\ Undeleted(e) /\ Taken(e) = Charged(e) /\ Charged(e) \in Int
         /\ SumOf(Days, RowsOwed(e)) = 0
<1>1. \A r \in RequestsOf(e), c \in Calls : call[c].r = r => call[c].pc = "idle"
  BY DEF AtRest, Quiet, At
<1>2. Undeleted(e)
  BY <1>1 DEF Undeleted
<1>3. \A r \in RequestsOf(e) : ~Unpaid(r) /\ ~RefundDue(r)
  BY <1>1 DEF Unpaid, Provisional, RefundDue, Refunding, Cancelling
<1>4. RowsHeld(e) = {r \in RequestsOf(e) : Paid[r] /\ req[r] = "approved"} /\ RowsOwed(e) = {}
  BY <1>3 DEF RowsHeld, RowsOwed, RowHeld, RowOwed
<1>5. HandsHeld(e) = {}
  <2>1. ASSUME NEW u \in HandsHeld(e)
        PROVE  FALSE
    <3>1. u[1] \in RequestsOf(e) /\ u[2] \in Calls /\ call[u[2]].r = u[1] /\ InHand(u[2])
      BY DEF HandsHeld, RequestsOf
    <3>2. QED
      BY <1>1, <3>1 DEF InHand
  <2>2. QED
    BY <2>1
<1>6. SumOf(Days, RowsHeld(e)) \in Int
  BY HoldingsType, SumType
<1>7. QED
  BY <1>2, <1>4, <1>5, <1>6, EmptySums, ChargedIsSum DEF Taken

\* The books balance: at rest an employee has used what the approved paid requests
\* cost, unless a cancellation or a deletion came between.
THEOREM BooksBalance == Spec => []LedgerSettled
<1>1. TypeOK /\ LedgerKept /\ Conserved => LedgerSettled
  <2>1. ASSUME TypeOK, LedgerKept, Conserved, NEW e \in Employees, AtRest(e),
               \A r \in RequestsOf(e) : req[r] \notin {"cancelled", "gone"}
        PROVE  used[e] = Charged(e) /\ bal[e] = InitBalance[e] - Charged(e)
    <3>1. Undeleted(e) /\ Taken(e) = Charged(e)
      BY <2>1, RestHolds
    <3>2. used[e] = Charged(e)
      BY <2>1, <3>1 DEF LedgerKept, Whole, Uncancelled
    <3>3. bal[e] + used[e] = InitBalance[e] /\ bal[e] \in Int /\ used[e] \in Int
      BY <2>1 DEF Conserved, TypeOK
    <3>4. QED
      BY <3>2, <3>3
  <2>2. QED
    BY <2>1 DEF LedgerSettled
<1>2. QED
  BY <1>1, TypeCorrect, LedgerAlways, PTL

\* A cancellation may lose days but never gives back what was not taken.
THEOREM NoDaysFromNowhere == Spec => []NoFreeDays
<1>1. TypeOK /\ LedgerKept => NoFreeDays
  <2>1. ASSUME TypeOK, LedgerKept, NEW e \in Employees, AtRest(e),
               \A r \in RequestsOf(e) : req[r] # "gone"
        PROVE  used[e] >= Charged(e)
    <3>1. Undeleted(e) /\ Taken(e) = Charged(e) /\ Charged(e) \in Int /\ SumOf(Days, RowsOwed(e)) = 0
      BY <2>1, RestHolds
    <3>2. used[e] + SumOf(Days, RowsOwed(e)) >= Charged(e)
      BY <2>1, <3>1 DEF LedgerKept, Whole
    <3>3. used[e] \in Int
      BY <2>1 DEF TypeOK
    <3>4. QED
      BY <3>1, <3>2, <3>3
  <2>2. QED
    BY <2>1 DEF NoFreeDays
<1>2. QED
  BY <1>1, TypeCorrect, LedgerAlways, PTL

-----------------------------------------------------------------------------
(* LeaveRequests implements LeaveLedger.                                   *)

\* The requests that are charged to e in the ledger.
Bought(e) == {r \in RequestsOf(e) : Paid[r] /\ VisibleStatus[r] = "approved"}

\* What the ledger leaves each employee, as one sum; it is the visible balance.
LedgerBalance == [e \in Employees |-> InitBalance[e] - SumOf(Days, Bought(e))]

Agrees == VisibleBalance = LedgerBalance

LEMMA VisibleBalanceIs == VisibleBalance = LedgerBalance
BY DEF VisibleBalance, LedgerBalance, SumOf, Bought

LEMMA VisibleBalanceNext == VisibleBalance' = LedgerBalance'
<1>1. Agrees
  BY VisibleBalanceIs DEF Agrees
<1>2. Agrees'
  BY <1>1, PTL
<1>3. QED
  BY <1>2 DEF Agrees

LEMMA LedgerBalanceIs ==
  ASSUME NEW e \in Employees
  PROVE  /\ LedgerBalance[e] = InitBalance[e] - SumOf(Days, Bought(e))
         /\ LedgerBalance'[e] = InitBalance[e] - SumOf(Days, Bought(e)')
BY DEF LedgerBalance

\* While nothing is cancelled or deleted they are those whose days are held.
LEMMA BoughtIsHeld ==
  ASSUME OnlyDecided, Undisturbed, NEW e \in Employees
  PROVE  Bought(e) = RowsHeld(e)
<1>1. ASSUME NEW r \in Requests
      PROVE  Paid[r] /\ VisibleStatus[r] = "approved" <=> RowHeld(r)
  <2>1. ~RefundDue(r)
    BY DEF Undisturbed, RefundDue, Refunding, Cancelling
  <2>2. Tentative(r) /\ ~Unpaid(r) => req[r] # "approved"
    BY DEF Undisturbed, Tentative, Unpaid, Provisional
  <2>3. Unpaid(r) => Tentative(r)
    BY DEF Tentative, Unpaid, Provisional
  <2>4. QED
    BY <2>1, <2>2, <2>3 DEF VisibleStatus, RowHeld
<1>2. QED
  BY <1>1 DEF Bought, RowsHeld, RequestsOf

\* What is left in the ledger is the balance, with what handlers in flight have
\* taken put back.
LEMMA VisibleLeft ==
  ASSUME OnlyDecided, Undisturbed, TypeOK, LedgerKept, Conserved, NEW e \in Employees
  PROVE  VisibleBalance[e] = bal[e] + SumOf(HandDays, HandsHeld(e))
<1>1. Uncancelled(e) /\ Whole(e)
  BY DEF Undisturbed, Uncancelled, Whole, RequestsOf
<1>2. used[e] = Taken(e) /\ bal[e] + used[e] = InitBalance[e]
  BY <1>1 DEF LedgerKept, Conserved
<1>3. PICK x : x = SumOf(Days, RowsHeld(e))
  OBVIOUS
<1>4. PICK y : y = SumOf(HandDays, HandsHeld(e))
  OBVIOUS
<1>5. x \in Int /\ y \in Int
  BY <1>3, <1>4, HoldingsType, SumType
<1>6. VisibleBalance[e] = InitBalance[e] - x
  BY <1>3, BoughtIsHeld, VisibleBalanceIs, LedgerBalanceIs
<1>7. used[e] = x + y
  BY <1>2, <1>3, <1>4 DEF Taken
<1>8. bal[e] \in Int /\ InitBalance[e] \in Int
  BY ConstantsOK DEF TypeOK
<1>9. QED
  BY <1>2, <1>4, <1>5, <1>6, <1>7, <1>8

\* So what a handler has taken, or is free to take, is there to be paid.
LEMMA CanPay ==
  ASSUME OnlyDecided, Undisturbed, TypeOK, LedgerKept, Conserved, NoOverdraft,
         NEW c \in Calls, NEW r \in Requests,
         bal[Owner[r]] >= Days[r] \/ Mine(c, r)
  PROVE  VisibleBalance[Owner[r]] >= Days[r]
<1> DEFINE e == Owner[r]
           H == HandsHeld(e)
<1>1. e \in Employees /\ Days[r] \in Nat /\ bal[e] \in Int /\ bal[e] >= 0
  BY ConstantsOK DEF TypeOK, NoOverdraft
<1>2. VisibleBalance[e] = bal[e] + SumOf(HandDays, H)
  BY <1>1, VisibleLeft
<1>3. /\ IsFiniteSet(Requests \X Calls) /\ HandDays \in [Requests \X Calls -> Nat]
      /\ HandDays \in [Requests \X Calls -> Int] /\ H \in SUBSET (Requests \X Calls)
  BY <1>1, HoldingsType
<1> HIDE DEF H, e
<1>4. ASSUME NEW T \in SUBSET (Requests \X Calls)
      PROVE  SumOf(HandDays, T) \in Int /\ SumOf(HandDays, T) >= 0
  <2>1. SumOf(HandDays, {}) = 0 /\ SumOf(HandDays, T) \in Int
    BY <1>3, SumType, EmptySums
  <2>2. {} \in SUBSET T
    OBVIOUS
  <2>3. SumOf(HandDays, {}) <= SumOf(HandDays, T)
    BY <1>3, <2>2, SumMonotone
  <2>4. QED
    BY <2>1, <2>3
<1>5. CASE bal[e] >= Days[r]
  BY <1>1, <1>2, <1>3, <1>4, <1>5 DEF e
<1>6. CASE Mine(c, r)
  <2>1. <<r, c>> \in H /\ HandDays[<<r, c>>] = Days[r]
    BY <1>6 DEF H, e, HandsHeld, Mine, HandDays
  <2>2. SumOf(HandDays, H) = Days[r] + SumOf(HandDays, H \ {<<r, c>>})
    BY <1>3, <2>1, SumPeel
  <2>3. PICK x : x = SumOf(HandDays, H \ {<<r, c>>})
    OBVIOUS
  <2>4. H \ {<<r, c>>} \in SUBSET (Requests \X Calls)
    BY <1>3
  <2>5. x \in Int /\ x >= 0
    BY <1>4, <2>3, <2>4
  <2>6. VisibleBalance[e] = bal[e] + (Days[r] + x)
    BY <1>2, <2>2, <2>3
  <2>7. QED
    BY <1>1, <2>5, <2>6 DEF e
<1>7. QED
  BY <1>5, <1>6 DEF e

\* The visible status of one request moves.
LEMMA StatusMoves ==
  ASSUME NEW r \in Requests, \A q \in Requests : q # r => VisibleStatus'[q] = VisibleStatus[q]
  PROVE  /\ VisibleStatus' = [VisibleStatus EXCEPT ![r] = VisibleStatus'[r]]
         /\ VisibleStatus'[r] = VisibleStatus[r] => VisibleStatus' = VisibleStatus
<1>1. VisibleStatus' = [q \in Requests |-> VisibleStatus'[q]]
  BY DEF VisibleStatus
<1>2. VisibleStatus = [q \in Requests |-> VisibleStatus[q]]
  BY DEF VisibleStatus
<1> HIDE DEF VisibleStatus
<1>3. QED
  BY <1>1, <1>2

\* A request that is not approved, before or after, or is not paid, costs nothing.
LEMMA BuysNothing ==
  ASSUME NEW r \in Requests, \A q \in Requests : q # r => VisibleStatus'[q] = VisibleStatus[q],
         Paid[r] => (VisibleStatus'[r] = "approved" <=> VisibleStatus[r] = "approved")
  PROVE  VisibleBalance' = VisibleBalance
<1>1. \A e \in Employees : Bought(e)' = Bought(e)
  BY DEF Bought, RequestsOf
<1>2. QED
  BY <1>1, VisibleBalanceIs, VisibleBalanceNext DEF LedgerBalance

\* An approval takes the days of the request.
LEMMA BuysOne ==
  ASSUME NEW r \in Requests, \A q \in Requests : q # r => VisibleStatus'[q] = VisibleStatus[q],
         Paid[r], VisibleStatus[r] # "approved", VisibleStatus'[r] = "approved"
  PROVE  VisibleBalance' = [VisibleBalance EXCEPT ![Owner[r]] = @ - Days[r]]
<1>1. ASSUME NEW e \in Employees, e # Owner[r]
      PROVE  Bought(e)' = Bought(e)
  BY <1>1 DEF Bought, RequestsOf
<1>2. Owner[r] \in Employees /\ Days[r] \in Int /\ InitBalance[Owner[r]] \in Int
  BY ConstantsOK
<1>3. Bought(Owner[r])' = Bought(Owner[r]) \cup {r} /\ r \notin Bought(Owner[r])
  BY DEF Bought, RequestsOf
<1>4. Bought(Owner[r]) \in SUBSET Requests
  BY DEF Bought, RequestsOf
<1> DEFINE B == Bought(Owner[r])
<1>5. IsFiniteSet(Requests) /\ Days \in [Requests -> Int]
  BY <1>2, HoldingsType
<1> HIDE DEF B
<1>6. SumOf(Days, B \cup {r}) = SumOf(Days, B) + Days[r] /\ SumOf(Days, B) \in Int
  BY <1>3, <1>4, <1>5, SumPlus, SumType DEF B
<1>7. VisibleBalance'[Owner[r]] = InitBalance[Owner[r]] - SumOf(Days, B \cup {r})
  BY <1>2, <1>3, VisibleBalanceIs, VisibleBalanceNext, LedgerBalanceIs DEF B
<1>8. VisibleBalance[Owner[r]] = InitBalance[Owner[r]] - SumOf(Days, B)
  BY <1>2, VisibleBalanceIs, VisibleBalanceNext, LedgerBalanceIs DEF B
<1>9. PICK x : x = SumOf(Days, B)
  OBVIOUS
<1>10. VisibleBalance'[Owner[r]] = VisibleBalance[Owner[r]] - Days[r]
  BY <1>2, <1>6, <1>7, <1>8, <1>9
<1>11. \A e \in Employees : e # Owner[r] => VisibleBalance'[e] = VisibleBalance[e]
  BY <1>1, VisibleBalanceIs, VisibleBalanceNext, LedgerBalanceIs
<1>12. /\ VisibleBalance = [e \in Employees |-> VisibleBalance[e]]
       /\ VisibleBalance' = [e \in Employees |-> VisibleBalance'[e]]
  BY VisibleBalanceIs, VisibleBalanceNext DEF LedgerBalance
<1>13. QED
  BY <1>2, <1>10, <1>11, <1>12

LEMMA VisibleIs ==
  ASSUME NEW q \in Requests
  PROVE  /\ VisibleStatus[q] = IF Tentative(q) \/ req[q] = "gone" THEN "absent" ELSE req[q]
         /\ VisibleStatus'[q] = IF Tentative(q)' \/ req'[q] = "gone" THEN "absent" ELSE req'[q]
BY DEF VisibleStatus

\* A step of a call shows on the request it works on.
LEMMA VisibleFrame ==
  ASSUME TypeOK, NEW c \in Calls, NEW r \in Requests, call[c].r = r, Continue(c)
  PROVE  /\ \A q \in Requests : q # r => VisibleStatus'[q] = VisibleStatus[q]
         /\ Tentative(r)' <=> \/ Provisional(c)'
                              \/ \E d \in Calls : d # c /\ call[d].r = r /\ Provisional(d)
<1>1. \A d \in Calls : d # c => call'[d] = call[d]
  BY ActiveShrinks
<1>2. call'[c].pc = "idle" \/ call'[c].r = r
  BY ContinueEffect, NoCallType
<1>3. ASSUME NEW q \in Requests, q # r
      PROVE  VisibleStatus'[q] = VisibleStatus[q]
  <2>1. Tentative(q)' <=> Tentative(q)
    BY <1>1, <1>2, <1>3 DEF Tentative
  <2>2. req'[q] = req[q]
    BY <1>3, ContinueEffect
  <2>3. QED
    BY <2>1, <2>2, VisibleIs
<1>4. Tentative(r)' <=> \/ Provisional(c)'
                        \/ \E d \in Calls : d # c /\ call[d].r = r /\ Provisional(d)
  BY <1>1, <1>2 DEF Tentative, Provisional
<1>5. QED
  BY <1>3, <1>4

LEMMA Stutters ==
  ASSUME NEW r \in Requests, \A q \in Requests : q # r => VisibleStatus'[q] = VisibleStatus[q],
         VisibleStatus'[r] = VisibleStatus[r]
  PROVE  UNCHANGED Ledger!ledger
BY StatusMoves, BuysNothing DEF Ledger!ledger

\* An approval the ledger sees: of a request whose days are, or were, there.
LEMMA Pays ==
  ASSUME OnlyDecided, Undisturbed, TypeOK, LedgerKept, Conserved, NoOverdraft,
         NEW c \in Calls, NEW r \in Requests,
         Paid[r] => bal[Owner[r]] >= Days[r] \/ Mine(c, r),
         \A q \in Requests : q # r => VisibleStatus'[q] = VisibleStatus[q],
         VisibleStatus[r] # "approved", VisibleStatus'[r] = "approved"
  PROVE  Ledger!Pay(r)
<1>1. CASE Paid[r]
  BY <1>1, CanPay, BuysOne DEF Ledger!Pay
<1>2. CASE ~Paid[r]
  BY <1>2, BuysNothing DEF Ledger!Pay
<1>3. QED
  BY <1>1, <1>2

\* The visible status after the other statements of a handler: what it was.
LEMMA NotVisible ==
  ASSUME TypeOK, NEW c \in Calls, NEW r \in Requests, call[c].r = r, Continue(c),
         Provisional(c)' <=> Provisional(c), req'[r] = req[r]
  PROVE  UNCHANGED Ledger!ledger
<1>1. Tentative(r)' <=> Tentative(r)
  BY VisibleFrame DEF Tentative, Provisional
<1>2. QED
  BY <1>1, VisibleFrame, VisibleIs, Stutters

\* What the refinement needs of a state.
Sound ==
  /\ TypeOK /\ SubmitterAlone /\ Chained /\ Places /\ Undisturbed
  /\ LedgerKept /\ Conserved /\ NoOverdraft /\ NoOverlappingLeave

\* While its submission is not past the deduction a request is not visible, and
\* no other submission works on it.
LEMMA HiddenUntil ==
  ASSUME OnlyDecided, Sound, NEW c \in Calls, NEW r \in Requests, call[c].r = r, Provisional(c)
  PROVE  /\ VisibleStatus[r] = "absent"
         /\ req[r] = IF AutoApproved[r] THEN "approved" ELSE "pending"
         /\ \A d \in Calls : d # c /\ call[d].r = r => ~Provisional(d)
<1>1. Tentative(r)
  BY DEF Tentative, Provisional
<1>2. req[r] = IF AutoApproved[r] THEN "approved" ELSE "pending"
  BY DEF Sound, Undisturbed, Provisional
<1>3. ASSUME NEW d \in Calls, d # c, call[d].r = r, Provisional(d)
      PROVE  FALSE
  BY <1>3 DEF Sound, Chained, OneSubmission, InSubmission, Provisional
<1>4. QED
  BY <1>1, <1>2, <1>3, VisibleIs

\* The submission takes effect at the statement with which it gets past them.
LEMMA Appears ==
  ASSUME OnlyDecided, Sound, NEW c \in Calls, NEW r \in Requests, call[c].r = r, Continue(c),
         Provisional(c), ~Provisional(c)', req' = req,
         Ledger!Free(r), AutoApproved[r] /\ Paid[r] => bal[Owner[r]] >= Days[r]
  PROVE  Ledger!Apply(r) \/ Ledger!ApplyAndApprove(r)
<1>0. TypeOK
  BY DEF Sound
<1>1. VisibleStatus[r] = "absent"
  BY HiddenUntil
<1>2. \A q \in Requests : q # r => VisibleStatus'[q] = VisibleStatus[q]
  BY <1>0, VisibleFrame
<1>3. VisibleStatus'[r] = IF AutoApproved[r] THEN "approved" ELSE "pending"
  <2>1. ~Tentative(r)'
    BY <1>0, VisibleFrame, HiddenUntil
  <2>2. QED
    BY <2>1, HiddenUntil, VisibleIs
<1>4. VisibleStatus' = [VisibleStatus EXCEPT ![r] = VisibleStatus'[r]]
  BY <1>2, StatusMoves
<1>5. CASE AutoApproved[r]
  <2>1. Ledger!Pay(r)
    BY <1>1, <1>2, <1>3, <1>5, Pays DEF Sound
  <2>2. QED
    BY <1>1, <1>3, <1>4, <1>5, <2>1 DEF Ledger!ApplyAndApprove
<1>6. CASE ~AutoApproved[r]
  <2>1. VisibleBalance' = VisibleBalance
    BY <1>1, <1>2, <1>3, <1>6, BuysNothing
  <2>2. QED
    BY <1>1, <1>3, <1>4, <1>6, <2>1 DEF Ledger!Apply
<1>7. QED
  BY <1>5, <1>6

\* The statements of submitRequest.
LEMMA SubmitImplements ==
  ASSUME OnlyDecided, Sound, NEW c \in Calls, Submit(c)
  PROVE  Ledger!LedgerNext \/ UNCHANGED Ledger!ledger
<1>0. TypeOK
  BY DEF Sound
<1>1. PICK r \in Requests : r = call[c].r
  BY <1>0 DEF TypeOK, CallRecord
<1>2. Continue(c)
  BY DEF Continue
<1>3. call[c] \in CallRecord /\ NoCall.pc = "idle" /\ call \in [Calls -> CallRecord]
  BY <1>0, NoCallType DEF TypeOK
<1>4. \A q \in Requests : q # r => VisibleStatus'[q] = VisibleStatus[q]
  BY <1>0, <1>1, <1>2, VisibleFrame
<1>5. Ledger!Apply(r) \/ Ledger!ApplyAndApprove(r) => Ledger!LedgerNext
  BY DEF Ledger!LedgerNext
<1>6. CASE SubmitCheckOverlap(c)
  <2>1. req' = req /\ ~Provisional(c) /\ ~Provisional(c)'
    BY <1>3, <1>6 DEF SubmitCheckOverlap, Goto, Return, At, Provisional, CallRecord
  <2>2. QED
    BY <1>0, <1>1, <1>2, <2>1, NotVisible
<1>7. CASE SubmitCreateApproval(c)
  <2>1. req' = req /\ ~Provisional(c)
    BY <1>7 DEF SubmitCreateApproval, At, Provisional
  <2>2. ~Provisional(c)'
    BY <1>0, <1>2, <1>7, ContinueMoves DEF SubmitCreateApproval, At, Moves, Provisional, SubmitInsert,
       AfterRaceCheck, RejectStep, CancelUpdate
  <2>3. QED
    BY <1>0, <1>1, <1>2, <2>1, <2>2, NotVisible
<1>8. CASE SubmitInsert(c)
  <2>1. req[r] = "absent"
    BY <1>1, <1>8 DEF Sound, SubmitterAlone, SubmitInsert, At
  <2>2. Provisional(c)'
    BY <1>3, <1>8 DEF SubmitInsert, Goto, Provisional, CallRecord
  <2>3. VisibleStatus[r] = "absent" /\ VisibleStatus'[r] = "absent"
    BY <1>0, <1>1, <1>2, <2>1, <2>2, VisibleFrame, VisibleIs
  <2>4. QED
    BY <1>4, <2>3, Stutters
<1>9. CASE SubmitRaceCheck(c)
  <2>1. req' = req /\ Provisional(c)
    BY <1>9 DEF SubmitRaceCheck, At, Provisional
  <2>2. CASE Provisional(c)'
    BY <1>0, <1>1, <1>2, <2>1, <2>2, NotVisible
  <2>3. CASE ~Provisional(c)'
    <3>1. /\ \A o \in Requests : Overlap(r, o) => ~Active(o)
          /\ ~(AutoApproved[r] /\ Paid[r])
      BY <1>1, <1>3, <1>9, <2>3 DEF SubmitRaceCheck, Goto, AfterRaceCheck, Provisional, CallRecord
    <3>2. Ledger!Free(r)
      BY <3>1, VisibleIs DEF Ledger!Free, Ledger!Taken, Overlap, Active
    <3>3. QED
      BY <1>1, <1>2, <1>5, <2>1, <2>3, <3>1, <3>2, Appears
  <2>4. QED
    BY <2>2, <2>3
<1>10. CASE SubmitRollback(c)
  <2>1. Provisional(c)
    BY <1>10 DEF SubmitRollback, At, Provisional
  <2>2. VisibleStatus[r] = "absent" /\ Exists(r)
    BY <1>1, <2>1, HiddenUntil DEF Exists
  <2>3. req'[r] = "gone"
    BY <1>0, <1>1, <1>10, <2>2 DEF SubmitRollback, DeleteRow, TypeOK
  <2>4. VisibleStatus'[r] = "absent"
    BY <2>3, VisibleIs
  <2>5. QED
    BY <1>4, <2>2, <2>4, Stutters
<1>11. CASE SubmitAutoDeduct(c)
  <2>1. req' = req /\ Provisional(c)
    BY <1>11 DEF SubmitAutoDeduct, At, Provisional
  <2>2. CASE Provisional(c)'
    BY <1>0, <1>1, <1>2, <2>1, <2>2, NotVisible
  <2>3. CASE ~Provisional(c)'
    <3>1. bal[Owner[r]] >= Days[r]
      BY <1>1, <1>3, <1>11, <2>3 DEF SubmitAutoDeduct, DeductOrElse, Goto, Provisional, CallRecord
    <3>2. Settled(r)
      <4>1. Active(r)
        BY <1>1, <2>1, HiddenUntil DEF Active
      <4>2. ASSUME NEW d \in Calls, call[d].r = r
            PROVE  call[d].pc \notin {"raceCheck", "rollback"}
        <5>1. call[c].pc = "autoDeduct"
          BY <1>11 DEF SubmitAutoDeduct, At
        <5>2. QED
          BY <1>1, <2>1, <4>2, <5>1, HiddenUntil DEF Provisional
      <4>3. QED
        BY <4>1, <4>2 DEF Settled
    <3>3. ASSUME NEW o \in Requests, Overlap(r, o), VisibleStatus[o] \in {"pending", "approved"}
          PROVE  FALSE
      <4>1. Active(o) /\ ~Tentative(o)
        BY <3>3, VisibleIs DEF Active
      <4>2. Settled(o)
        BY <4>1 DEF Settled, Tentative
      <4>3. QED
        BY <3>2, <3>3, <4>2 DEF Sound, NoOverlappingLeave
    <3>4. Ledger!Free(r)
      BY <3>3 DEF Ledger!Free, Ledger!Taken, Overlap
    <3>5. QED
      BY <1>1, <1>2, <1>5, <2>1, <2>3, <3>1, <3>4, Appears
  <2>4. QED
    BY <2>2, <2>3
<1>12. QED
  BY <1>6, <1>7, <1>8, <1>9, <1>10, <1>11 DEF Submit

\* A decision of a chain: the submission has been over since it added the rows.
LEMMA Decides ==
  ASSUME OnlyDecided, Sound, NEW c \in Calls, NEW r \in Requests, call[c].r = r, Continue(c),
         \E s \in Steps : appr[r][s] # "none", ~Provisional(c), ~Provisional(c)', req[r] = "pending"
  PROVE  /\ VisibleStatus[r] = "pending"
         /\ req'[r] \in {"approved", "rejected"} =>
              VisibleStatus' = [VisibleStatus EXCEPT ![r] = req'[r]]
<1>1. ~Tentative(r)
  BY DEF Sound, Places, NoRowsYet, Fresh, Tentative
<1>2. ~Tentative(r)'
  BY <1>1, VisibleFrame DEF Sound, Tentative, Provisional
<1>3. req'[r] \in {"approved", "rejected"} => VisibleStatus'[r] = req'[r]
  BY <1>2, VisibleIs
<1>4. \A q \in Requests : q # r => VisibleStatus'[q] = VisibleStatus[q]
  BY VisibleFrame DEF Sound
<1>5. QED
  BY <1>1, <1>3, <1>4, StatusMoves, VisibleIs

\* The statements of approveRequest and rejectApproval, and the attendance sync.
LEMMA DecideImplements ==
  ASSUME OnlyDecided, Sound, NEW c \in Calls,
         Approve(c) \/ Reject(c) \/ SyncRead(c) \/ SyncWrite(c)
  PROVE  Ledger!LedgerNext \/ UNCHANGED Ledger!ledger
<1>0. TypeOK
  BY DEF Sound
<1>1. PICK r \in Requests : r = call[c].r
  BY <1>0 DEF TypeOK, CallRecord
<1>2. Continue(c)
  BY DEF Continue
<1>3. call[c] \in CallRecord /\ NoCall.pc = "idle" /\ call \in [Calls -> CallRecord]
  BY <1>0, NoCallType DEF TypeOK
<1>4. ~Provisional(c)
  BY DEF Approve, ApproveAdvancePrior, ApproveStep, ApproveCountPending, ApproveRereadRequest,
     ApproveDeduct, ApproveRequest, ApproveCompensate, Reject, RejectStep, RejectRemaining,
     RejectRequest, SyncRead, SyncWrite, At, Provisional
<1>5. ~Provisional(c)'
  <2>1. ~SubmitInsert(c)
    BY DEF Approve, ApproveAdvancePrior, ApproveStep, ApproveCountPending, ApproveRereadRequest,
       ApproveDeduct, ApproveRequest, ApproveCompensate, Reject, RejectStep, RejectRemaining,
       RejectRequest, SyncRead, SyncWrite, At, SubmitInsert
  <2>2. QED
    BY <1>0, <1>2, <1>4, <2>1, ContinueMoves DEF Moves, At, Provisional
<1>6. CASE req'[r] = req[r]
  BY <1>0, <1>1, <1>2, <1>4, <1>5, <1>6, NotVisible
<1>7. CASE req'[r] # req[r] /\ ApproveRequest(c)
  <2>1. req[r] = "pending" /\ req'[r] = "approved" /\ At(c, "approveRequest")
    BY <1>0, <1>1, <1>7 DEF ApproveRequest, TypeOK
  <2>2. \E s \in Steps : appr[r][s] # "none"
    BY <1>1, <2>1 DEF Sound, Chained, StepApproved, Deciding, Exists, At
  <2>3. VisibleStatus[r] = "pending" /\ VisibleStatus' = [VisibleStatus EXCEPT ![r] = "approved"]
    BY <1>1, <1>2, <1>4, <1>5, <2>1, <2>2, Decides
  <2>4. VisibleStatus'[r] = "approved"
    BY <2>3 DEF VisibleStatus
  <2>5. Paid[r] => Mine(c, r)
    BY <1>1, <2>1 DEF Mine, InHand, At
  <2>6. \A q \in Requests : q # r => VisibleStatus'[q] = VisibleStatus[q]
    BY <1>0, <1>1, <1>2, VisibleFrame
  <2>7. Ledger!Pay(r)
    BY <2>3, <2>4, <2>5, <2>6, Pays DEF Sound
  <2>8. QED
    BY <2>3, <2>7 DEF Ledger!Grant, Ledger!LedgerNext
<1>8. CASE req'[r] # req[r] /\ RejectRequest(c)
  <2>1. req[r] = "pending" /\ req'[r] = "rejected" /\ At(c, "rejectRequest")
    BY <1>0, <1>1, <1>8 DEF RejectRequest, TypeOK
  <2>2. \E s \in Steps : appr[r][s] # "none"
    BY <1>1, <2>1 DEF Sound, Places, RejectsARow, Exists, At
  <2>3. VisibleStatus[r] = "pending" /\ VisibleStatus' = [VisibleStatus EXCEPT ![r] = "rejected"]
    BY <1>1, <1>2, <1>4, <1>5, <2>1, <2>2, Decides
  <2>4. VisibleStatus'[r] = "rejected"
    BY <2>3 DEF VisibleStatus
  <2>5. VisibleBalance' = VisibleBalance
    BY <1>0, <1>1, <1>2, <2>3, <2>4, VisibleFrame, BuysNothing
  <2>6. QED
    BY <2>3, <2>5 DEF Ledger!Refuse, Ledger!LedgerNext
<1>9. ApproveRequest(c) \/ RejectRequest(c) \/ req' = req
  BY DEF Approve, ApproveAdvancePrior, ApproveStep, ApproveCountPending, ApproveRereadRequest,
     ApproveDeduct, ApproveCompensate, Reject, RejectStep, RejectRemaining, SyncRead, SyncWrite
<1>10. QED
  BY <1>6, <1>7, <1>8, <1>9

\* A new call does not show.
LEMMA StartImplements ==
  ASSUME TypeOK, NEW c \in Calls, Start(c)
  PROVE  UNCHANGED Ledger!ledger
<1>1. /\ \A d \in Calls : d # c => call'[d] = call[d]
      /\ req' = req /\ ~Provisional(c) /\ ~Provisional(c)'
  BY ActiveShrinks, StartEffect, StartMoves DEF At, Provisional
<1>2. ASSUME NEW q \in Requests
      PROVE  VisibleStatus'[q] = VisibleStatus[q]
  <2>1. Tentative(q)' <=> Tentative(q)
    BY <1>1 DEF Tentative, Provisional
  <2>2. QED
    BY <1>1, <2>1, VisibleIs
<1>3. PICK r : r \in Requests
  BY ConstantsOK
<1>4. QED
  BY <1>2, <1>3, Stutters

\* While nothing is cancelled or deleted, the handlers, one statement at a time and
\* in any interleaving, do nothing that the ledger with atomic operations does not:
\* every step of theirs is one of its operations, or does not show.
THEOREM ImplementsLedger == ASSUME OnlyDecided PROVE Spec => LedgerSpec
<1>1. Init => Ledger!LedgerInit
  <2>1. SUFFICES ASSUME Init PROVE Ledger!LedgerInit
    OBVIOUS
  <2>2. \A r \in Requests : VisibleStatus[r] = "absent"
    BY <2>1, VisibleIs DEF Init
  <2>3. VisibleStatus = [r \in Requests |-> "absent"]
    BY <2>2 DEF VisibleStatus
  <2>4. \A e \in Employees : Bought(e) = {}
    BY <2>2 DEF Bought, RequestsOf
  <2>5. ASSUME NEW e \in Employees
        PROVE  LedgerBalance[e] = InitBalance[e]
    <3>1. SumOf(Days, Bought(e)) = 0
      BY <2>4, EmptySums
    <3>2. LedgerBalance[e] = InitBalance[e] - 0 /\ InitBalance[e] \in Int
      BY <3>1, ConstantsOK, LedgerBalanceIs
    <3>3. QED
      BY <3>2
  <2>6. VisibleBalance = InitBalance
    BY <2>5, ConstantsOK, VisibleBalanceIs DEF LedgerBalance
  <2>7. QED
    BY <2>3, <2>6 DEF Ledger!LedgerInit
<1>2. ASSUME Sound, [Next]_vars
      PROVE  [Ledger!LedgerNext]_(Ledger!ledger)
  <2>1. ASSUME NEW c \in Calls, Start(c)
        PROVE  UNCHANGED Ledger!ledger
    BY <1>2, <2>1, StartImplements DEF Sound
  <2>2. ASSUME NEW c \in Calls, Continue(c)
        PROVE  Ledger!LedgerNext \/ UNCHANGED Ledger!ledger
    <3>1. ~Cancel(c) /\ ~Delete(c)
      BY <1>2 DEF Sound, Undisturbed, Cancel, CancelUpdate, CancelApprovals, CancelRefund,
         CancelReverse, Delete, DeleteRefund, DeleteReverse, DeleteApprovals, DeleteRequest, At
    <3>2. QED
      BY <1>2, <2>2, <3>1, SubmitImplements, DecideImplements DEF Continue
  <2>3. CASE UNCHANGED vars
    <3>1. \A q \in Requests : VisibleStatus'[q] = VisibleStatus[q]
      <4>1. req' = req /\ call' = call
        BY <2>3 DEF vars
      <4>2. \A q \in Requests : Tentative(q)' <=> Tentative(q)
        BY <4>1 DEF Tentative
      <4>3. QED
        BY <4>1, <4>2, VisibleIs
    <3>2. PICK r : r \in Requests
      BY ConstantsOK
    <3>3. QED
      BY <3>1, <3>2, Stutters
  <2>4. QED
    BY <1>2, <2>1, <2>2, <2>3 DEF Next
<1>3. Spec => []Sound
  BY TypeCorrect, SubmitterIsAlone, ChainedAlways, PlacesAlways, UndisturbedAlways, LedgerAlways,
     NeverOverdrawn, NoTwoOverlap, PTL DEF Sound
<1>4. QED
  BY <1>1, <1>2, <1>3, PTL DEF Spec, LedgerSpec, Ledger!LedgerSpec

\* What readers see: nobody has taken more than there was, and no two overlapping
\* requests are pending or approved.
SeenInOrder ==
  /\ \A e \in Employees : VisibleBalance[e] \in Int /\ VisibleBalance[e] >= 0
  /\ \A r, o \in Requests : Overlap(r, o) => ~(Ledger!Taken(r) /\ Ledger!Taken(o))

\* The ledger keeps its books in order.
LEMMA LedgerInOrder == LedgerSpec => []SeenInOrder
<1> DEFINE Functions == /\ VisibleBalance = [e \in Employees |-> VisibleBalance[e]]
                        /\ VisibleStatus = [r \in Requests |-> VisibleStatus[r]]
<1>1. Functions /\ Functions'
  BY DEF VisibleBalance, VisibleStatus
<1> HIDE DEF Functions
<1>2. Ledger!LedgerInit => SeenInOrder
  <2>1. SUFFICES ASSUME Ledger!LedgerInit PROVE SeenInOrder
    OBVIOUS
  <2>2. VisibleBalance = InitBalance /\ VisibleStatus = [r \in Requests |-> "absent"]
    BY <2>1 DEF Ledger!LedgerInit
  <2> HIDE DEF VisibleBalance, VisibleStatus
  <2>3. QED
    BY <2>2, ConstantsOK DEF SeenInOrder, Ledger!Taken
<1>3. ASSUME SeenInOrder, Ledger!LedgerNext
      PROVE  SeenInOrder'
  <2>1. PICK r \in Requests : \/ Ledger!Apply(r) \/ Ledger!ApplyAndApprove(r)
                              \/ Ledger!Grant(r) \/ Ledger!Refuse(r)
    BY <1>3 DEF Ledger!LedgerNext
  <2>2. PICK v : VisibleStatus' = [VisibleStatus EXCEPT ![r] = v]
    BY <2>1 DEF Ledger!Apply, Ledger!ApplyAndApprove, Ledger!Grant, Ledger!Refuse
  <2>3. \A q \in Requests : q # r => (Ledger!Taken(q)' <=> Ledger!Taken(q))
    BY <1>1, <2>2 DEF Functions, Ledger!Taken
  <2>4. Ledger!Free(r) \/ Ledger!Taken(r) \/ ~Ledger!Taken(r)'
    BY <1>1, <2>1 DEF Functions, Ledger!Apply, Ledger!ApplyAndApprove, Ledger!Grant, Ledger!Refuse, Ledger!Taken
  <2>5. ASSUME NEW q \in Requests, NEW o \in Requests, Overlap(q, o)
        PROVE  ~(Ledger!Taken(q)' /\ Ledger!Taken(o)')
    <3>1. Overlap(o, q) /\ q # o
      BY <2>5 DEF Overlap
    <3>2. CASE q # r /\ o # r
      BY <1>3, <2>3, <2>5, <3>2 DEF SeenInOrder
    <3>3. ASSUME NEW p \in Requests, p # r, Overlap(r, p), Ledger!Taken(r)', Ledger!Taken(p)'
          PROVE  FALSE
      <4>1. Ledger!Taken(p)
        BY <2>3, <3>3
      <4>2. ~Ledger!Taken(r)
        BY <1>3, <3>3, <4>1 DEF SeenInOrder
      <4>3. Ledger!Free(r)
        BY <2>4, <3>3, <4>2
      <4>4. QED
        BY <3>3, <4>1, <4>3 DEF Ledger!Free, Overlap
    <3>4. QED
      BY <2>5, <3>1, <3>2, <3>3
  <2>6. \A e \in Employees : VisibleBalance'[e] \in Int /\ VisibleBalance'[e] >= 0
    <3>1. CASE UNCHANGED VisibleBalance
      BY <1>3, <3>1 DEF SeenInOrder
    <3>2. CASE /\ VisibleBalance[Owner[r]] >= Days[r]
               /\ VisibleBalance' = [VisibleBalance EXCEPT ![Owner[r]] = @ - Days[r]]
      <4>1. Owner[r] \in Employees /\ Days[r] \in Nat
        BY ConstantsOK
      <4>2. QED
        BY <1>1, <1>3, <3>2, <4>1 DEF Functions, SeenInOrder
    <3>3. QED
      BY <2>1, <3>1, <3>2
         DEF Ledger!Apply, Ledger!ApplyAndApprove, Ledger!Grant, Ledger!Refuse, Ledger!Pay
  <2>7. QED
    BY <2>5, <2>6 DEF SeenInOrder, Overlap, Ledger!Taken
<1>4. SeenInOrder /\ UNCHANGED Ledger!ledger => SeenInOrder'
  BY DEF SeenInOrder, Overlap, Ledger!Taken, Ledger!ledger
<1>5. QED
  BY <1>2, <1>3, <1>4, PTL DEF LedgerSpec, Ledger!LedgerSpec

\* While nothing is cancelled or deleted, whoever looks between two statements sees
\* no balance below zero and no two overlapping requests pending or approved.
THEOREM ReadersSeeOrder == ASSUME OnlyDecided PROVE Spec => []SeenInOrder
BY ImplementsLedger, LedgerInOrder, PTL
=============================================================================
