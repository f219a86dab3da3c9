-------------------------- MODULE RecruitmentProofs --------------------------
(***************************************************************************)
(* Theorems about recruitment: the pipeline of Recruitment, for every set  *)
(* of applications, identities and calls, and the mail of ScheduledMail,   *)
(* for every set of applications, reviews, requests and workers, any limit *)
(* of the queries and any number of emails and crashes.  The two keep      *)
(* tables of their own, and no proof about one cites anything of the       *)
(* other.                                                                  *)
(***************************************************************************)
EXTENDS Recruitment, ScheduledMail, FiniteSetTheorems, TLAPS

-----------------------------------------------------------------------------
(* The pipeline.                                                           *)

\* What the record of a call holds at each of its statements.
Argued(r) ==
  /\ r.pc # "idle" => r.a \in Applications
  /\ r.pc \in {"moveRead", "moveCheck", "moveUpdate", "schedule"} => r.to \in Stages \ {"hired"}
  /\ r.pc = "updateOffer" => r.to \in OfferStatuses \cup {None}
  /\ r.pc \in {"moveToOffer", "insertOffer"} => r.to \in OfferStatuses /\ r.approval \in Approvals
  /\ r.pc \in {"hireOffer", "hireInsert", "hireMark"} => r.id \in Identities

CallsArgued == \A c \in Tasks : task[c] \in TaskRecord /\ Argued(task[c])

\* A row of the table of offers is there as a whole, or not at all.
OffersWhole ==
  \A a \in Applications : IF HasOffer(a) THEN offer[a].approval \in Approvals ELSE offer[a] = NoOffer

\* An offer that was approved once stays approved or is rejected.
Reviewed(a) == app[a].stage = "gone" \/ offer[a].approval \in {"approved", "rejected"}

\* A hire goes on from an approved offer, and marks what it inserted.
HiresChecked ==
  \A c \in Tasks : /\ TaskAt(c, "hireInsert") => Reviewed(task[c].a)
                   /\ TaskAt(c, "hireMark") => emp[task[c].id] = task[c].a

IInv == PipelineTypeOK /\ CallsArgued /\ OffersWhole /\ HiresChecked /\ HireIsBacked

OfferRecord ==
  [status : OfferStatuses \cup {None}, approval : Approvals \cup {None},
   sent : BOOLEAN, token : BOOLEAN]

\* What no statement takes back: an approval that was decided, an employee.
TablesKept ==
  /\ app' \in [Applications -> [stage : Stages \cup {"gone"}, employee : Identities \cup {None}]]
  /\ offer' \in [Applications -> OfferRecord]
  /\ emp' \in [Identities -> Applications \cup {None}]
  /\ OffersWhole'
  /\ \A a \in Applications : Reviewed(a) => Reviewed(a)'
  /\ \A i \in Identities : emp[i] # None => emp'[i] = emp[i]

\* The only call that changes is c, and it is well formed afterwards.
OnlyTask(c) ==
  /\ task' \in [Tasks -> TaskRecord]
  /\ \A d \in Tasks : d # c => task'[d] = task[d]
  /\ Argued(task'[c])

-----------------------------------------------------------------------------
(* The calls.                                                              *)

\* A call that is over is well formed.
LEMMA IdleArgued == NoTask \in TaskRecord /\ Argued(NoTask) /\ NoTask.pc = "idle"
BY DEF NoTask, TaskRecord, Argued, Labels, None

\* A call that starts is the record it starts with.
LEMMA TaskBegins ==
  ASSUME PipelineTypeOK, NEW c \in Tasks, NEW rec \in TaskRecord, Argued(rec), Begin(c, rec)
  PROVE  OnlyTask(c) /\ task'[c] = rec
BY DEF PipelineTypeOK, Begin, OnlyTask

\* A call that starts is well formed, and at none of the statements that hire.
LEMMA TaskStarts ==
  ASSUME PipelineTypeOK, NEW c \in Tasks, Start(c)
  PROVE  OnlyTask(c) /\ task'[c].pc \notin {"hireInsert", "hireMark"} /\ UNCHANGED <<app, offer, emp>>
<1> DEFINE Fresh(rec) == rec \in TaskRecord /\ Argued(rec) /\ rec.pc \notin {"hireInsert", "hireMark"}
           Goal == /\ OnlyTask(c) /\ task'[c].pc \notin {"hireInsert", "hireMark"}
                   /\ UNCHANGED <<app, offer, emp>>
<1>0. ASSUME NEW rec, Fresh(rec), Begin(c, rec), UNCHANGED <<app, offer, emp>>
      PROVE  Goal
  BY <1>0, TaskBegins
<1>1. ASSUME NEW a \in Applications, NEW to \in {"applied", "verbally_accepted", "rejected"}, MoveStart(c, a, to)
      PROVE  Goal
  <2>1. Fresh([NoTask EXCEPT !.pc = "moveCheck", !.a = a, !.to = to])
    BY DEF TaskRecord, NoTask, Argued, Labels, Stages, None
  <2>2. QED
    BY <1>0, <1>1, <2>1 DEF MoveStart
<1>2. ASSUME NEW a \in Applications, RestoreStart(c, a)
      PROVE  Goal
  <2>1. Fresh([NoTask EXCEPT !.pc = "restoreCheck", !.a = a, !.to = app[a].stage])
    BY <1>2 DEF RestoreStart, InTable, TaskRecord, NoTask, Argued, Labels, None
  <2>2. QED
    BY <1>0, <1>2, <2>1 DEF RestoreStart
<1>3. ASSUME NEW a \in Applications, ScheduleStart(c, a)
      PROVE  Goal
  <2>1. Fresh([NoTask EXCEPT !.pc = "schedule", !.a = a, !.to = "applied"])
    BY DEF TaskRecord, NoTask, Argued, Labels, Stages, None
  <2>2. QED
    BY <1>0, <1>3, <2>1 DEF ScheduleStart
<1>4. ASSUME NEW a \in Applications, NEW status \in {"draft", "sent"},
             NEW approval \in {"not_requested", "approved"}, CreateOfferStart(c, a, status, approval)
      PROVE  Goal
  <2>1. ASSUME NEW l \in {"moveToOffer", "insertOffer"}
        PROVE  Fresh([NoTask EXCEPT !.pc = l, !.a = a, !.to = status, !.approval = approval])
    BY DEF TaskRecord, NoTask, Argued, Labels, OfferStatuses, Approvals, None
  <2>2. QED
    BY <1>0, <1>4, <2>1 DEF CreateOfferStart
<1>5. ASSUME NEW a \in Applications, NEW status \in OfferStatuses \cup {None},
             UpdateOfferStart(c, a, status)
      PROVE  Goal
  <2>1. ASSUME NEW s \in BOOLEAN, NEW t \in BOOLEAN
        PROVE  Fresh([NoTask EXCEPT !.pc = "updateOffer", !.a = a, !.to = status, !.sent = s, !.token = t])
    BY DEF TaskRecord, NoTask, Argued, Labels, None
  <2>2. offer[a].sent \in BOOLEAN /\ offer[a].token \in BOOLEAN
    BY DEF PipelineTypeOK
  <2>3. QED
    BY <1>0, <1>5, <2>1, <2>2 DEF UpdateOfferStart
<1>6. ASSUME NEW a \in Applications,
             NEW l \in {"approve", "requestApproval", "reject", "setToken", "sign", "decline"},
             ReviewStart(c, a, l) \/ (LinkStart(c, a) /\ l = "setToken") \/ AnswerStart(c, a, l)
      PROVE  Goal
  <2>1. Fresh([NoTask EXCEPT !.pc = l, !.a = a])
    BY DEF TaskRecord, NoTask, Argued, Labels, None
  <2>2. QED
    BY <1>0, <1>6, <2>1 DEF ReviewStart, LinkStart, AnswerStart
<1>7. ASSUME NEW a \in Applications, NEW i \in Identities, HireStart(c, a, i)
      PROVE  Goal
  <2>1. Fresh([NoTask EXCEPT !.pc = "hireOffer", !.a = a, !.id = i])
    BY DEF TaskRecord, NoTask, Argued, Labels, None
  <2>2. QED
    BY <1>0, <1>7, <2>1 DEF HireStart
<1> HIDE DEF Goal
<1>8. Goal
  BY <1>1, <1>2, <1>3, <1>4, <1>5, <1>6, <1>7 DEF Start
<1>9. QED
  BY <1>8 DEF Goal

\* A call that ends.
LEMMA TaskReturns ==
  ASSUME PipelineTypeOK, NEW c \in Tasks, TaskReturn(c)
  PROVE  OnlyTask(c) /\ task'[c].pc = "idle"
BY IdleArgued DEF PipelineTypeOK, TaskReturn, OnlyTask

\* A call that goes to a statement needing no more than it holds.
LEMMA TaskGoesTo ==
  ASSUME PipelineTypeOK, NEW c \in Tasks, NEW l \in Labels, TaskGoto(c, l), Argued([task[c] EXCEPT !.pc = l])
  PROVE  OnlyTask(c) /\ task'[c] = [task[c] EXCEPT !.pc = l]
<1>1. [task[c] EXCEPT !.pc = l] \in TaskRecord
  BY DEF PipelineTypeOK, TaskRecord
<1>2. task' = [task EXCEPT ![c] = [task[c] EXCEPT !.pc = l]]
  BY DEF PipelineTypeOK, TaskGoto
<1>3. QED
  BY <1>1, <1>2 DEF PipelineTypeOK, OnlyTask

-----------------------------------------------------------------------------
(* The tables.                                                             *)

\* An application moved to a stage other than "hired" keeps what was decided.
LEMMA SetStageKeeps ==
  ASSUME IInv, NEW a \in Applications, NEW s \in Stages, SetStage(a, s), UNCHANGED <<offer, emp>>
  PROVE  TablesKept /\ \A b \in Applications : app'[b].employee = app[b].employee
                                              /\ (s = "hired" \/ (app'[b].stage = "hired" => app[b].stage = "hired"))
<1>1. app' \in [Applications -> [stage : Stages \cup {"gone"}, employee : Identities \cup {None}]]
  BY DEF IInv, PipelineTypeOK, SetStage
<1>2. \A b \in Applications : /\ app'[b].employee = app[b].employee
                              /\ app[b].stage = "gone" => app'[b].stage = "gone"
                              /\ s = "hired" \/ (app'[b].stage = "hired" => app[b].stage = "hired")
  BY DEF IInv, PipelineTypeOK, SetStage, InTable, Stages
<1>3. QED
  BY <1>1, <1>2 DEF IInv, PipelineTypeOK, TablesKept, OfferRecord, OffersWhole, HasOffer, Reviewed

\* So does an update of an offer that takes no decided approval back.
LEMMA SetOfferKeeps ==
  ASSUME IInv, NEW a \in Applications, NEW new, SetOffer(a, new), UNCHANGED <<app, emp>>,
         HasOffer(a) => /\ new \in OfferRecord /\ new.status \in OfferStatuses
                        /\ new.approval \in Approvals
                        /\ Reviewed(a) => app[a].stage = "gone" \/ new.approval \in {"approved", "rejected"}
  PROVE  TablesKept
<1>1. CASE HasOffer(a)
  <2>1. offer' = [offer EXCEPT ![a] = new] /\ offer'[a] = new
    BY <1>1 DEF SetOffer, IInv, PipelineTypeOK
  <2>2. offer' \in [Applications -> OfferRecord]
    BY <1>1, <2>1 DEF IInv, PipelineTypeOK, OfferRecord
  <2>3. OffersWhole'
    BY <1>1, <2>1 DEF IInv, PipelineTypeOK, OffersWhole, HasOffer
  <2>4. \A b \in Applications : Reviewed(b) => Reviewed(b)'
    BY <1>1, <2>1 DEF IInv, PipelineTypeOK, Reviewed
  <2>5. QED
    BY <2>2, <2>3, <2>4 DEF TablesKept, IInv, PipelineTypeOK
<1>2. CASE ~HasOffer(a)
  BY <1>2 DEF SetOffer, TablesKept, IInv, PipelineTypeOK, OfferRecord, OffersWhole, HasOffer, Reviewed
<1>3. QED
  BY <1>1, <1>2

\* Tables that stay as they are keep everything.
LEMMA SameTablesKept ==
  ASSUME IInv, UNCHANGED <<app, offer, emp>>
  PROVE  TablesKept
BY DEF TablesKept, IInv, PipelineTypeOK, OfferRecord, OffersWhole, HasOffer, Reviewed

\* The invariant survives a step of one call that keeps what was decided, hires
\* on a decided approval only, and marks as hired what it inserted.
LEMMA StepKeeps ==
  ASSUME IInv, NEW c \in Tasks, OnlyTask(c), TablesKept,
         task'[c].pc = "hireInsert" => Reviewed(task[c].a)',
         task'[c].pc = "hireMark" => emp'[task'[c].id] = task'[c].a,
         \A i \in Identities : emp'[i] # emp[i] => Reviewed(emp[i])',
         \A a \in Applications : app'[a].employee # app[a].employee => emp'[app'[a].employee] = a,
         \A a \in Applications : app'[a].stage = "hired" => app'[a].employee # None
  PROVE  IInv'
<1>1. PipelineTypeOK'
  BY DEF PipelineTypeOK, OnlyTask, TablesKept, OfferRecord
<1>2. CallsArgued'
  BY DEF IInv, CallsArgued, OnlyTask
<1>3. HiresChecked'
  <2>1. ASSUME NEW d \in Tasks, d # c
        PROVE  /\ task'[d].pc = "hireInsert" => Reviewed(task[d].a)'
               /\ task'[d].pc = "hireMark" => emp'[task'[d].id] = task'[d].a
    <3>1. task'[d] = task[d] /\ Argued(task[d])
      BY <2>1 DEF OnlyTask, IInv, CallsArgued
    <3>2. CASE task[d].pc = "hireInsert"
      <4>1. task[d].a \in Applications /\ Reviewed(task[d].a)
        BY <2>1, <3>1, <3>2 DEF Argued, IInv, HiresChecked, TaskAt
      <4>2. app'[task[d].a].stage = "gone" \/ offer'[task[d].a].approval \in {"approved", "rejected"}
        BY <4>1 DEF TablesKept, Reviewed
      <4>3. QED
        BY <3>1, <3>2, <4>2 DEF Reviewed
    <3>3. CASE task[d].pc = "hireMark"
      <4>1. /\ task[d].a \in Applications /\ task[d].id \in Identities
            /\ emp[task[d].id] = task[d].a
        BY <2>1, <3>1, <3>3 DEF Argued, IInv, HiresChecked, TaskAt
      <4>2. emp'[task[d].id] = task[d].a
        BY <4>1, NoneIsNoId DEF TablesKept
      <4>3. QED
        BY <3>1, <3>3, <4>2
    <3>4. QED
      BY <3>1, <3>2, <3>3
  <2>2. QED
    BY <2>1 DEF HiresChecked, TaskAt
<1>4. HireIsBacked'
  <2>1. ASSUME NEW i \in Identities, emp'[i] # None
        PROVE  app'[emp'[i]].stage = "gone" \/ offer'[emp'[i]].approval \in {"approved", "rejected"}
    <3>1. CASE emp'[i] = emp[i]
      <4>1. emp[i] \in Applications /\ Reviewed(emp[i])
        BY <2>1, <3>1 DEF IInv, PipelineTypeOK, HireIsBacked, Reviewed
      <4>2. QED
        BY <3>1, <4>1 DEF TablesKept, Reviewed
    <3>2. CASE emp'[i] # emp[i]
      BY <2>1, <3>2 DEF Reviewed
    <3>3. QED
      BY <3>1, <3>2
  <2>2. ASSUME NEW a \in Applications, app'[a].employee # None
        PROVE  emp'[app'[a].employee] = a
    <3>1. CASE app'[a].employee = app[a].employee
      <4>1. app[a].employee \in Identities /\ emp[app[a].employee] = a
        BY <2>2, <3>1 DEF IInv, PipelineTypeOK, HireIsBacked
      <4>2. QED
        BY <3>1, <4>1, NoneIsNoId DEF TablesKept
    <3>2. QED
      BY <3>1
  <2>3. QED
    BY <2>1, <2>2 DEF HireIsBacked
<1>5. QED
  BY <1>1, <1>2, <1>3, <1>4 DEF IInv, TablesKept

-----------------------------------------------------------------------------
(* The statements.                                                         *)

\* A statement that hires nobody.
LEMMA NobodyHired ==
  ASSUME IInv, NEW c \in Tasks, OnlyTask(c), TablesKept, emp' = emp,
         task'[c].pc \notin {"hireInsert", "hireMark"},
         \A a \in Applications : /\ app'[a].employee = app[a].employee
                                 /\ app'[a].stage = "hired" => app[a].stage = "hired"
  PROVE  IInv'
BY StepKeeps DEF IInv, HireIsBacked

\* The statements on the stage of an application.
LEMMA StageSteps ==
  ASSUME IInv, NEW c \in Tasks,
         MoveCheck(c) \/ MoveUpdate(c) \/ RestoreCheck(c) \/ MoveRead(c)
           \/ SetApplicationStage(c) \/ MoveToOffer(c) \/ RejectApplication(c)
  PROVE  IInv'
<1>0. PipelineTypeOK /\ task[c] \in TaskRecord /\ Argued(task[c])
  BY DEF IInv, CallsArgued
<1>1. ASSUME NEW l \in {"moveUpdate", "moveCheck", "insertOffer"}, TaskGoto(c, l),
             l = "insertOffer" => task[c].pc = "moveToOffer",
             l # "insertOffer" => task[c].pc \in {"moveRead", "moveCheck"}
      PROVE  OnlyTask(c) /\ task'[c].pc \notin {"hireInsert", "hireMark"}
  <2>1. Argued([task[c] EXCEPT !.pc = l])
    BY <1>0, <1>1 DEF TaskRecord, Argued
  <2>2. l \in Labels
    BY DEF Labels
  <2>3. QED
    BY <1>0, <1>1, <2>1, <2>2, TaskGoesTo DEF TaskRecord
<1>2. ASSUME TaskReturn(c)
      PROVE  OnlyTask(c) /\ task'[c].pc \notin {"hireInsert", "hireMark"}
  BY <1>0, <1>2, TaskReturns
<1>3. CASE MoveCheck(c) \/ MoveRead(c)
  BY <1>1, <1>2, <1>3, SameTablesKept, NobodyHired DEF MoveCheck, MoveRead, TaskAt
<1>4. CASE RestoreCheck(c)
  <2>1. CASE task' = [task EXCEPT ![c].pc = "moveRead", ![c].to = "offer"]
    <3>1. PICK rec : rec = [task[c] EXCEPT !.pc = "moveRead", !.to = "offer"]
      OBVIOUS
    <3>2. rec \in TaskRecord /\ Argued(rec) /\ rec.pc = "moveRead"
      BY <1>0, <1>4, <3>1 DEF TaskRecord, Argued, Labels, Stages, RestoreCheck, TaskAt
    <3>3. task' = [task EXCEPT ![c] = rec]
      BY <1>0, <2>1, <3>1 DEF PipelineTypeOK, TaskRecord
    <3>4. OnlyTask(c) /\ task'[c].pc = "moveRead"
      BY <1>0, <3>2, <3>3 DEF PipelineTypeOK, OnlyTask
    <3>5. QED
      BY <1>4, <3>4, SameTablesKept, NobodyHired DEF RestoreCheck
  <2>2. QED
    BY <1>2, <1>4, <2>1, SameTablesKept, NobodyHired DEF RestoreCheck
<1>5. CASE MoveUpdate(c) \/ SetApplicationStage(c)
  <2>1. task[c].a \in Applications /\ task[c].to \in Stages /\ task[c].to # "hired"
    BY <1>0, <1>5 DEF MoveUpdate, SetApplicationStage, TaskAt, Argued
  <2>2. QED
    BY <1>2, <1>5, <2>1, SetStageKeeps, NobodyHired DEF MoveUpdate, SetApplicationStage
<1>6. CASE MoveToOffer(c)
  <2>1. task[c].a \in Applications /\ task[c].pc = "moveToOffer" /\ "offer" \in Stages
    BY <1>0, <1>6 DEF MoveToOffer, TaskAt, Argued, Stages
  <2>2. QED
    BY <1>1, <1>2, <1>6, <2>1, SetStageKeeps, NobodyHired DEF MoveToOffer
<1>7. CASE RejectApplication(c)
  <2>1. task[c].a \in Applications /\ "rejected" \in Stages
    BY <1>0, <1>7 DEF RejectApplication, TaskAt, Argued, Stages
  <2>2. QED
    BY <1>2, <1>7, <2>1, SetStageKeeps, NobodyHired DEF RejectApplication
<1>8. QED
  BY <1>3, <1>4, <1>5, <1>6, <1>7

\* What the UPDATEs of an offer may write, for an offer that is there.
LEMMA OfferSteps ==
  ASSUME IInv, NEW c \in Tasks,
         UpdateOffer(c) \/ ApproveOffer(c) \/ RequestOfferApproval(c) \/ RejectOffer(c)
           \/ UpdateOfferToken(c) \/ SubmitEsign(c) \/ DeclineOffer(c)
  PROVE  IInv'
<1>0. PipelineTypeOK /\ task[c] \in TaskRecord /\ Argued(task[c]) /\ task[c].pc # "idle"
  BY
     DEF IInv, CallsArgued, UpdateOffer, ApproveOffer, RequestOfferApproval, RejectOffer,
         UpdateOfferToken, SubmitEsign, DeclineOffer, TaskAt
<1>1. PICK a \in Applications : a = task[c].a
  BY <1>0 DEF Argued
<1>2. offer[a] \in OfferRecord /\ (HasOffer(a) => offer[a].approval \in Approvals)
  BY DEF IInv, PipelineTypeOK, OffersWhole, OfferRecord
<1>3. TaskReturn(c) => OnlyTask(c) /\ task'[c].pc \notin {"hireInsert", "hireMark"}
  BY <1>0, TaskReturns
<1>4. CASE UpdateOffer(c)
  <2>1. PICK new : /\ SetOffer(a, new)
                   /\ new = [offer[a] EXCEPT
                        !.status = IF task[c].to = None THEN @ ELSE task[c].to,
                        !.sent = task[c].sent \/ (task[c].to = "sent" /\ ~task[c].sent),
                        !.token = task[c].token \/ (task[c].to = "sent" /\ ~task[c].sent)]
    BY <1>1, <1>4 DEF UpdateOffer
  <2>2. /\ new.status = IF task[c].to = None THEN offer[a].status ELSE task[c].to
        /\ new.approval = offer[a].approval /\ new \in OfferRecord
    BY <1>0, <1>2, <1>4, <2>1 DEF OfferRecord, TaskRecord, Argued, UpdateOffer, TaskAt
  <2>3. HasOffer(a) => new.status \in OfferStatuses
    BY <1>0, <1>4, <2>2 DEF HasOffer, Argued, UpdateOffer, TaskAt
  <2>4. TablesKept
    BY <1>2, <1>4, <2>1, <2>2, <2>3, SetOfferKeeps DEF UpdateOffer, Reviewed
  <2>5. Argued([task[c] EXCEPT !.pc = "rejectApplication"]) /\ "rejectApplication" \in Labels
    BY <1>0 DEF Argued, TaskRecord, Labels
  <2>6. TaskGoto(c, "rejectApplication") => OnlyTask(c) /\ task'[c].pc \notin {"hireInsert", "hireMark"}
    BY <1>0, <2>5, TaskGoesTo DEF TaskRecord
  <2>7. QED
    BY <1>3, <1>4, <2>4, <2>6, NobodyHired DEF UpdateOffer
<1>5. CASE ApproveOffer(c) \/ RequestOfferApproval(c) \/ RejectOffer(c)
  <2>1. \E approval \in Approvals \cup {offer[a].approval} :
          /\ SetOffer(a, [offer[a] EXCEPT !.approval = approval])
          /\ offer[a].approval \in {"approved", "rejected"} => approval \in {"approved", "rejected"}
    <3>1. CASE ApproveOffer(c)
      BY <1>1, <3>1 DEF ApproveOffer, Approvals
    <3>2. CASE RequestOfferApproval(c)
      BY <1>1, <3>2 DEF RequestOfferApproval, Approvals
    <3>3. CASE RejectOffer(c)
      BY <1>1, <3>3 DEF RejectOffer, Approvals
    <3>4. QED
      BY <1>5, <3>1, <3>2, <3>3
  <2>2. PICK approval, new :
          /\ approval \in Approvals \cup {offer[a].approval}
          /\ SetOffer(a, new) /\ new = [offer[a] EXCEPT !.approval = approval]
          /\ offer[a].approval \in {"approved", "rejected"} => approval \in {"approved", "rejected"}
    BY <2>1
  <2>3. /\ new \in OfferRecord /\ new.status = offer[a].status /\ new.approval = approval
        /\ HasOffer(a) => approval \in Approvals
    BY <1>2, <2>2 DEF OfferRecord
  <2>4. TablesKept
    BY <1>5, <2>2, <2>3, SetOfferKeeps
       DEF ApproveOffer, RequestOfferApproval, RejectOffer, HasOffer, Reviewed
  <2>5. QED
    BY <1>3, <1>5, <2>4, NobodyHired DEF ApproveOffer, RequestOfferApproval, RejectOffer
<1>6. CASE UpdateOfferToken(c) \/ SubmitEsign(c) \/ DeclineOffer(c)
  <2>1. PICK new : /\ SetOffer(a, new)
                   /\ \/ new = [offer[a] EXCEPT !.token = TRUE]
                      \/ new = [offer[a] EXCEPT !.status = "accepted"]
                      \/ new = [offer[a] EXCEPT !.status = "rejected"]
    BY <1>1, <1>6 DEF UpdateOfferToken, SubmitEsign, DeclineOffer
  <2>2. /\ new \in OfferRecord /\ new.approval = offer[a].approval
        /\ HasOffer(a) => new.status \in OfferStatuses
    BY <1>2, <2>1 DEF OfferRecord, OfferStatuses, HasOffer
  <2>3. TablesKept
    BY <1>2, <1>6, <2>1, <2>2, SetOfferKeeps DEF UpdateOfferToken, SubmitEsign, DeclineOffer, Reviewed
  <2>4. QED
    BY <1>3, <1>6, <2>3, NobodyHired DEF UpdateOfferToken, SubmitEsign, DeclineOffer
<1>7. QED
  BY <1>4, <1>5, <1>6

\* The INSERT of an offer, and the application that goes with its offer.
LEMMA InsertStep ==
  ASSUME IInv, NEW c \in Tasks, InsertOffer(c)
  PROVE  IInv'
<1>0. PipelineTypeOK /\ task[c] \in TaskRecord /\ Argued(task[c]) /\ task[c].pc = "insertOffer"
  BY DEF IInv, CallsArgued, InsertOffer, TaskAt
<1>1. PICK a \in Applications : a = task[c].a
  BY <1>0 DEF Argued
<1>2. OnlyTask(c) /\ task'[c].pc = "idle"
  BY <1>0, TaskReturns DEF InsertOffer
<1>3. TablesKept
  <2>1. CASE ~InTable(a) \/ HasOffer(a)
    BY <1>1, <2>1, SameTablesKept DEF InsertOffer
  <2>2. CASE InTable(a) /\ ~HasOffer(a)
    <3>1. PICK new : /\ offer' = [offer EXCEPT ![a] = new]
                     /\ new = [status |-> task[c].to, approval |-> task[c].approval,
                               sent |-> task[c].to = "sent", token |-> task[c].to = "sent"]
      BY <1>1, <2>2 DEF InsertOffer
    <3>2. new \in OfferRecord /\ new.status \in OfferStatuses /\ new.approval \in Approvals
      BY <1>0, <3>1 DEF OfferRecord, Argued
    <3>3. offer' \in [Applications -> OfferRecord]
      BY <3>1, <3>2 DEF IInv, PipelineTypeOK, OfferRecord
    <3>4. OffersWhole'
      BY <3>1, <3>2 DEF IInv, PipelineTypeOK, OffersWhole, HasOffer
    <3>5. ~Reviewed(a)
      BY <2>2 DEF IInv, OffersWhole, Reviewed, InTable, NoOffer, Stages, None
    <3>6. \A b \in Applications : Reviewed(b) => Reviewed(b)'
      BY <3>1, <3>5 DEF IInv, PipelineTypeOK, Reviewed, InsertOffer
    <3>7. QED
      BY <3>3, <3>4, <3>6 DEF TablesKept, IInv, PipelineTypeOK, InsertOffer
  <2>3. QED
    BY <2>1, <2>2
<1>4. QED
  BY <1>2, <1>3, NobodyHired DEF InsertOffer

LEMMA DeleteStep ==
  ASSUME IInv, NEW a \in Applications, DeleteApplication(a)
  PROVE  IInv'
<1>1. /\ app' \in [Applications -> [stage : Stages \cup {"gone"}, employee : Identities \cup {None}]]
      /\ \A b \in Applications : /\ app'[b].employee = app[b].employee
                                 /\ app'[b].stage = IF b = a THEN "gone" ELSE app[b].stage
  BY DEF IInv, PipelineTypeOK, DeleteApplication
<1>2. NoOffer \in OfferRecord /\ NoOffer.status \notin OfferStatuses
  BY DEF NoOffer, OfferRecord, OfferStatuses, None
<1>3. /\ offer' \in [Applications -> OfferRecord]
      /\ \A b \in Applications : offer'[b] = IF b = a THEN NoOffer ELSE offer[b]
  BY <1>2 DEF IInv, PipelineTypeOK, DeleteApplication, OfferRecord
<1>4. OffersWhole' /\ \A b \in Applications : Reviewed(b) => Reviewed(b)'
  BY <1>1, <1>2, <1>3 DEF IInv, OffersWhole, HasOffer, Reviewed
<1>5. PipelineTypeOK'
  BY <1>1, <1>3 DEF IInv, PipelineTypeOK, DeleteApplication, OfferRecord
<1>6. CallsArgued'
  BY DEF IInv, CallsArgued, DeleteApplication
<1>7. HiresChecked'
  <2>1. ASSUME NEW d \in Tasks, task[d].pc = "hireInsert"
        PROVE  Reviewed(task[d].a)'
    <3>1. task[d].a \in Applications /\ Reviewed(task[d].a)
      BY <2>1 DEF IInv, CallsArgued, Argued, HiresChecked, TaskAt
    <3>2. QED
      BY <1>4, <3>1 DEF DeleteApplication, Reviewed
  <2>2. QED
    BY <2>1 DEF IInv, HiresChecked, TaskAt, DeleteApplication
<1>8. HireIsBacked'
  <2>1. ASSUME NEW i \in Identities, emp[i] # None
        PROVE  app'[emp[i]].stage = "gone" \/ offer'[emp[i]].approval \in {"approved", "rejected"}
    <3>1. emp[i] \in Applications /\ Reviewed(emp[i])
      BY <2>1 DEF IInv, PipelineTypeOK, HireIsBacked, Reviewed
    <3>2. QED
      BY <1>4, <3>1 DEF Reviewed
  <2>2. QED
    BY <1>1, <2>1 DEF IInv, HireIsBacked, DeleteApplication
<1>9. QED
  BY <1>4, <1>5, <1>6, <1>7, <1>8 DEF IInv

\* The statements of a hire.
LEMMA HireSteps ==
  ASSUME IInv, NEW c \in Tasks,
         HireReadOffer(c) \/ CreateEmployeeFromHire(c) \/ MarkApplicationHired(c)
  PROVE  IInv'
<1>0. PipelineTypeOK /\ task[c] \in TaskRecord /\ Argued(task[c])
  BY DEF IInv, CallsArgued
<1>1. task[c].pc \in {"hireOffer", "hireInsert", "hireMark"}
  BY DEF HireReadOffer, CreateEmployeeFromHire, MarkApplicationHired, TaskAt
<1>2. PICK a \in Applications, i \in Identities : a = task[c].a /\ i = task[c].id
  BY <1>0, <1>1 DEF Argued
<1>3. ASSUME TaskReturn(c)
      PROVE  OnlyTask(c) /\ task'[c].pc \notin {"hireInsert", "hireMark"}
  BY <1>0, <1>3, TaskReturns
<1>4. ASSUME NEW l \in {"hireInsert", "hireMark"}, TaskGoto(c, l)
      PROVE  OnlyTask(c) /\ task'[c].pc = l /\ task'[c].a = a /\ task'[c].id = i
  <2>1. Argued([task[c] EXCEPT !.pc = l]) /\ l \in Labels
    BY <1>0, <1>1 DEF TaskRecord, Argued, Labels
  <2>2. QED
    BY <1>0, <1>2, <1>4, <2>1, TaskGoesTo DEF TaskRecord
<1>5. CASE HireReadOffer(c)
  <2>1. TablesKept
    BY <1>5, SameTablesKept DEF HireReadOffer
  <2>2. CASE TaskReturn(c)
    BY <1>3, <1>5, <2>1, <2>2, NobodyHired DEF HireReadOffer
  <2>3. CASE TaskGoto(c, "hireInsert") /\ offer[a].approval = "approved"
    <3>1. Reviewed(task[c].a)'
      BY <1>4, <1>5, <2>3 DEF HireReadOffer, Reviewed
    <3>2. QED
      BY <1>4, <1>5, <2>1, <2>3, <3>1, StepKeeps DEF HireReadOffer, IInv, HireIsBacked
  <2>4. QED
    BY <1>2, <1>5, <2>2, <2>3 DEF HireReadOffer
<1>6. CASE CreateEmployeeFromHire(c)
  <2>1. CASE emp[i] = None
    <3>1. /\ emp' = [emp EXCEPT ![i] = a] /\ TaskGoto(c, "hireMark")
          /\ app' = app /\ offer' = offer
      BY <1>2, <1>6, <2>1 DEF CreateEmployeeFromHire
    <3>2. emp'[i] = a /\ \A j \in Identities : j # i => emp'[j] = emp[j]
      BY <1>0, <3>1 DEF PipelineTypeOK
    <3>3. TablesKept
      BY <2>1, <3>1, <3>2 DEF TablesKept, IInv, PipelineTypeOK, OfferRecord, OffersWhole, HasOffer, Reviewed
    <3>4. Reviewed(a)
      BY <1>2, <1>6 DEF IInv, HiresChecked, CreateEmployeeFromHire
    <3>5. \A j \in Identities : emp'[j] # emp[j] => Reviewed(emp[j])'
      BY <3>1, <3>2, <3>4 DEF Reviewed
    <3>6. QED
      BY <1>4, <3>1, <3>2, <3>3, <3>5, StepKeeps DEF IInv, HireIsBacked
  <2>2. CASE emp[i] # None
    BY <1>2, <1>3, <1>6, <2>2, SameTablesKept, NobodyHired DEF CreateEmployeeFromHire
  <2>3. QED
    BY <2>1, <2>2
<1>7. CASE MarkApplicationHired(c)
  <2>1. emp[i] = a
    BY <1>2, <1>7 DEF IInv, HiresChecked, MarkApplicationHired
  <2>2. /\ app' \in [Applications -> [stage : Stages \cup {"gone"}, employee : Identities \cup {None}]]
        /\ \A b \in Applications :
             \/ app'[b] = app[b]
             \/ b = a /\ app[b].stage # "gone" /\ app'[b].stage = "hired" /\ app'[b].employee = i
    BY <1>0, <1>2, <1>7 DEF PipelineTypeOK, MarkApplicationHired, InTable, Stages
  <2>3. TablesKept
    BY <1>7, <2>2
       DEF TablesKept, IInv, PipelineTypeOK, OfferRecord, OffersWhole, HasOffer, Reviewed, MarkApplicationHired
  <2>4. \A b \in Applications : app'[b].stage = "hired" => app'[b].employee # None
    BY <2>2, NoneIsNoId DEF IInv, HireIsBacked
  <2>5. QED
    BY <1>3, <1>7, <2>1, <2>2, <2>3, <2>4, StepKeeps DEF MarkApplicationHired
<1>8. QED
  BY <1>5, <1>6, <1>7

-----------------------------------------------------------------------------
(* The theorems.                                                           *)

\* The invariant is inductive.
LEMMA PipelineInductive == PipelineSpec => []IInv
<1>1. PipelineInit => IInv
  <2> SUFFICES ASSUME PipelineInit PROVE IInv
    OBVIOUS
  <2>1. PipelineTypeOK /\ OffersWhole /\ HireIsBacked
    <3>1. /\ "applied" \in Stages /\ "applied" # "hired"
          /\ NoOffer \in OfferRecord /\ NoOffer.status \notin OfferStatuses
      BY DEF Stages, NoOffer, OfferRecord, OfferStatuses, None
    <3>2. QED
      BY <3>1, IdleArgued DEF PipelineInit, PipelineTypeOK, OffersWhole, HasOffer, HireIsBacked, OfferRecord
  <2>2. CallsArgued /\ HiresChecked
    BY IdleArgued DEF PipelineInit, CallsArgued, HiresChecked, TaskAt
  <2>3. QED
    BY <2>1, <2>2 DEF IInv
<1>2. IInv /\ [PipelineNext]_pipelineVars => IInv'
  <2>1. ASSUME IInv, NEW c \in Tasks, Start(c)
        PROVE  IInv'
    BY <2>1, TaskStarts, SameTablesKept, NobodyHired DEF IInv
  <2>2. ASSUME IInv, NEW c \in Tasks, PipelineContinue(c)
        PROVE  IInv'
    BY <2>2, StageSteps, OfferSteps, InsertStep, HireSteps DEF PipelineContinue
  <2>3. ASSUME IInv, UNCHANGED pipelineVars
        PROVE  IInv'
    BY <2>3
       DEF IInv, PipelineTypeOK, CallsArgued, OffersWhole, HasOffer, HiresChecked, HireIsBacked, Reviewed,
           TaskAt, pipelineVars
  <2>4. QED
    BY <2>1, <2>2, <2>3, DeleteStep DEF PipelineNext
<1>3. QED
  BY <1>1, <1>2, PTL DEF PipelineSpec

\* The tables and the calls in progress keep their types.
THEOREM TypeCorrect == PipelineSpec => []PipelineTypeOK
BY PipelineInductive, PTL DEF IInv

\* However hires, reviews and deletions interleave, whoever is employed was
\* hired on an offer that had been approved.
THEOREM HiresAreBacked == PipelineSpec => []HireIsBacked
BY PipelineInductive, PTL DEF IInv

\* What a step may make of the approval of an offer that is there before and after.
Advances(a) ==
  HasOffer(a) /\ HasOffer(a)' /\ offer'[a].approval # offer[a].approval =>
    CASE offer[a].approval = "not_requested" -> offer'[a].approval \in {"pending", "rejected"}
      [] offer[a].approval = "pending" -> offer'[a].approval \in {"approved", "rejected"}
      [] offer[a].approval = "approved" -> offer'[a].approval = "rejected"
      [] OTHER -> FALSE

\* An update of one offer is judged by that offer alone.
LEMMA SetOfferAdvances ==
  ASSUME IInv, NEW a \in Applications, NEW new, SetOffer(a, new),
         HasOffer(a) => \/ new.approval = offer[a].approval
                        \/ offer[a].approval = "not_requested" /\ new.approval = "pending"
                        \/ offer[a].approval = "pending" /\ new.approval = "approved"
                        \/ offer[a].approval # "rejected" /\ new.approval = "rejected"
  PROVE  \A b \in Applications : Advances(b)
<1>1. ASSUME NEW b \in Applications
      PROVE  offer'[b] = offer[b] \/ (b = a /\ HasOffer(a) /\ offer'[b] = new)
  BY DEF IInv, PipelineTypeOK, SetOffer
<1>2. \A b \in Applications : HasOffer(b) => offer[b].approval \in Approvals
  BY DEF IInv, OffersWhole
<1>3. QED
  BY <1>1, <1>2 DEF Advances, Approvals

\* Reviews that race leave an offer where the last of them may put it.
THEOREM ReviewsAdvance == PipelineSpec => ApprovalOnlyAdvances
<1>1. IInv /\ [PipelineNext]_pipelineVars => [\A a \in Applications : Advances(a)]_pipelineVars
  <2>1. ASSUME IInv, NEW c \in Tasks, Start(c)
        PROVE  \A a \in Applications : Advances(a)
    BY <2>1, TaskStarts DEF IInv, Advances
  <2>2. ASSUME IInv, NEW c \in Tasks, PipelineContinue(c)
        PROVE  \A a \in Applications : Advances(a)
    <3>0. \/ UpdateOffer(c) \/ ApproveOffer(c) \/ RequestOfferApproval(c) \/ RejectOffer(c)
          \/ UpdateOfferToken(c) \/ SubmitEsign(c) \/ DeclineOffer(c)
          \/ InsertOffer(c)
          \/ UNCHANGED offer
      BY <2>2
         DEF PipelineContinue, MoveCheck, MoveUpdate, RestoreCheck, MoveRead,
             SetApplicationStage, MoveToOffer, RejectApplication, HireReadOffer,
            CreateEmployeeFromHire, MarkApplicationHired
    <3>1. CASE UNCHANGED offer
      BY <3>1 DEF Advances
    <3>2. CASE InsertOffer(c)
      <4>1. \A a \in Applications : HasOffer(a) => offer'[a] = offer[a]
        BY <2>2, <3>2 DEF IInv, PipelineTypeOK, InsertOffer
      <4>2. QED
        BY <4>1 DEF Advances
    <3>3. CASE \/ UpdateOffer(c) \/ ApproveOffer(c) \/ RequestOfferApproval(c) \/ RejectOffer(c)
               \/ UpdateOfferToken(c) \/ SubmitEsign(c) \/ DeclineOffer(c)
      <4>1. PICK a \in Applications : a = task[c].a
        BY <2>2, <3>3
           DEF IInv, CallsArgued, Argued, UpdateOffer, ApproveOffer, RequestOfferApproval,
               RejectOffer, UpdateOfferToken, SubmitEsign, DeclineOffer, TaskAt
      <4>2. offer[a] \in OfferRecord /\ (HasOffer(a) => offer[a].approval \in Approvals)
        BY <2>2 DEF IInv, PipelineTypeOK, OffersWhole, OfferRecord
      <4>3. \E new : /\ SetOffer(a, new)
                     /\ HasOffer(a) =>
                          \/ new.approval = offer[a].approval
                          \/ offer[a].approval = "not_requested" /\ new.approval = "pending"
                          \/ offer[a].approval = "pending" /\ new.approval = "approved"
                          \/ offer[a].approval # "rejected" /\ new.approval = "rejected"
        <5>1. CASE UpdateOffer(c)
          <6>1. PICK new : /\ SetOffer(a, new)
                           /\ new = [offer[a] EXCEPT
                                !.status = IF task[c].to = None THEN @ ELSE task[c].to,
                                !.sent = task[c].sent \/ (task[c].to = "sent" /\ ~task[c].sent),
                                !.token = task[c].token \/ (task[c].to = "sent" /\ ~task[c].sent)]
            BY <4>1, <5>1 DEF UpdateOffer
          <6>2. new.approval = offer[a].approval
            BY <4>2, <6>1 DEF OfferRecord
          <6>3. QED
            BY <6>1, <6>2
        <5>2. CASE ApproveOffer(c)
          BY <4>1, <4>2, <5>2 DEF ApproveOffer, OfferRecord
        <5>3. CASE RequestOfferApproval(c)
          BY <4>1, <4>2, <5>3 DEF RequestOfferApproval, OfferRecord
        <5>4. CASE RejectOffer(c)
          BY <4>1, <4>2, <5>4 DEF RejectOffer, OfferRecord
        <5>5. CASE UpdateOfferToken(c) \/ SubmitEsign(c) \/ DeclineOffer(c)
          BY <4>1, <4>2, <5>5 DEF UpdateOfferToken, SubmitEsign, DeclineOffer, OfferRecord
        <5>6. QED
          BY <3>3, <5>1, <5>2, <5>3, <5>4, <5>5
      <4>4. QED
        BY <2>2, <4>3, SetOfferAdvances
    <3>4. QED
      BY <3>0, <3>1, <3>2, <3>3
  <2>3. ASSUME IInv, NEW a \in Applications, DeleteApplication(a)
        PROVE  \A b \in Applications : Advances(b)
    <3>1. \A b \in Applications : offer'[b] = offer[b] \/ offer'[b] = NoOffer
      BY <2>3 DEF IInv, PipelineTypeOK, DeleteApplication
    <3>2. NoOffer.status \notin OfferStatuses
      BY DEF NoOffer, OfferStatuses, None
    <3>3. QED
      BY <3>1, <3>2 DEF Advances, HasOffer
  <2>4. QED
    BY <2>1, <2>2, <2>3 DEF PipelineNext
<1>2. QED
  BY <1>1, PipelineInductive, PTL DEF PipelineSpec, ApprovalOnlyAdvances, Advances

-----------------------------------------------------------------------------
(* The mail.                                                               *)

MailRecord == [st : {"none", "pending", "sent", "failed", "cancelled"}, app : Apps \cup {"none"}, due : Nat]
ReviewRecord == [st : {"pending", "closed"}, reminded : {"no", "sent", "by hand"}]
CallRecord == [pc : {"idle", "cancel", "update", "tailCancel", "tailInsert", "write"},
               app : Apps \cup {"none"}, to : StagesSeen, at : Nat]
WorkRecord == [pc : {"idle", "send", "mark", "fail"}, rows : SUBSET Polled, x : Polled \cup {0}]

\* What a request in progress and a tick in progress hold.
ArguedCall(k) ==
  /\ k.pc # "idle" => k.app \in Apps
  /\ k.pc = "cancel" => k.to = "live"
  /\ k.pc = "idle" => k.app = "none"
ArguedWork(k) ==
  /\ k.pc \in {"idle", "send"} => k.x = 0
  /\ k.pc = "idle" => k.rows = {}
  /\ k.pc = "mark" => k.x \in Polled
  /\ k.pc = "fail" => k.x \in MailIds

\* Emails are inserted one after the other.
InOrder == \E n \in 0..MaxMails : \A i \in MailIds : mail[i].st # "none" <=> i <= n

\* Ticks list emails that exist; an email is never deleted.
Listed == \A w \in Workers, i \in MailIds : i \in Held(w) => mail[i].st # "none"

WellTyped ==
  /\ TypeOK /\ InOrder /\ Listed
  /\ \A c \in Calls : ArguedCall(call[c])
  /\ \A w \in Workers : ArguedWork(work[w])

\* The only call, or tick, that changes is c, or w.
OnlyCall(c) ==
  /\ call' \in [Calls -> CallRecord]
  /\ \A d \in Calls : d # c => call'[d] = call[d]
  /\ ArguedCall(call'[c])
OnlyWork(w) ==
  /\ work' \in [Workers -> WorkRecord]
  /\ \A v \in Workers : v # w => work'[v] = work[v]
  /\ ArguedWork(work'[w])

CallsTyped == call' \in [Calls -> CallRecord] /\ \A c \in Calls : ArguedCall(call'[c])
WorkTyped == work' \in [Workers -> WorkRecord] /\ \A w \in Workers : ArguedWork(work'[w])

TablesTyped ==
  /\ now' \in Nat
  /\ stage' \in [Apps -> StagesSeen]
  /\ mail' \in [MailIds -> MailRecord] /\ InOrder'
  /\ review' \in [Reviews -> ReviewRecord]
  /\ tries' \in [Polled -> Nat] /\ again' \subseteq Polled /\ skipped' \subseteq Polled
  /\ mixed' \subseteq Apps

LEMMA Types ==
  ASSUME WellTyped
  PROVE  /\ now \in Nat /\ stage \in [Apps -> StagesSeen] /\ mail \in [MailIds -> MailRecord]
         /\ review \in [Reviews -> ReviewRecord] /\ call \in [Calls -> CallRecord]
         /\ work \in [Workers -> WorkRecord] /\ tries \in [Polled -> Nat] /\ again \subseteq Polled
         /\ skipped \subseteq Polled /\ mixed \subseteq Apps
BY DEF WellTyped, TypeOK, MailRecord, ReviewRecord, CallRecord, WorkRecord

LEMMA TypesNext ==
  ASSUME TablesTyped, CallsTyped, WorkTyped, Listed', started' \in Nat, faults' \in Nat
  PROVE  WellTyped'
BY DEF TablesTyped, CallsTyped, WorkTyped, WellTyped, TypeOK, MailRecord, ReviewRecord, CallRecord, WorkRecord

-----------------------------------------------------------------------------
(* The rows of the queue.                                                  *)

\* The next email has an id that none has had.
LEMMA NextMailFresh ==
  ASSUME WellTyped
  PROVE  NextMail \in MailIds =>
           /\ mail[NextMail].st = "none"
           /\ \A i \in MailIds : mail[i].st # "none" <=> i < NextMail
<1>1. PICK n \in 0..MaxMails : \A i \in MailIds : mail[i].st # "none" <=> i <= n
  BY DEF WellTyped, InOrder
<1>2. n \in Nat /\ 1 \in Int
  BY MailAssumption
<1>3. {i \in MailIds : mail[i].st # "none"} = 1..n
  BY <1>1, MailAssumption DEF MailIds
<1>4. Cardinality(1..n) = n
  BY <1>2, FS_Interval
<1>5. NextMail = 1 + n
  BY <1>3, <1>4 DEF NextMail
<1>6. QED
  BY <1>1, <1>2, <1>5, MailAssumption DEF MailIds

\* A write that neither inserts nor removes an email keeps the order.
LEMMA OrderKept ==
  ASSUME WellTyped, \A i \in MailIds : mail'[i].st = "none" <=> mail[i].st = "none"
  PROVE  InOrder'
<1>1. PICK n \in 0..MaxMails : \A i \in MailIds : mail[i].st # "none" <=> i <= n
  BY DEF WellTyped, InOrder
<1>2. \A i \in MailIds : mail'[i].st # "none" <=> i <= n
  BY <1>1
<1>3. QED
  BY <1>2 DEF InOrder

\* The INSERT of an email.
LEMMA MailInserted ==
  ASSUME WellTyped, NextMail \in MailIds, NEW x \in MailRecord, x.st = "pending",
         mail' = [mail EXCEPT ![NextMail] = x]
  PROVE  mail' \in [MailIds -> MailRecord] /\ InOrder'
<1>1. mail' \in [MailIds -> MailRecord]
  BY Types
<1>2. mail'[NextMail].st = "pending" /\ \A i \in MailIds : i # NextMail => mail'[i] = mail[i]
  BY Types
<1>3. \A i \in MailIds : mail[i].st # "none" <=> i < NextMail
  BY NextMailFresh
<1>4. NextMail \in 0..MaxMails
  BY MailAssumption DEF MailIds
<1>5. \A i \in MailIds : i <= NextMail <=> (i < NextMail \/ i = NextMail)
  BY MailAssumption DEF MailIds
<1>6. \A i \in MailIds : mail'[i].st # "none" <=> i <= NextMail
  BY <1>2, <1>3, <1>5
<1>7. QED
  BY <1>1, <1>4, <1>6 DEF InOrder

\* The UPDATE that cancels what is queued for an application.
LEMMA CancelledTyped ==
  ASSUME WellTyped, NEW a, Cancelled(a)
  PROVE  /\ mail' \in [MailIds -> MailRecord] /\ InOrder'
         /\ \A i \in MailIds : mail'[i] = mail[i] \/ (mail[i].st = "pending" /\ mail'[i].st = "cancelled")
         /\ \A i \in MailIds : mail'[i].app = mail[i].app
         /\ \A i \in MailIds : ~(mail'[i].st = "pending" /\ mail'[i].app = a)
<1>1. \A i \in MailIds : mail'[i] = IF i \in PendingOf(a) THEN [mail[i] EXCEPT !.st = "cancelled"] ELSE mail[i]
  BY DEF Cancelled
<1>2. \A i \in MailIds : mail[i] \in MailRecord
  BY Types
<1>3. \A i \in MailIds : [mail[i] EXCEPT !.st = "cancelled"] \in MailRecord
  BY <1>2 DEF MailRecord
<1>4. mail' \in [MailIds -> MailRecord]
  BY <1>2, <1>3 DEF Cancelled
<1>5. \A i \in MailIds : mail'[i] = mail[i] \/ (mail[i].st = "pending" /\ mail'[i].st = "cancelled")
  BY <1>1, <1>2 DEF PendingOf, MailRecord
<1>6. \A i \in MailIds : mail'[i].app = mail[i].app
  BY <1>1, <1>2 DEF MailRecord
<1>7. InOrder'
  BY <1>5, OrderKept
<1>8. \A i \in MailIds : ~(mail'[i].st = "pending" /\ mail'[i].app = a)
  <2> SUFFICES ASSUME NEW i \in MailIds, mail'[i].st = "pending", mail'[i].app = a PROVE FALSE
    OBVIOUS
  <2>1. mail'[i] = mail[i]
    BY <1>5
  <2>2. i \in PendingOf(a)
    BY <2>1 DEF PendingOf
  <2>3. mail'[i].st = "cancelled"
    BY <1>1, <1>2, <2>2 DEF MailRecord
  <2>4. QED
    BY <2>3
<1>9. QED
  BY <1>4, <1>5, <1>6, <1>7, <1>8

\* The UPDATE that marks one email.
LEMMA MailMarked ==
  ASSUME WellTyped, NEW x \in MailIds, mail[x].st # "none", NEW st \in {"sent", "failed"},
         mail' = [mail EXCEPT ![x].st = st]
  PROVE  /\ mail' \in [MailIds -> MailRecord] /\ InOrder'
         /\ mail'[x].st = st /\ mail'[x].app = mail[x].app
         /\ \A i \in MailIds : i # x => mail'[i] = mail[i]
<1>1. mail[x] \in MailRecord
  BY Types
<1>2. mail' = [mail EXCEPT ![x] = [mail[x] EXCEPT !.st = st]]
  OBVIOUS
<1>3. [mail[x] EXCEPT !.st = st] \in MailRecord
  BY <1>1 DEF MailRecord
<1>4. /\ mail' \in [MailIds -> MailRecord] /\ mail'[x] = [mail[x] EXCEPT !.st = st]
      /\ \A i \in MailIds : i # x => mail'[i] = mail[i]
  BY <1>2, <1>3, Types
<1>5. mail'[x].st = st /\ mail'[x].app = mail[x].app
  BY <1>1, <1>4 DEF MailRecord
<1>6. InOrder'
  BY <1>4, <1>5, OrderKept
<1>7. QED
  BY <1>4, <1>5, <1>6

-----------------------------------------------------------------------------
(* What a step of a transition, and of a tick, does.                       *)

LEMMA NoCallArgued == NoCall \in CallRecord /\ ArguedCall(NoCall)
BY DEF NoCall, CallRecord, ArguedCall, StagesSeen

LEMMA NoWorkArgued == NoWork \in WorkRecord /\ ArguedWork(NoWork)
BY DEF NoWork, WorkRecord, ArguedWork

LEMMA CallBecomes ==
  ASSUME WellTyped, NEW c \in Calls, NEW x \in CallRecord, ArguedCall(x), call' = [call EXCEPT ![c] = x]
  PROVE  OnlyCall(c) /\ call'[c] = x /\ CallsTyped
BY Types DEF WellTyped, OnlyCall, CallsTyped

LEMMA ReturnCall ==
  ASSUME WellTyped, NEW c \in Calls, Return(c)
  PROVE  OnlyCall(c) /\ call'[c] = NoCall /\ CallsTyped
BY NoCallArgued, CallBecomes DEF Return

LEMMA GotoCall ==
  ASSUME WellTyped, NEW c \in Calls, ~At(c, "idle"),
         NEW l \in {"update", "tailCancel", "tailInsert"}, Goto(c, l)
  PROVE  OnlyCall(c) /\ call'[c] = [call[c] EXCEPT !.pc = l] /\ CallsTyped
<1>1. call[c] \in CallRecord /\ ArguedCall(call[c])
  BY Types DEF WellTyped
<1>2. [call[c] EXCEPT !.pc = l] \in CallRecord /\ ArguedCall([call[c] EXCEPT !.pc = l])
  BY <1>1 DEF CallRecord, ArguedCall, At
<1>3. call' = [call EXCEPT ![c] = [call[c] EXCEPT !.pc = l]]
  BY Types DEF Goto
<1>4. QED
  BY <1>2, <1>3, CallBecomes

LEMMA WorkBecomes ==
  ASSUME WellTyped, NEW w \in Workers, NEW x \in WorkRecord, ArguedWork(x), work' = [work EXCEPT ![w] = x]
  PROVE  OnlyWork(w) /\ work'[w] = x /\ WorkTyped
BY Types DEF WellTyped, OnlyWork, WorkTyped

\* A tick that is through with a row.
LEMMA DoneWork ==
  ASSUME WellTyped, NEW w \in Workers, Done(w)
  PROVE  /\ OnlyWork(w) /\ WorkTyped
         /\ work'[w].pc \in {"idle", "send"} /\ work'[w].rows = work[w].rows /\ work'[w].x = 0
<1>1. work[w] \in WorkRecord
  BY Types
<1>2. CASE work[w].rows = {}
  <2>1. work' = [work EXCEPT ![w] = NoWork]
    BY <1>2, Types DEF Done
  <2>2. OnlyWork(w) /\ WorkTyped /\ work'[w] = NoWork
    BY <2>1, NoWorkArgued, WorkBecomes
  <2>3. QED
    BY <1>2, <2>2 DEF NoWork
<1>3. CASE work[w].rows # {}
  <2> DEFINE x == [work[w] EXCEPT !.pc = "send", !.x = 0]
  <2>1. x \in WorkRecord /\ ArguedWork(x) /\ x.pc = "send" /\ x.rows = work[w].rows /\ x.x = 0
    BY <1>1 DEF WorkRecord, ArguedWork
  <2>2. work' = [work EXCEPT ![w] = x]
    BY <1>3, Types DEF Done
  <2> HIDE DEF x
  <2>3. QED
    BY <2>1, <2>2, WorkBecomes
<1>4. QED
  BY <1>2, <1>3

\* A tick that lists: some of what is due, which it holds from now on.
LEMMA PollStarts ==
  ASSUME WellTyped, NEW w \in Workers, NEW due \in SUBSET Polled, PollStart(w, due)
  PROVE  \E rows \in SUBSET due :
           /\ OnlyWork(w) /\ WorkTyped
           /\ work[w].pc = "idle" /\ work'[w] = [pc |-> "send", rows |-> rows, x |-> 0]
           /\ again' = again \cup {x \in rows : \E v \in Workers : x \in Held(v)}
<1>1. PICK rows \in SUBSET due :
        /\ work[w].pc = "idle"
        /\ work' = [work EXCEPT ![w] = [pc |-> "send", rows |-> rows, x |-> 0]]
        /\ again' = again \cup {x \in rows : \E v \in Workers : x \in Held(v)}
  BY DEF PollStart
<1> DEFINE x == [pc |-> "send", rows |-> rows, x |-> 0]
<1>2. x \in WorkRecord /\ ArguedWork(x)
  BY DEF WorkRecord, ArguedWork
<1>3. work' = [work EXCEPT ![w] = x]
  BY <1>1
<1> HIDE DEF x
<1>4. OnlyWork(w) /\ WorkTyped /\ work'[w] = x
  BY <1>2, <1>3, WorkBecomes
<1>5. QED
  BY <1>1, <1>4 DEF x

\* A tick that sends a row goes on to mark it.
LEMMA Sends ==
  ASSUME WellTyped, NEW w \in Workers, Send(w)
  PROVE  \E x \in work[w].rows :
           /\ x \in Polled /\ work[w].pc = "send"
           /\ OnlyWork(w) /\ WorkTyped
           /\ work'[w] = [pc |-> "mark", rows |-> work[w].rows \ {x}, x |-> x]
           /\ tries' = [tries EXCEPT ![x] = @ + 1]
<1>1. work[w] \in WorkRecord /\ work[w].rows \subseteq Polled /\ work[w].pc = "send"
  BY Types DEF WorkRecord, Send
<1>2. PICK x \in work[w].rows :
        /\ work' = [work EXCEPT ![w] = [pc |-> "mark", rows |-> @.rows \ {x}, x |-> x]]
        /\ tries' = [tries EXCEPT ![x] = @ + 1]
  BY DEF Send, First
<1> DEFINE k == [pc |-> "mark", rows |-> work[w].rows \ {x}, x |-> x]
<1>3. k \in WorkRecord /\ ArguedWork(k)
  BY <1>1 DEF WorkRecord, ArguedWork
<1>4. work' = [work EXCEPT ![w] = k]
  BY <1>2, Types
<1> HIDE DEF k
<1>5. OnlyWork(w) /\ WorkTyped /\ work'[w] = k
  BY <1>3, <1>4, WorkBecomes
<1>6. QED
  BY <1>1, <1>2, <1>5 DEF k

\* A tick that passes a row over goes on to mark it all the same.
LEMMA Skips ==
  ASSUME WellTyped, NEW w \in Workers, Skip(w)
  PROVE  \E x \in work[w].rows :
           /\ x \in Polled /\ work[w].pc = "send"
           /\ OnlyWork(w) /\ WorkTyped
           /\ work'[w] = [pc |-> "mark", rows |-> work[w].rows \ {x}, x |-> x]
           /\ skipped' = skipped \cup {x}
<1>1. work[w] \in WorkRecord /\ work[w].rows \subseteq Polled /\ work[w].pc = "send"
  BY Types DEF WorkRecord, Skip
<1>2. PICK x \in work[w].rows :
        /\ work' = [work EXCEPT ![w] = [pc |-> "mark", rows |-> @.rows \ {x}, x |-> x]]
        /\ skipped' = skipped \cup {x}
  BY DEF Skip, First
<1> DEFINE k == [pc |-> "mark", rows |-> work[w].rows \ {x}, x |-> x]
<1>3. k \in WorkRecord /\ ArguedWork(k)
  BY <1>1 DEF WorkRecord, ArguedWork
<1>4. work' = [work EXCEPT ![w] = k]
  BY <1>2, Types
<1> HIDE DEF k
<1>5. OnlyWork(w) /\ WorkTyped /\ work'[w] = k
  BY <1>3, <1>4, WorkBecomes
<1>6. QED
  BY <1>1, <1>2, <1>5 DEF k

\* A tick whose send throws goes on to mark an email as failed, or to the next row.
LEMMA Throws ==
  ASSUME WellTyped, NEW w \in Workers, SendThrows(w)
  PROVE  \E x \in work[w].rows :
           /\ x \in Polled /\ work[w].pc = "send" /\ OnlyWork(w) /\ WorkTyped
           /\ work'[w].rows = work[w].rows \ {x} /\ work'[w].x \in {0, x} /\ work'[w].pc # "mark"
<1>1. work[w] \in WorkRecord /\ work[w].rows \subseteq Polled /\ work[w].pc = "send"
  BY Types DEF WorkRecord, SendThrows
<1>2. PICK x \in work[w].rows :
        work' = [work EXCEPT ![w] =
          IF x \in MailIds THEN [pc |-> "fail", rows |-> work[w].rows \ {x}, x |-> x]
          ELSE IF work[w].rows \ {x} = {} THEN NoWork ELSE [pc |-> "send", rows |-> work[w].rows \ {x}, x |-> 0]]
  BY DEF SendThrows, First
<1> DEFINE k == IF x \in MailIds THEN [pc |-> "fail", rows |-> work[w].rows \ {x}, x |-> x]
                ELSE IF work[w].rows \ {x} = {} THEN NoWork
                ELSE [pc |-> "send", rows |-> work[w].rows \ {x}, x |-> 0]
<1>3. /\ k \in WorkRecord /\ ArguedWork(k)
      /\ k.rows = work[w].rows \ {x} /\ k.x \in {0, x} /\ k.pc # "mark"
  BY <1>1, NoWorkArgued DEF WorkRecord, ArguedWork, NoWork
<1>4. work' = [work EXCEPT ![w] = k]
  BY <1>2
<1> HIDE DEF k
<1>5. OnlyWork(w) /\ WorkTyped /\ work'[w] = k
  BY <1>3, <1>4, WorkBecomes
<1>6. QED
  BY <1>1, <1>3, <1>5

\* What a tick has handed over and not marked is a row of its list.
LEMMA UnmarkedPolled ==
  ASSUME WellTyped, NEW w \in Workers
  PROVE  Unmarked(w) \subseteq Polled
BY DEF WellTyped, ArguedWork, Unmarked, Polled

\* A tick whose mark throws tries to mark a mail as failed, and leaves a
\* reminder; if that throws too it ends.
LEMMA MarkFails ==
  ASSUME WellTyped, NEW w \in Workers, MarkThrows(w) \/ FailThrows(w)
  PROVE  /\ OnlyWork(w) /\ WorkTyped
         /\ work'[w].rows \subseteq work[w].rows /\ work'[w].x \in {0, work[w].x} /\ work'[w].pc # "mark"
         /\ \/ work'[w].pc = "fail" /\ work'[w].x = work[w].x /\ again' = again
            \/ again' = again \cup Unmarked(w)
<1>1. work[w] \in WorkRecord /\ ArguedWork(work[w])
  BY Types DEF WellTyped
<1>2. CASE MarkThrows(w) /\ work[w].x \in MailIds
  <2> DEFINE k == [work[w] EXCEPT !.pc = "fail"]
  <2>1. k \in WorkRecord /\ ArguedWork(k) /\ k.pc = "fail" /\ k.rows = work[w].rows /\ k.x = work[w].x
    BY <1>1, <1>2 DEF WorkRecord, ArguedWork
  <2>2. work' = [work EXCEPT ![w] = k]
    BY <1>2, Types DEF MarkThrows
  <2> HIDE DEF k
  <2>3. OnlyWork(w) /\ WorkTyped /\ work'[w] = k
    BY <2>1, <2>2, WorkBecomes
  <2>4. again' = again
    BY <1>2 DEF MarkThrows
  <2>5. QED
    BY <2>1, <2>3, <2>4
<1>3. CASE MarkThrows(w) /\ work[w].x \notin MailIds
  BY <1>3, DoneWork DEF MarkThrows
<1>4. CASE FailThrows(w)
  <2>1. OnlyWork(w) /\ WorkTyped /\ work'[w] = NoWork
    BY <1>4, NoWorkArgued, WorkBecomes DEF FailThrows
  <2>2. QED
    BY <1>4, <2>1 DEF FailThrows, NoWork
<1>5. QED
  BY <1>2, <1>3, <1>4

\* Another writer of the stage that starts.
LEMMA HandlerStarts ==
  ASSUME WellTyped, NEW c \in Calls, NEW a \in Apps, NEW to \in StagesSeen, HandlerStart(c, a, to)
  PROVE  /\ OnlyCall(c) /\ CallsTyped /\ mixed' \subseteq Apps
         /\ call'[c].app = a /\ call'[c].to = to /\ call'[c].pc = "write"
         /\ to = "live" => stage[a] = "live"
         /\ mixed \subseteq mixed'
         /\ (\E d \in Calls : call[d].app = a) => a \in mixed'
<1> DEFINE k == [pc |-> "write", app |-> a, to |-> to, at |-> 0]
<1>1. k \in CallRecord /\ ArguedCall(k) /\ k.app = a /\ k.to = to /\ k.pc = "write"
  BY DEF CallRecord, ArguedCall, StagesSeen
<1>2. call' = [call EXCEPT ![c] = k] /\ (to = "live" => stage[a] = "live")
  BY DEF HandlerStart
<1> HIDE DEF k
<1>3. OnlyCall(c) /\ CallsTyped /\ call'[c] = k
  BY <1>1, <1>2, CallBecomes
<1>4. mixed' = IF \E d \in Calls : call[d].app = a THEN mixed \cup {a} ELSE mixed
  BY DEF HandlerStart
<1>5. QED
  BY <1>1, <1>2, <1>3, <1>4, Types

\* A transition that starts.
LEMMA TransitionStarts ==
  ASSUME WellTyped, NEW c \in Calls, NEW a \in Apps, NEW to \in {"live", "rejected"}, NEW at \in Nat,
         TransitionStart(c, a, to, at)
  PROVE  /\ OnlyCall(c) /\ CallsTyped /\ mixed' \subseteq Apps
         /\ call'[c].app = a /\ call'[c].to = to /\ stage[a] # "hired"
         /\ \/ call'[c].pc = "update" /\ ~(stage[a] = "rejected" /\ to = "live")
            \/ call'[c].pc = "cancel" /\ to = "live"
         /\ mixed \subseteq mixed'
         /\ (\E d \in Calls : call[d].app = a) => a \in mixed'
<1> DEFINE k == [pc |-> IF stage[a] = "rejected" /\ to # "rejected" THEN "cancel" ELSE "update",
                 app |-> a, to |-> to, at |-> at]
<1>1. k \in CallRecord /\ ArguedCall(k) /\ k.app = a /\ k.to = to
  BY DEF CallRecord, ArguedCall, StagesSeen
<1>2. \/ k.pc = "update" /\ ~(stage[a] = "rejected" /\ to = "live")
      \/ k.pc = "cancel" /\ to = "live"
  BY DEF StagesSeen
<1>3. call' = [call EXCEPT ![c] = k] /\ stage[a] # "hired"
  BY DEF TransitionStart
<1> HIDE DEF k
<1>4. OnlyCall(c) /\ CallsTyped /\ call'[c] = k
  BY <1>1, <1>3, CallBecomes
<1>5. mixed' = IF \E d \in Calls : call[d].app = a THEN mixed \cup {a} ELSE mixed
  BY DEF TransitionStart
<1>6. QED
  BY <1>1, <1>2, <1>3, <1>4, <1>5, Types

\* The steps of a request after its start.
LEMMA ContinueTyped ==
  ASSUME WellTyped, NEW c \in Calls, Continue(c)
  PROVE  OnlyCall(c) /\ CallsTyped /\ TablesTyped /\ UNCHANGED <<work, again>>
         /\ \A i \in MailIds : mail'[i].st = "none" => mail[i].st = "none"
<1>t. call[c] \in CallRecord /\ ArguedCall(call[c]) /\ InOrder
  BY Types DEF WellTyped
<1>h. UNCHANGED history => tries' = tries /\ again' = again /\ skipped' = skipped /\ mixed' = mixed
  BY DEF history
<1>1. CASE TransitionCancel(c)
  <2>1. OnlyCall(c) /\ CallsTyped
    BY <1>1, GotoCall DEF TransitionCancel, At
  <2>2. Cancelled(call[c].app)
    BY <1>1 DEF TransitionCancel
  <2>3. QED
    BY <1>1, <1>h, <2>1, <2>2, CancelledTyped, Types DEF TransitionCancel, TablesTyped
<1>2. CASE TransitionUpdate(c) \/ HandlerWrites(c)
  <2>1. OnlyCall(c) /\ CallsTyped
    BY <1>2, GotoCall, ReturnCall DEF TransitionUpdate, HandlerWrites, At
  <2>2. stage' \in [Apps -> StagesSeen]
    BY <1>2, <1>t, Types DEF TransitionUpdate, HandlerWrites, At, ArguedCall, CallRecord
  <2>3. QED
    BY <1>2, <1>t, <1>h, <2>1, <2>2, Types DEF TransitionUpdate, HandlerWrites, TablesTyped, InOrder, queue
<1>3. CASE TailCancel(c)
  <2>1. OnlyCall(c) /\ CallsTyped
    BY <1>3, GotoCall DEF TailCancel, At
  <2>2. Cancelled(call[c].app)
    BY <1>3 DEF TailCancel
  <2>3. QED
    BY <1>3, <1>h, <2>1, <2>2, CancelledTyped, Types DEF TailCancel, TablesTyped
<1>4. CASE TailInsert(c)
  <2>1. OnlyCall(c) /\ CallsTyped
    BY <1>4, ReturnCall DEF TailInsert
  <2>2. CASE UNCHANGED mail
    BY <1>4, <1>t, <1>h, <2>1, <2>2, Types DEF TailInsert, TablesTyped, InOrder
  <2>3. CASE PendingOf(call[c].app) = {}
    <3> DEFINE x == [st |-> "pending", app |-> call[c].app, due |-> call[c].at]
    <3>1. x \in MailRecord /\ x.st = "pending"
      BY <1>t DEF MailRecord, CallRecord
    <3>2. NextMail \in MailIds /\ mail' = [mail EXCEPT ![NextMail] = x]
      BY <1>4, <2>3 DEF TailInsert
    <3> HIDE DEF x
    <3>3. mail' \in [MailIds -> MailRecord] /\ InOrder'
      BY <3>1, <3>2, MailInserted
    <3>4. \A i \in MailIds : mail'[i].st = "none" => mail[i].st = "none"
      BY <3>1, <3>2, Types
    <3>5. QED
      BY <1>4, <1>h, <2>1, <3>3, <3>4, Types DEF TailInsert, TablesTyped
  <2>4. QED
    BY <1>4, <2>2, <2>3 DEF TailInsert
<1>5. QED
  BY <1>1, <1>2, <1>3, <1>4 DEF Continue

\* What a tick does to the tables when it marks.
LEMMA MarkTyped ==
  ASSUME WellTyped, NEW w \in Workers, Mark(w) \/ MarkFailed(w)
  PROVE  /\ mail' \in [MailIds -> MailRecord] /\ review' \in [Reviews -> ReviewRecord] /\ InOrder'
         /\ \A i \in MailIds : \/ mail'[i] = mail[i]
                               \/ i = work[w].x /\ mail'[i].st \in {"sent", "failed"} /\ mail[i].st # "none"
                                  /\ (mail'[i].st = "sent" => work[w].pc = "mark")
         /\ \A f \in Reviews : \/ review'[f] = review[f]
                               \/ f = work[w].x /\ review'[f].reminded = "sent" /\ work[w].pc = "mark"
         /\ work[w].pc = "mark" /\ work[w].x \in MailIds => mail'[work[w].x].st = "sent"
         /\ work[w].pc = "mark" /\ work[w].x \in Reviews => review'[work[w].x].reminded # "no"
         /\ work[w].pc = "fail" => work[w].x \in MailIds /\ mail'[work[w].x].st = "failed"
<1> DEFINE x == work[w].x
<1>t. work[w] \in WorkRecord /\ ArguedWork(work[w]) /\ InOrder
  BY Types DEF WellTyped
<1>p. x \in MailIds \/ x \in Reviews
  BY <1>t DEF Mark, MarkFailed, ArguedWork, Polled
<1>d. x \in Reviews => x \notin MailIds
  BY MailAssumption
<1>1. CASE x \in MailIds
  <2>1. mail[x].st # "none"
    BY <1>1 DEF WellTyped, Listed, Held
  <2>2. PICK st \in {"sent", "failed"} :
          mail' = [mail EXCEPT ![x].st = st] /\ (st = "sent" <=> work[w].pc = "mark")
    BY <1>1 DEF Mark, MarkFailed
  <2>3. UNCHANGED review
    BY <1>1 DEF Mark, MarkFailed
  <2> HIDE DEF x
  <2>4. /\ mail' \in [MailIds -> MailRecord] /\ InOrder'
        /\ mail'[x].st = st
        /\ \A i \in MailIds : i # x => mail'[i] = mail[i]
    BY <1>1, <2>1, <2>2, MailMarked
  <2>5. QED
    BY <1>1, <1>d, <2>1, <2>2, <2>3, <2>4, Types DEF x
<1>2. CASE x \in Reviews
  <2>1. work[w].pc = "mark"
    BY <1>2, <1>d, <1>t DEF Mark, MarkFailed, ArguedWork
  <2>2. review' = [review EXCEPT ![x].reminded = IF @ = "no" THEN "sent" ELSE @] /\ UNCHANGED mail
    BY <1>2, <1>d, <2>1 DEF Mark, MarkFailed
  <2> HIDE DEF x
  <2>3. review[x] \in ReviewRecord
    BY <1>2, Types
  <2>4. /\ review' \in [Reviews -> ReviewRecord]
        /\ \A f \in Reviews : review'[f] = review[f] \/ (f = x /\ review'[f].reminded = "sent")
        /\ review'[x].reminded # "no"
    BY <1>2, <2>2, <2>3, Types DEF ReviewRecord
  <2>5. InOrder'
    BY <1>t, <2>2 DEF InOrder
  <2>6. QED
    BY <1>2, <1>d, <2>1, <2>2, <2>4, <2>5, Types DEF x
<1>3. QED
  BY <1>p, <1>1, <1>2

\* What is due exists.
LEMMA DuePolled == /\ DueMails \subseteq Polled /\ DueReviews \subseteq Polled
                   /\ \A i \in MailIds : i \in DueMails \cup DueReviews => mail[i].st = "pending"
                   /\ \A f \in Reviews : f \in DueMails \cup DueReviews => review[f].reminded = "no"
BY MailAssumption DEF DueMails, DueReviews, Polled

\* Ticks go on holding emails that exist.
LEMMA ListedKept ==
  ASSUME WellTyped, \A i \in MailIds : mail'[i].st = "none" => mail[i].st = "none",
         \A w \in Workers, i \in MailIds : i \in Held(w)' => i \in Held(w) \/ mail[i].st # "none"
  PROVE  Listed'
BY DEF WellTyped, Listed

\* Every step keeps all well formed.
LEMMA StepTyped == WellTyped /\ [Next]_vars => WellTyped'
<1> SUFFICES ASSUME WellTyped, [Next]_vars PROVE WellTyped'
  OBVIOUS
<1>t. InOrder /\ Listed /\ (\A c \in Calls : ArguedCall(call[c])) /\ (\A w \in Workers : ArguedWork(work[w]))
      /\ started \in Nat /\ faults \in Nat
  BY DEF WellTyped, TypeOK
<1>b. started' \in Nat /\ faults' \in Nat
  BY <1>t DEF Next, Tick, bounds, vars
<1>c. UNCHANGED call => CallsTyped
  BY <1>t, Types DEF CallsTyped
<1>w. UNCHANGED work => WorkTyped
  BY <1>t, Types DEF WorkTyped
<1>l. UNCHANGED <<mail, work>> => Listed'
  BY <1>t DEF Listed, Held
<1>o. UNCHANGED mail => InOrder'
  BY <1>t DEF InOrder
<1> USE DEF queue, history
<1>1. CASE Tick
  <2>1. now' \in Nat
    BY <1>1, Types DEF Tick
  <2>2. QED
    BY <1>1, <1>b, <1>c, <1>w, <1>l, <1>o, <2>1, Types, TypesNext DEF Tick, TablesTyped
<1>2. CASE Request
  <2>1. ASSUME NEW c \in Calls, NEW a \in Apps, NEW to \in {"live", "rejected"}, NEW at \in Nat,
               TransitionStart(c, a, to, at)
        PROVE  WellTyped'
    BY <1>b, <1>w, <1>l, <1>o, <2>1, TransitionStarts, Types, TypesNext DEF TransitionStart, TablesTyped
  <2>h. ASSUME NEW c \in Calls, NEW a \in Apps, NEW to \in StagesSeen, HandlerStart(c, a, to)
        PROVE  WellTyped'
    BY <1>b, <1>w, <1>l, <1>o, <2>h, HandlerStarts, Types, TypesNext DEF HandlerStart, TablesTyped
  <2>2. ASSUME NEW f \in Reviews, ReviewCloses(f) \/ RemindByHand(f) PROVE WellTyped'
    <3>1. review' \in [Reviews -> ReviewRecord]
      <4>1. review[f] \in ReviewRecord
        BY Types
      <4>2. /\ [review[f] EXCEPT !.st = "closed"] \in ReviewRecord
            /\ [review[f] EXCEPT !.reminded = "by hand"] \in ReviewRecord
        BY <4>1 DEF ReviewRecord
      <4>3. \/ review' = [review EXCEPT ![f] = [review[f] EXCEPT !.st = "closed"]]
            \/ review' = [review EXCEPT ![f] = [review[f] EXCEPT !.reminded = "by hand"]]
        BY <2>2, Types DEF ReviewCloses, RemindByHand
      <4>4. QED
        BY <4>2, <4>3, Types
    <3>2. QED
      BY <1>b, <1>c, <1>w, <1>l, <1>o, <2>2, <3>1, Types, TypesNext DEF ReviewCloses, RemindByHand, TablesTyped
  <2>3. \A at \in Delays : (IF at = 0 THEN 0 ELSE now + at) \in Nat
    BY MailAssumption, Types
  <2>4. {"live", "rejected", "hired"} = StagesSeen /\ 0 \in Nat
    BY DEF StagesSeen
  <2>5. QED
    BY <1>2, <2>1, <2>h, <2>2, <2>3, <2>4 DEF Request
<1>3. CASE Crash
  <2>1. CallsTyped /\ WorkTyped
    BY <1>3, NoCallArgued, NoWorkArgued DEF Crash, CallsTyped, WorkTyped
  <2>2. again' \subseteq Polled
    BY <1>3, UnmarkedPolled, Types DEF Crash
  <2>3. \A w \in Workers : Held(w)' = {0}
    BY <1>3 DEF Crash, Held, NoWork
  <2>4. Listed'
    BY <1>3, <2>3 DEF Listed, MailIds
  <2>5. QED
    BY <1>3, <1>b, <1>o, <2>1, <2>2, <2>4, Types, TypesNext DEF Crash, TablesTyped
<1>4. ASSUME NEW w \in Workers, SendThrows(w) PROVE WellTyped'
  <2>1. WorkTyped /\ \A v \in Workers : Held(v)' \subseteq Held(v) \cup {0}
    BY <1>4, Throws DEF OnlyWork, Held
  <2>2. Listed'
    BY <1>4, <2>1, ListedKept DEF SendThrows, MailIds
  <2>3. QED
    BY <1>4, <1>b, <1>c, <1>o, <2>1, <2>2, Types, TypesNext DEF SendThrows, TablesTyped
<1>11. ASSUME NEW w \in Workers, MarkThrows(w) \/ FailThrows(w) PROVE WellTyped'
  <2>1. WorkTyped /\ \A v \in Workers : Held(v)' \subseteq Held(v) \cup {0}
    BY <1>11, MarkFails DEF OnlyWork, Held
  <2>2. again' \subseteq Polled
    BY <1>11, MarkFails, UnmarkedPolled, Types
  <2>3. Listed'
    BY <1>11, <2>1, ListedKept DEF MarkThrows, FailThrows, MailIds
  <2>4. QED
    BY <1>11, <1>b, <1>c, <1>o, <2>1, <2>2, <2>3, Types, TypesNext DEF MarkThrows, FailThrows, TablesTyped
<1>12. ASSUME NEW w \in Workers, Skip(w) PROVE WellTyped'
  <2>1. PICK x \in work[w].rows :
           /\ x \in Polled /\ OnlyWork(w) /\ WorkTyped
           /\ work'[w] = [pc |-> "mark", rows |-> work[w].rows \ {x}, x |-> x]
           /\ skipped' = skipped \cup {x}
    BY <1>12, Skips
  <2>2. \A v \in Workers : Held(v)' \subseteq Held(v)
    BY <2>1 DEF OnlyWork, Held
  <2>3. Listed'
    BY <1>12, <2>2, ListedKept DEF Skip
  <2>4. QED
    BY <1>12, <1>b, <1>c, <1>o, <2>1, <2>3, Types, TypesNext DEF Skip, TablesTyped
<1>5. ASSUME NEW c \in Calls, Continue(c) PROVE WellTyped'
  <2>1. OnlyCall(c) /\ CallsTyped /\ TablesTyped /\ UNCHANGED <<work, again>>
        /\ \A i \in MailIds : mail'[i].st = "none" => mail[i].st = "none"
    BY <1>5, ContinueTyped
  <2>2. Listed'
    BY <2>1, ListedKept DEF Held
  <2>3. QED
    BY <1>b, <1>w, <2>1, <2>2, TypesNext
<1>6. ASSUME NEW w \in Workers, NEW due \in {DueMails, DueReviews}, PollStart(w, due) PROVE WellTyped'
  <2>1. PICK rows \in SUBSET due :
           /\ OnlyWork(w) /\ WorkTyped
           /\ work[w].pc = "idle" /\ work'[w] = [pc |-> "send", rows |-> rows, x |-> 0]
           /\ again' = again \cup {x \in rows : \E v \in Workers : x \in Held(v)}
    BY <1>6, PollStarts, DuePolled
  <2>2. again' \subseteq Polled
    BY <1>6, <2>1, DuePolled, Types
  <2>3. \A v \in Workers, i \in MailIds : i \in Held(v)' => i \in Held(v) \/ mail[i].st # "none"
    BY <1>6, <2>1, DuePolled DEF OnlyWork, Held, MailIds
  <2>4. Listed'
    BY <1>6, <2>3, ListedKept DEF PollStart
  <2>5. QED
    BY <1>6, <1>b, <1>c, <1>o, <2>1, <2>2, <2>4, Types, TypesNext DEF PollStart, TablesTyped
<1>7. ASSUME NEW w \in Workers, Send(w) PROVE WellTyped'
  <2>1. PICK x \in work[w].rows :
           /\ x \in Polled /\ work[w].pc = "send"
           /\ OnlyWork(w) /\ WorkTyped
           /\ work'[w] = [pc |-> "mark", rows |-> work[w].rows \ {x}, x |-> x]
           /\ tries' = [tries EXCEPT ![x] = @ + 1]
    BY <1>7, Sends
  <2>2. \A v \in Workers : Held(v)' \subseteq Held(v)
    BY <2>1 DEF OnlyWork, Held
  <2>3. Listed'
    BY <1>7, <2>2, ListedKept DEF Send
  <2>4. tries' \in [Polled -> Nat]
    BY <2>1, Types
  <2>5. QED
    BY <1>7, <1>b, <1>c, <1>o, <2>1, <2>3, <2>4, Types, TypesNext DEF Send, TablesTyped
<1>8. ASSUME NEW w \in Workers, Mark(w) \/ MarkFailed(w) PROVE WellTyped'
  <2>1. WorkTyped /\ \A v \in Workers : Held(v)' \subseteq Held(v) \cup {0}
    BY <1>8, DoneWork DEF Mark, MarkFailed, OnlyWork, Held
  <2>2. /\ mail' \in [MailIds -> MailRecord] /\ review' \in [Reviews -> ReviewRecord] /\ InOrder'
        /\ \A i \in MailIds : mail'[i].st = "none" => mail[i].st = "none"
    BY <1>8, MarkTyped
  <2>3. Listed'
    BY <2>1, <2>2, ListedKept DEF MailIds
  <2>4. QED
    BY <1>8, <1>b, <1>c, <2>1, <2>2, <2>3, Types, TypesNext DEF Mark, MarkFailed, TablesTyped
<1>9. CASE UNCHANGED vars
  BY <1>9, <1>b, <1>c, <1>w, <1>l, <1>o, Types, TypesNext DEF vars, TablesTyped
<1>10. QED
  BY <1>1, <1>2, <1>3, <1>4, <1>5, <1>6, <1>7, <1>8, <1>9, <1>11, <1>12 DEF Next, Fault, Work

LEMMA InitTyped == Init => WellTyped
<1> SUFFICES ASSUME Init PROVE WellTyped
  OBVIOUS
<1>1. NoMail \in MailRecord /\ NoMail.st = "none"
  BY DEF NoMail, MailRecord
<1>2. mail \in [MailIds -> MailRecord] /\ \A i \in MailIds : mail[i].st = "none"
  BY <1>1 DEF Init
<1>3. InOrder
  <2>1. 0 \in 0..MaxMails /\ \A i \in MailIds : ~(i <= 0)
    BY MailAssumption DEF MailIds
  <2>2. QED
    BY <1>2, <2>1 DEF InOrder
<1>4. call \in [Calls -> CallRecord] /\ \A c \in Calls : ArguedCall(call[c])
  BY NoCallArgued DEF Init
<1>5. work \in [Workers -> WorkRecord] /\ \A w \in Workers : ArguedWork(work[w])
  BY NoWorkArgued DEF Init
<1>6. Listed
  BY DEF Init, Listed, Held, NoWork, MailIds
<1>7. review \in [Reviews -> ReviewRecord] /\ stage \in [Apps -> StagesSeen]
  BY DEF Init, ReviewRecord, StagesSeen
<1>8. QED
  BY <1>2, <1>3, <1>4, <1>5, <1>6, <1>7
     DEF Init, WellTyped, TypeOK, MailRecord, ReviewRecord, CallRecord, WorkRecord

\* The queue, the reviews and whatever works on them keep their types, through
\* crashes and overlapping ticks.
THEOREM TypesHold == FairSpec => []TypeOK
<1>1. Spec => []WellTyped
  BY InitTyped, StepTyped, PTL DEF Spec
<1>2. WellTyped => TypeOK
  BY DEF WellTyped
<1>3. QED
  BY <1>1, <1>2, PTL DEF FairSpec

-----------------------------------------------------------------------------
(* No email waits for a candidate in the pipeline.                         *)

\* Two requests for an application are remembered.
Separate == \A c, d \in Calls : c # d /\ call[c].app = call[d].app /\ call[c].app \in Apps => call[c].app \in mixed

\* What is queued is queued for a candidate who is not in the pipeline.
QueuedRight(i) ==
  mail[i].st = "pending" => mail[i].app \in Apps /\ (mail[i].app \notin mixed => stage[mail[i].app] # "live")

\* While no two requests for an application meet, the one in progress is past
\* the UPDATE that rejects it when it queues an email, and has cancelled what
\* was queued, or found it in the pipeline, when it is about to put it there.
Poised(c) ==
  call[c].app \notin mixed =>
    /\ call[c].pc \in {"update", "write"} /\ call[c].to = "live" => \A i \in MailIds : mail[i].st = "pending" => mail[i].app # call[c].app
    /\ call[c].pc \in {"tailCancel", "tailInsert"} => stage[call[c].app] = "rejected"

Queue == Separate /\ (\A i \in MailIds : QueuedRight(i)) /\ (\A c \in Calls : Poised(c))

\* A step that leaves the requests alone and queues nothing.
LEMMA QueueKept ==
  ASSUME Queue, UNCHANGED <<stage, call, mixed>>,
         \A i \in MailIds : mail'[i] = mail[i] \/ mail'[i].st # "pending"
  PROVE  Queue'
<1>1. \A i \in MailIds : QueuedRight(i)'
  BY DEF Queue, QueuedRight
<1>2. \A c \in Calls : Poised(c)'
  BY DEF Queue, Poised
<1>3. Separate'
  BY DEF Queue, Separate
<1>4. QED
  BY <1>1, <1>2, <1>3 DEF Queue

\* A request's step after its start.
LEMMA ContinueQueue ==
  ASSUME WellTyped, Queue, NEW c \in Calls, Continue(c)
  PROVE  Queue'
<1> DEFINE a == call[c].app
<1>t. call[c] \in CallRecord /\ ArguedCall(call[c])
  BY Types DEF WellTyped
<1>a. a \in Apps
  BY <1>t DEF Continue, TransitionCancel, TransitionUpdate, TailCancel, TailInsert, HandlerWrites, At, ArguedCall
<1>o. \A d \in Calls : d # c => call'[d] = call[d]
  BY ContinueTyped DEF OnlyCall
<1>m. mixed' = mixed
  BY DEF Continue, TransitionCancel, TransitionUpdate, TailCancel, TailInsert, HandlerWrites, history
<1>n. \A d \in Calls : d # c /\ call[d].app = a => a \in mixed
  BY <1>a DEF Queue, Separate
<1>f. ASSUME call'[c].app = a \/ call'[c] = NoCall
      PROVE  Separate'
  <2>1. NoCall.app \notin Apps
    BY MailAssumption DEF NoCall
  <2>2. QED
    BY <1>f, <1>o, <1>m, <2>1 DEF Queue, Separate
<1>1. CASE TransitionCancel(c) \/ TailCancel(c)
  <2>1. /\ call'[c].app = a /\ call'[c].to = call[c].to
        /\ \/ call'[c].pc = "update"
           \/ call'[c].pc = "tailInsert" /\ call[c].pc = "tailCancel"
    <3>1. CASE TransitionCancel(c)
      BY <1>t, <3>1, GotoCall DEF TransitionCancel, At, CallRecord
    <3>2. CASE TailCancel(c)
      BY <1>t, <3>2, GotoCall DEF TailCancel, At, CallRecord
    <3>3. QED
      BY <1>1, <3>1, <3>2
  <2>2. Cancelled(a) /\ UNCHANGED stage
    BY <1>1 DEF TransitionCancel, TailCancel
  <2>3. /\ \A i \in MailIds : mail'[i] = mail[i] \/ mail'[i].st = "cancelled"
        /\ \A i \in MailIds : mail'[i].st = "pending" => mail'[i].app # a
    BY <2>2, CancelledTyped
  <2>4. \A i \in MailIds : QueuedRight(i)'
    BY <1>m, <2>2, <2>3 DEF Queue, QueuedRight
  <2>5. \A d \in Calls : Poised(d)'
    BY <1>m, <1>o, <2>1, <2>2, <2>3 DEF Queue, Poised
  <2>6. QED
    BY <1>f, <2>1, <2>4, <2>5 DEF Queue
<1>2. CASE TransitionUpdate(c) \/ HandlerWrites(c)
  <2>1. \/ call'[c] = NoCall
        \/ call'[c].app = a /\ call'[c].pc = "tailCancel" /\ call[c].to = "rejected"
    BY <1>2, <1>t, ReturnCall, GotoCall DEF TransitionUpdate, HandlerWrites, At, CallRecord
  <2>2. /\ call[c].pc \in {"update", "write"} /\ stage' = [stage EXCEPT ![a] = call[c].to] /\ UNCHANGED mail
        /\ stage' \in [Apps -> StagesSeen] /\ stage \in [Apps -> StagesSeen] /\ call[c].to \in StagesSeen
    BY <1>2, <1>t, Types DEF TransitionUpdate, HandlerWrites, At, queue, CallRecord
  <2>3. stage'[a] = call[c].to /\ \A b \in Apps : b # a => stage'[b] = stage[b]
    BY <1>a, <2>2
  <2>4. \A i \in MailIds : QueuedRight(i)'
    BY <1>m, <2>2, <2>3 DEF Queue, QueuedRight, Poised, StagesSeen
  <2>5. \A d \in Calls : Poised(d)'
    <3> SUFFICES ASSUME NEW d \in Calls, (call[d].app \notin mixed)' PROVE Poised(d)'
      BY DEF Poised
    <3>1. CASE d = c
      BY <2>1, <2>3, <3>1 DEF NoCall, Poised
    <3>2. CASE d # c
      <4>1. call'[d] = call[d] /\ call[d].app # a
        BY <1>m, <1>n, <1>o, <3>2
      <4>2. call[d].pc # "idle" => call[d].app \in Apps
        BY DEF WellTyped, ArguedCall
      <4>3. QED
        BY <1>m, <2>2, <2>3, <4>1, <4>2 DEF Queue, Poised
    <3>3. QED
      BY <3>1, <3>2
  <2>6. QED
    BY <1>f, <2>1, <2>4, <2>5 DEF Queue
<1>3. CASE TailInsert(c)
  <2>1. call'[c] = NoCall /\ call[c].pc = "tailInsert" /\ UNCHANGED stage
    BY <1>3, ReturnCall DEF TailInsert, At
  <2>2. \A i \in MailIds : mail'[i] = mail[i] \/ mail'[i].st # "pending" \/ mail'[i].app = a
    BY <1>3, Types DEF TailInsert
  <2>3. \A i \in MailIds : QueuedRight(i)'
    BY <1>a, <1>m, <2>1, <2>2 DEF Queue, QueuedRight, Poised
  <2>4. \A d \in Calls : Poised(d)'
    <3> SUFFICES ASSUME NEW d \in Calls, (call[d].app \notin mixed)' PROVE Poised(d)'
      BY DEF Poised
    <3>1. CASE d = c
      BY <2>1, <3>1 DEF NoCall, Poised
    <3>2. CASE d # c
      <4>1. call'[d] = call[d] /\ call[d].app # a
        BY <1>m, <1>n, <1>o, <3>2
      <4>2. QED
        BY <1>m, <2>1, <2>2, <4>1 DEF Queue, Poised
    <3>3. QED
      BY <3>1, <3>2
  <2>5. QED
    BY <1>f, <2>1, <2>3, <2>4 DEF Queue
<1>4. QED
  BY <1>1, <1>2, <1>3 DEF Continue

LEMMA StepQueue == WellTyped /\ Queue /\ [Next]_vars => Queue'
<1> SUFFICES ASSUME WellTyped, Queue, [Next]_vars PROVE Queue'
  OBVIOUS
<1> USE DEF queue, history
<1>1. ASSUME NEW c \in Calls, NEW a \in Apps, NEW to \in {"live", "rejected"}, NEW at \in Nat,
             TransitionStart(c, a, to, at)
      PROVE  Queue'
  <2>1. /\ \A d \in Calls : d # c => call'[d] = call[d]
        /\ call'[c].app = a /\ call'[c].to = to /\ stage[a] # "hired"
        /\ \/ call'[c].pc = "update" /\ ~(stage[a] = "rejected" /\ to = "live")
           \/ call'[c].pc = "cancel" /\ to = "live"
        /\ mixed \subseteq mixed'
        /\ (\E d \in Calls : call[d].app = a) => a \in mixed'
    BY <1>1, TransitionStarts DEF OnlyCall
  <2>2. UNCHANGED <<mail, stage>>
    BY <1>1 DEF TransitionStart
  <2>3. Separate'
    BY <2>1 DEF Queue, Separate
  <2>4. \A d \in Calls : Poised(d)'
    <3> SUFFICES ASSUME NEW d \in Calls, (call[d].app \notin mixed)' PROVE Poised(d)'
      BY DEF Poised
    <3>1. CASE d = c
      BY <2>1, <2>2, <3>1, Types DEF Queue, QueuedRight, Poised, StagesSeen
    <3>2. CASE d # c
      BY <2>1, <2>2, <3>2 DEF Queue, Poised
    <3>3. QED
      BY <3>1, <3>2
  <2>5. QED
    BY <2>1, <2>2, <2>3, <2>4 DEF Queue, QueuedRight
<1>h. ASSUME NEW c \in Calls, NEW a \in Apps, NEW to \in StagesSeen, HandlerStart(c, a, to)
      PROVE  Queue'
  <2>1. /\ \A d \in Calls : d # c => call'[d] = call[d]
        /\ call'[c].app = a /\ call'[c].to = to /\ call'[c].pc = "write"
        /\ to = "live" => stage[a] = "live"
        /\ mixed \subseteq mixed'
        /\ (\E d \in Calls : call[d].app = a) => a \in mixed'
    BY <1>h, HandlerStarts DEF OnlyCall
  <2>2. UNCHANGED <<mail, stage>>
    BY <1>h DEF HandlerStart
  <2>3. Separate'
    BY <2>1 DEF Queue, Separate
  <2>4. \A d \in Calls : Poised(d)'
    <3> SUFFICES ASSUME NEW d \in Calls, (call[d].app \notin mixed)' PROVE Poised(d)'
      BY DEF Poised
    <3>1. CASE d = c
      BY <2>1, <2>2, <3>1 DEF Queue, QueuedRight, Poised
    <3>2. CASE d # c
      BY <2>1, <2>2, <3>2 DEF Queue, Poised
    <3>3. QED
      BY <3>1, <3>2
  <2>5. QED
    BY <2>1, <2>2, <2>3, <2>4 DEF Queue, QueuedRight
<1>2. ASSUME NEW f \in Reviews, ReviewCloses(f) \/ RemindByHand(f) PROVE Queue'
  BY <1>2, QueueKept DEF ReviewCloses, RemindByHand
<1>3. \A at \in Delays : (IF at = 0 THEN 0 ELSE now + at) \in Nat
  BY MailAssumption, Types
<1>4. {"live", "rejected", "hired"} = StagesSeen /\ 0 \in Nat
  BY DEF StagesSeen
<1>5. CASE Request
  BY <1>1, <1>h, <1>2, <1>3, <1>4, <1>5 DEF Request
<1>6. CASE Crash
  <2>1. \A c \in Calls : call'[c].app = "none" /\ call'[c].pc = "idle"
    BY <1>6 DEF Crash, NoCall
  <2>2. QED
    BY <1>6, <2>1, MailAssumption DEF Crash, Queue, Separate, QueuedRight, Poised
<1>7. ASSUME NEW w \in Workers,
             \/ SendThrows(w) \/ MarkThrows(w) \/ FailThrows(w) \/ Send(w) \/ Skip(w)
             \/ PollStart(w, DueMails) \/ PollStart(w, DueReviews)
      PROVE  Queue'
  BY <1>7, QueueKept DEF SendThrows, MarkThrows, FailThrows, Send, Skip, PollStart
<1>8. ASSUME NEW w \in Workers, Mark(w) \/ MarkFailed(w) PROVE Queue'
  <2>1. \A i \in MailIds : mail'[i] = mail[i] \/ mail'[i].st # "pending"
    BY <1>8, MarkTyped
  <2>2. QED
    BY <1>8, <2>1, QueueKept DEF Mark, MarkFailed
<1>9. CASE Tick \/ UNCHANGED vars
  BY <1>9, QueueKept DEF Tick, vars
<1>10. QED
  BY <1>5, <1>6, <1>7, <1>8, <1>9, ContinueQueue DEF Next, Fault, Work

\* A candidate in the pipeline has no rejection queued, whichever handler put
\* them there, unless two requests for the application overlapped: of a
\* transition, the UPDATE that cancels comes before the one that takes back, and
\* the tail of a rejection after the one that rejects; the other handlers put
\* nobody back who is not in the pipeline already, and hires and rejections of
\* theirs take candidates out of it
\* (RecruitmentService.ts applyApplicationStageTransition, sendInterviewSchedule,
\* createOffer, updateOffer, hireCandidate).
THEOREM QueueFollowsStage == FairSpec => []NoneQueuedInPipeline
<1>1. Init => Queue
  BY MailAssumption DEF Init, Queue, Separate, QueuedRight, Poised, NoMail, NoCall
<1>2. Spec => [](WellTyped /\ Queue)
  BY <1>1, InitTyped, StepTyped, StepQueue, PTL DEF Spec
<1>3. Queue => NoneQueuedInPipeline
  BY DEF Queue, QueuedRight, NoneQueuedInPipeline
<1>4. QED
  BY <1>2, <1>3, PTL DEF FairSpec

-----------------------------------------------------------------------------
(* What is marked as sent was sent or passed over, and sent once.          *)

MarkedSent(x) == IF x \in MailIds THEN mail[x].st = "sent" ELSE review[x].reminded = "sent"

\* What no tick will list any more.
Settled(x) == IF x \in MailIds THEN mail[x].st \notin {"none", "pending"} ELSE review[x].reminded # "no"

\* A tick is about to mark a row as sent, or to mark it at all.
Marks(w, x) == work[w].pc = "mark" /\ work[w].x = x
Ends(w, x) == work[w].pc \in {"mark", "fail"} /\ work[w].x = x

\* Who is about to mark has sent or passed over; but for what is known to be
\* sent twice, one tick holds a row, and has not sent what is left of its list.
InHand ==
  /\ \A w \in Workers : work[w].pc = "mark" => tries[work[w].x] > 0 \/ work[w].x \in skipped
  /\ \A v, w \in Workers, x \in Polled : x \in Held(v) /\ x \in Held(w) /\ x \notin again => v = w
  /\ \A w \in Workers : \A x \in work[w].rows : x \notin again => tries[x] = 0

\* What was sent is settled, or about to be marked.
SentOnce(x) ==
  /\ MarkedSent(x) => tries[x] > 0 \/ x \in skipped
  /\ tries[x] > 1 => x \in again
  /\ tries[x] > 0 /\ x \notin again => Settled(x) \/ \E w \in Workers : Ends(w, x)

Delivery == InHand /\ \A x \in Polled : SentOnce(x)

\* A step outside the ticks that marks nothing as sent and reopens nothing.
LEMMA DeliveryKept ==
  ASSUME Delivery, UNCHANGED <<work, tries, again, skipped>>,
         \A x \in Polled : (MarkedSent(x)' => MarkedSent(x)) /\ (Settled(x) => Settled(x)')
  PROVE  Delivery'
<1>1. InHand'
  BY DEF Delivery, InHand, Held
<1>2. \A x \in Polled : SentOnce(x)'
  BY DEF Delivery, SentOnce, Ends
<1>3. QED
  BY <1>1, <1>2 DEF Delivery, Polled, MailIds

\* A request marks nothing as sent and reopens nothing.
LEMMA ContinueSettles ==
  ASSUME WellTyped, NEW c \in Calls, Continue(c)
  PROVE  \A x \in Polled : (MarkedSent(x)' => MarkedSent(x)) /\ (Settled(x) => Settled(x)')
<1>1. UNCHANGED review
  BY DEF Continue, TransitionCancel, TransitionUpdate, TailCancel, TailInsert, HandlerWrites, queue
<1>2. \A i \in MailIds : mail'[i] = mail[i] \/ (mail[i].st = "pending" /\ mail'[i].st = "cancelled")
                         \/ (mail[i].st = "none" /\ mail'[i].st = "pending")
  <2>1. CASE TransitionCancel(c) \/ TailCancel(c)
    BY <2>1, CancelledTyped DEF TransitionCancel, TailCancel
  <2>2. CASE TransitionUpdate(c) \/ HandlerWrites(c)
    BY <2>2 DEF TransitionUpdate, HandlerWrites, queue
  <2>3. CASE TailInsert(c)
    <3>1. CASE UNCHANGED mail
      BY <3>1
    <3>2. CASE PendingOf(call[c].app) = {}
      <4> DEFINE k == [st |-> "pending", app |-> call[c].app, due |-> call[c].at]
      <4>1. NextMail \in MailIds /\ mail' = [mail EXCEPT ![NextMail] = k] /\ k.st = "pending"
        BY <2>3, <3>2 DEF TailInsert
      <4> HIDE DEF k
      <4>2. QED
        BY <4>1, NextMailFresh, Types
    <3>3. QED
      BY <2>3, <3>1, <3>2 DEF TailInsert
  <2>4. QED
    BY <2>1, <2>2, <2>3 DEF Continue
<1>3. QED
  BY <1>1, <1>2 DEF MarkedSent, Settled

\* A tick that lists what is due.
LEMMA PollDelivers ==
  ASSUME WellTyped, Delivery, NEW w \in Workers, NEW due \in SUBSET Polled, PollStart(w, due),
         \A x \in due : ~Settled(x)
  PROVE  Delivery'
<1>1. PICK rows \in SUBSET due :
        /\ OnlyWork(w)
        /\ work[w].pc = "idle" /\ work'[w] = [pc |-> "send", rows |-> rows, x |-> 0]
        /\ again' = again \cup {x \in rows : \E v \in Workers : x \in Held(v)}
  BY PollStarts
<1>2. UNCHANGED <<mail, review, tries, skipped>> /\ again \subseteq again'
  BY <1>1 DEF PollStart, queue
<1>3. /\ \A v \in Workers : v # w => work'[v] = work[v]
      /\ Held(w)' = rows \cup {0} /\ work'[w].pc = "send" /\ work'[w].rows = rows
      /\ 0 \notin Polled
  BY <1>1, MailAssumption DEF OnlyWork, Held, Polled, MailIds
<1>4. \A v \in Workers : v # w => Held(v)' = Held(v)
  BY <1>3 DEF Held
<1>5. \A x \in rows : x \notin again' => x \notin again /\ \A v \in Workers : x \notin Held(v)
  BY <1>1
<1>6. \A x \in rows : x \notin again' => tries[x] = 0
  <2> SUFFICES ASSUME NEW x \in rows, x \notin again' PROVE tries[x] = 0
    OBVIOUS
  <2>1. \A v \in Workers : ~Ends(v, x)
    BY <1>5 DEF Ends, Held
  <2>2. ~Settled(x) /\ x \in Polled /\ x \notin again
    BY <1>5
  <2>3. ~(tries[x] > 0) /\ tries[x] \in Nat
    BY <2>1, <2>2, Types DEF Delivery, SentOnce
  <2>4. QED
    BY <2>3
<1>7. InHand'
  <2>1. \A v \in Workers : work'[v].pc = "mark" => tries'[work'[v].x] > 0 \/ work'[v].x \in skipped'
    BY <1>2, <1>3 DEF Delivery, InHand
  <2>2. \A v, u \in Workers, x \in Polled : x \in Held(v)' /\ x \in Held(u)' /\ x \notin again' => v = u
    BY <1>2, <1>3, <1>4, <1>5 DEF Delivery, InHand
  <2>3. \A v \in Workers : \A x \in work'[v].rows : x \notin again' => tries'[x] = 0
    BY <1>2, <1>3, <1>6 DEF Delivery, InHand
  <2>4. QED
    BY <2>1, <2>2, <2>3 DEF InHand
<1>8. \A x \in Polled : SentOnce(x)'
  <2> SUFFICES ASSUME NEW x \in Polled PROVE SentOnce(x)'
    OBVIOUS
  <2>1. /\ MarkedSent(x)' = MarkedSent(x)
        /\ Settled(x)' = Settled(x)
    BY <1>2 DEF MarkedSent, Settled
  <2>2. (\E v \in Workers : Ends(v, x)) => \E v \in Workers : Ends(v, x)'
    BY <1>1, <1>3 DEF Ends
  <2>3. SentOnce(x)
    BY DEF Delivery
  <2>4. QED
    BY <1>2, <2>1, <2>2, <2>3 DEF SentOnce
<1>9. QED
  BY <1>7, <1>8 DEF Delivery

\* A tick that sends.
LEMMA SendDelivers ==
  ASSUME WellTyped, Delivery, NEW w \in Workers, Send(w)
  PROVE  Delivery'
<1>1. PICK y \in work[w].rows :
        /\ y \in Polled /\ work[w].pc = "send" /\ OnlyWork(w)
        /\ work'[w] = [pc |-> "mark", rows |-> work[w].rows \ {y}, x |-> y]
        /\ tries' = [tries EXCEPT ![y] = @ + 1]
  BY Sends
<1>2. UNCHANGED <<mail, review, again, skipped>>
  BY DEF Send, queue
<1>3. /\ \A v \in Workers : v # w => work'[v] = work[v]
      /\ work'[w].pc = "mark" /\ work'[w].x = y /\ work'[w].rows = work[w].rows \ {y}
      /\ Held(w)' \subseteq Held(w) /\ y \in Held(w)
  BY <1>1 DEF OnlyWork, Held
<1>4. \A v \in Workers : v # w => Held(v)' = Held(v)
  BY <1>3 DEF Held
<1>5. tries'[y] = tries[y] + 1 /\ tries[y] \in Nat /\ \A x \in Polled : x # y => tries'[x] = tries[x]
  BY <1>1, Types
<1>6. y \notin again => tries[y] = 0
  BY <1>1 DEF Delivery, InHand
<1>7. InHand'
  <2>1. \A v \in Workers : work'[v].pc = "mark" => tries'[work'[v].x] > 0 \/ work'[v].x \in skipped'
    <3> SUFFICES ASSUME NEW v \in Workers, work'[v].pc = "mark"
                 PROVE  tries'[work'[v].x] > 0 \/ work'[v].x \in skipped'
      OBVIOUS
    <3>1. CASE v = w
      BY <1>3, <1>5, <3>1
    <3>2. CASE v # w
      <4>1. work'[v] = work[v] /\ (tries[work[v].x] > 0 \/ work[v].x \in skipped)
        BY <1>3, <3>2 DEF Delivery, InHand
      <4>2. work[v].x \in Polled
        BY <4>1 DEF WellTyped, ArguedWork
      <4>3. QED
        BY <1>2, <1>5, <4>1, <4>2
    <3>3. QED
      BY <3>1, <3>2
  <2>2. \A v, u \in Workers, x \in Polled : x \in Held(v)' /\ x \in Held(u)' /\ x \notin again' => v = u
    BY <1>2, <1>3, <1>4 DEF Delivery, InHand
  <2>3. \A v \in Workers : \A x \in work'[v].rows : x \notin again' => tries'[x] = 0
    <3> SUFFICES ASSUME NEW v \in Workers, NEW x \in work'[v].rows, x \notin again' PROVE tries'[x] = 0
      OBVIOUS
    <3>1. x \in work[v].rows /\ x \in Polled /\ (v = w => x # y)
      BY <1>3, Types DEF WorkRecord
    <3>2. x = y => v = w
      BY <1>2, <1>3, <3>1 DEF Delivery, InHand, Held
    <3>3. tries[x] = 0
      BY <1>2, <3>1 DEF Delivery, InHand
    <3>4. QED
      BY <1>5, <3>1, <3>2, <3>3
  <2>4. QED
    BY <2>1, <2>2, <2>3 DEF InHand
<1>8. \A x \in Polled : SentOnce(x)'
  <2> SUFFICES ASSUME NEW x \in Polled PROVE SentOnce(x)'
    OBVIOUS
  <2>1. MarkedSent(x)' = MarkedSent(x) /\ Settled(x)' = Settled(x)
    BY <1>2 DEF MarkedSent, Settled
  <2>2. SentOnce(x)
    BY DEF Delivery
  <2>3. CASE x = y
    <3>1. Ends(w, x)'
      BY <1>3, <2>3 DEF Ends
    <3>2. tries'[x] > 0 /\ (tries'[x] > 1 => x \in again')
      BY <1>2, <1>5, <1>6, <2>3
    <3>3. QED
      BY <3>1, <3>2 DEF SentOnce
  <2>4. CASE x # y
    <3>1. \A v \in Workers : Ends(v, x) => Ends(v, x)'
      BY <1>1, <1>3 DEF Ends
    <3>2. QED
      BY <1>2, <1>5, <2>1, <2>2, <2>4, <3>1 DEF SentOnce
  <2>5. QED
    BY <2>3, <2>4
<1>9. QED
  BY <1>7, <1>8 DEF Delivery

\* A tick that sends nothing: what it lets go of it has marked, or not sent, or
\* is known to be sent twice.
LEMMA LetGoDelivers ==
  ASSUME WellTyped, Delivery, NEW w \in Workers, UNCHANGED tries,
         OnlyWork(w), again \subseteq again', skipped \subseteq skipped',
         work'[w].pc = "mark" => work'[w].x \in skipped',
         work'[w].rows \subseteq work[w].rows, Held(w)' \subseteq Held(w) \cup {0},
         \A x \in Polled : MarkedSent(x)' => MarkedSent(x) \/ Marks(w, x),
         \A x \in Polled : Settled(x) => Settled(x)',
         \A x \in Polled : Ends(w, x) /\ tries[x] > 0 /\ x \notin again' => Settled(x)' \/ Ends(w, x)'
  PROVE  Delivery'
<1>1. \A v \in Workers : v # w => work'[v] = work[v] /\ Held(v)' = Held(v)
  BY DEF OnlyWork, Held
<1>2. 0 \notin Polled
  BY MailAssumption DEF Polled, MailIds
<1>3. InHand'
  <2>1. \A v \in Workers : work'[v].pc = "mark" => tries'[work'[v].x] > 0 \/ work'[v].x \in skipped'
    BY <1>1 DEF Delivery, InHand
  <2>2. \A v, u \in Workers, x \in Polled : x \in Held(v)' /\ x \in Held(u)' /\ x \notin again' => v = u
    BY <1>1, <1>2 DEF Delivery, InHand
  <2>3. \A v \in Workers : \A x \in work'[v].rows : x \notin again' => tries'[x] = 0
    BY <1>1 DEF Delivery, InHand
  <2>4. QED
    BY <2>1, <2>2, <2>3 DEF InHand
<1>4. \A x \in Polled : SentOnce(x)'
  <2> SUFFICES ASSUME NEW x \in Polled PROVE SentOnce(x)'
    OBVIOUS
  <2>1. SentOnce(x)
    BY DEF Delivery
  <2>2. MarkedSent(x)' => tries'[x] > 0 \/ x \in skipped'
    <3>1. Marks(w, x) => tries[x] > 0 \/ x \in skipped
      BY DEF Delivery, InHand, Marks
    <3>2. QED
      BY <2>1, <3>1 DEF SentOnce
  <2>3. tries'[x] > 1 => x \in again'
    BY <2>1 DEF SentOnce
  <2>4. ASSUME tries'[x] > 0, x \notin again' PROVE Settled(x)' \/ \E v \in Workers : Ends(v, x)'
    <3>1. Settled(x) \/ \E v \in Workers : Ends(v, x)
      BY <2>1, <2>4 DEF SentOnce
    <3>2. \A v \in Workers : v # w /\ Ends(v, x) => Ends(v, x)'
      BY <1>1 DEF Ends
    <3>3. QED
      BY <2>4, <3>1, <3>2
  <2>5. QED
    BY <2>2, <2>3, <2>4 DEF SentOnce
<1>5. QED
  BY <1>3, <1>4 DEF Delivery

\* A tick that passes a row over.
LEMMA SkipDelivers ==
  ASSUME WellTyped, Delivery, NEW w \in Workers, Skip(w)
  PROVE  Delivery'
<1>1. PICK y \in work[w].rows :
        /\ work[w].pc = "send" /\ OnlyWork(w)
        /\ work'[w] = [pc |-> "mark", rows |-> work[w].rows \ {y}, x |-> y]
        /\ skipped' = skipped \cup {y}
  BY Skips
<1>2. UNCHANGED <<mail, review, tries, again>>
  BY DEF Skip, queue
<1>3. Held(w)' \subseteq Held(w) \cup {0}
  BY <1>1 DEF Held
<1>4. \A x \in Polled : MarkedSent(x)' = MarkedSent(x) /\ Settled(x)' = Settled(x) /\ ~Ends(w, x)
  BY <1>1, <1>2 DEF MarkedSent, Settled, Ends
<1>5. work'[w].x \in skipped' /\ work'[w].rows \subseteq work[w].rows /\ skipped \subseteq skipped' /\ again \subseteq again'
  BY <1>1, <1>2
<1>6. QED
  BY <1>1, <1>2, <1>3, <1>4, <1>5, LetGoDelivers

\* A tick whose send throws.
LEMMA ThrowDelivers ==
  ASSUME WellTyped, Delivery, NEW w \in Workers, SendThrows(w)
  PROVE  Delivery'
<1>1. PICK y \in work[w].rows :
        /\ work[w].pc = "send" /\ OnlyWork(w)
        /\ work'[w].rows = work[w].rows \ {y} /\ work'[w].x \in {0, y} /\ work'[w].pc # "mark"
  BY Throws
<1>2. UNCHANGED <<mail, review, tries, again, skipped>>
  BY DEF SendThrows, queue, history
<1>3. Held(w)' \subseteq Held(w) \cup {0}
  BY <1>1 DEF Held
<1>4. \A x \in Polled : MarkedSent(x)' = MarkedSent(x) /\ Settled(x)' = Settled(x) /\ ~Ends(w, x)
  BY <1>1, <1>2 DEF MarkedSent, Settled, Ends
<1>5. QED
  BY <1>1, <1>2, <1>3, <1>4, LetGoDelivers

\* A tick that marks.
LEMMA MarkDelivers ==
  ASSUME WellTyped, Delivery, NEW w \in Workers, Mark(w) \/ MarkFailed(w)
  PROVE  Delivery'
<1>1. /\ OnlyWork(w) /\ work'[w].pc # "mark" /\ work'[w].rows = work[w].rows
      /\ Held(w)' \subseteq Held(w) \cup {0} /\ UNCHANGED <<tries, again, skipped>>
  BY DoneWork DEF Mark, MarkFailed, Held, history
<1>2. \A x \in Polled : MarkedSent(x)' => MarkedSent(x) \/ Marks(w, x)
  BY MarkTyped DEF MarkedSent, Marks, Polled
<1>3. \A x \in Polled : Settled(x) \/ Ends(w, x) => Settled(x)'
  BY MarkTyped DEF Settled, Ends, Polled
<1>4. QED
  BY <1>1, <1>2, <1>3, LetGoDelivers

\* A tick whose mark throws: what it sent it is about to mark as failed, or is
\* sent again.
LEMMA MarkFailsDelivers ==
  ASSUME WellTyped, Delivery, NEW w \in Workers, MarkThrows(w) \/ FailThrows(w)
  PROVE  Delivery'
<1>1. /\ OnlyWork(w) /\ work'[w].rows \subseteq work[w].rows /\ work'[w].x \in {0, work[w].x} /\ work'[w].pc # "mark"
      /\ \/ work'[w].pc = "fail" /\ work'[w].x = work[w].x /\ again' = again
         \/ again' = again \cup Unmarked(w)
  BY MarkFails
<1>2. UNCHANGED <<mail, review, tries, skipped>>
  BY DEF MarkThrows, FailThrows, queue
<1>3. Held(w)' \subseteq Held(w) \cup {0} /\ again \subseteq again'
  BY <1>1 DEF Held
<1>4. \A x \in Polled : MarkedSent(x)' = MarkedSent(x) /\ Settled(x)' = Settled(x)
  BY <1>2 DEF MarkedSent, Settled
<1>5. \A x \in Polled : Ends(w, x) /\ tries[x] > 0 /\ x \notin again' => Ends(w, x)'
  BY <1>1 DEF Ends, Unmarked
<1>6. QED
  BY <1>1, <1>2, <1>3, <1>4, <1>5, LetGoDelivers

\* A crash: what is in between its send and its mark is sent again.
LEMMA CrashDelivers ==
  ASSUME WellTyped, Delivery, Crash
  PROVE  Delivery'
<1>1. /\ UNCHANGED <<mail, review, tries, skipped>>
      /\ \A w \in Workers : work'[w] = NoWork
      /\ again' = again \cup UNION {Unmarked(w) : w \in Workers}
  BY DEF Crash, queue
<1>2. \A x \in Polled : tries[x] > 0 /\ (\E w \in Workers : Ends(w, x)) => x \in again'
  BY <1>1 DEF Ends, Unmarked
<1>3. \A x \in Polled : MarkedSent(x)' = MarkedSent(x) /\ Settled(x)' = Settled(x)
  BY <1>1 DEF MarkedSent, Settled
<1>4. InHand'
  BY <1>1, MailAssumption DEF InHand, Held, NoWork, Polled, MailIds
<1>5. \A x \in Polled : SentOnce(x)'
  BY <1>1, <1>2, <1>3 DEF Delivery, SentOnce
<1>6. QED
  BY <1>4, <1>5 DEF Delivery

LEMMA StepDelivers == WellTyped /\ Delivery /\ [Next]_vars => Delivery'
<1> SUFFICES ASSUME WellTyped, Delivery, [Next]_vars PROVE Delivery'
  OBVIOUS
<1> USE DEF queue, history
<1>1. CASE Request
  <2>1. UNCHANGED <<work, tries, again, skipped>>
    BY <1>1 DEF Request, TransitionStart, HandlerStart, ReviewCloses, RemindByHand
  <2>2. \A x \in Polled : (MarkedSent(x)' => MarkedSent(x)) /\ (Settled(x) => Settled(x)')
    <3>1. CASE UNCHANGED <<mail, review>>
      BY <3>1 DEF MarkedSent, Settled
    <3>2. ASSUME NEW f \in Reviews, ReviewCloses(f) \/ RemindByHand(f)
          PROVE  \A x \in Polled : (MarkedSent(x)' => MarkedSent(x)) /\ (Settled(x) => Settled(x)')
      <4>1. UNCHANGED mail
        BY <3>2 DEF ReviewCloses, RemindByHand
      <4>2. \A g \in Reviews : \/ review'[g].reminded = review[g].reminded
                               \/ review'[g].reminded = "by hand"
        BY <3>2, Types DEF ReviewCloses, RemindByHand, ReviewRecord
      <4>3. QED
        BY <4>1, <4>2 DEF MarkedSent, Settled, Polled
    <3>3. QED
      BY <1>1, <3>1, <3>2 DEF Request, TransitionStart, HandlerStart
  <2>3. QED
    BY <2>1, <2>2, DeliveryKept
<1>2. CASE Crash
  BY <1>2, CrashDelivers
<1>3. ASSUME NEW w \in Workers, Skip(w) \/ SendThrows(w) \/ MarkThrows(w) \/ FailThrows(w) PROVE Delivery'
  BY <1>3, SkipDelivers, ThrowDelivers, MarkFailsDelivers
<1>4. ASSUME NEW c \in Calls, Continue(c) PROVE Delivery'
  <2>1. UNCHANGED <<work, tries, again, skipped>>
    BY <1>4 DEF Continue, TransitionCancel, TransitionUpdate, TailCancel, TailInsert, HandlerWrites
  <2>2. QED
    BY <1>4, <2>1, ContinueSettles, DeliveryKept
<1>5. ASSUME NEW w \in Workers, PollStart(w, DueMails) \/ PollStart(w, DueReviews) PROVE Delivery'
  <2>1. \A x \in DueMails \cup DueReviews : ~Settled(x)
    BY MailAssumption DEF DueMails, DueReviews, Settled
  <2>2. QED
    BY <1>5, <2>1, DuePolled, PollDelivers
<1>6. ASSUME NEW w \in Workers, Work(w) PROVE Delivery'
  BY <1>6, SendDelivers, MarkDelivers DEF Work
<1>7. CASE Tick \/ UNCHANGED vars
  <2>1. UNCHANGED <<mail, review, work, tries, again, skipped>>
    BY <1>7 DEF Tick, vars
  <2>2. QED
    BY <2>1, DeliveryKept DEF MarkedSent, Settled
<1>8. QED
  BY <1>1, <1>2, <1>3, <1>4, <1>5, <1>6, <1>7 DEF Next, Fault

\* What is marked as sent was sent, or passed over as its event was switched off;
\* what was sent twice was listed by two ticks at a time, or sent by a server
\* that died, or whose UPDATEs failed, before it could mark it
\* (scheduledRecruitmentEmailCron.ts, interviewFeedbackReminderCron.ts,
\* emailNotifications.ts notifyEmail).
THEOREM MarkedWasSent == FairSpec => []DeliveredAsMarked
<1>1. Init => Delivery
  <2> SUFFICES ASSUME Init PROVE Delivery
    OBVIOUS
  <2>1. InHand
    BY MailAssumption DEF Init, InHand, Held, NoWork, Polled, MailIds
  <2>2. \A x \in Polled : SentOnce(x)
    <3>1. \A x \in Polled : tries[x] = 0 /\ ~MarkedSent(x)
      BY DEF Init, MarkedSent, NoMail, Polled
    <3>2. QED
      BY <3>1 DEF SentOnce
  <2>3. QED
    BY <2>1, <2>2 DEF Delivery
<1>2. Spec => [](WellTyped /\ Delivery)
  BY <1>1, InitTyped, StepTyped, StepDelivers, PTL DEF Spec
<1>3. Delivery => DeliveredAsMarked
  BY MailAssumption DEF Delivery, SentOnce, MarkedSent, DeliveredAsMarked, Polled
<1>4. QED
  BY <1>2, <1>3, PTL DEF FairSpec

=============================================================================
