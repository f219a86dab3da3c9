----------------------------- MODULE Recruitment -----------------------------
(***************************************************************************)
(* The recruitment pipeline from an application to an employee: the stage  *)
(* of the application, its one offer (approval, sending, the candidate's   *)
(* answer) and the hire, as RecruitmentService's handlers work on them     *)
(* statement by statement.                                                 *)
(*                                                                         *)
(* The stages before verbal acceptance are one, "applied": only their rank *)
(* below "offer" is ever tested.  Dates are Booleans (set or not), and so  *)
(* is the response token.  An identity stands for the employee number and  *)
(* the work email of a new employee, both unique in the table of           *)
(* employees.  Left out: the retired tentative step, interviews and their  *)
(* feedback, stage history, documents, emails and job access.              *)
(***************************************************************************)
EXTENDS Integers, FiniteSets

CONSTANTS
  Applications,
  Identities,   \* identities HR may hire a candidate under
  Tasks,        \* bound: calls in progress at a time
  Endpoints     \* the endpoints the environment calls

None == "none"

ASSUME NoneIsNoId == None \notin Applications \cup Identities

VARIABLES
  app,     \* applications: their stage and the employee they are linked to
  offer,   \* offers, at most one for an application
  emp,     \* employees: the application an identity was hired from
  task     \* the calls in progress

pipelineVars == <<app, offer, emp, task>>

Stages == {"applied", "verbally_accepted", "offer", "hired", "rejected"}
OfferStatuses == {"draft", "sent", "accepted", "rejected", "withdrawn"}
Approvals == {"not_requested", "pending", "approved", "rejected"}

PIPELINE_RANK ==
  [s \in Stages |-> CASE s = "applied" -> 0 [] s = "verbally_accepted" -> 6
                      [] s = "offer" -> 8 [] s = "hired" -> 9 [] s = "rejected" -> -1]

NoOffer == [status |-> None, approval |-> None, sent |-> FALSE, token |-> FALSE]

Labels == {"idle", "moveRead", "moveCheck", "moveUpdate", "restoreCheck",
           "schedule", "moveToOffer", "insertOffer", "updateOffer", "rejectApplication",
           "approve", "requestApproval", "reject", "setToken", "sign", "decline",
           "hireOffer", "hireInsert", "hireMark"}

\* to: the stage or status the call asks for; the other fields hold what was read.
NoTask == [pc |-> "idle", a |-> None, to |-> None, approval |-> None, sent |-> FALSE,
           token |-> FALSE, id |-> None]

TaskRecord ==
  [pc : Labels, a : Applications \cup {None}, to : Stages \cup OfferStatuses \cup {None},
   approval : Approvals \cup {None}, sent : BOOLEAN, token : BOOLEAN, id : Identities \cup {None}]

TaskAt(c, label) == task[c].pc = label
TaskGoto(c, label) == task' = [task EXCEPT ![c].pc = label]
TaskReturn(c) == task' = [task EXCEPT ![c] = NoTask]
Begin(c, rec) == TaskAt(c, "idle") /\ task' = [task EXCEPT ![c] = rec]

InTable(a) == app[a].stage \in Stages
HasOffer(a) == offer[a].status \in OfferStatuses

PipelineInit ==
  /\ app = [a \in Applications |-> [stage |-> "applied", employee |-> None]]
  /\ offer = [a \in Applications |-> NoOffer]
  /\ emp = [i \in Identities |-> None]
  /\ task = [c \in Tasks |-> NoTask]

\* UPDATE applications SET stage ... WHERE id, with no test of the stage it replaces.
SetStage(a, s) == app' = IF InTable(a) THEN [app EXCEPT ![a].stage = s] ELSE app

\* UPDATE offers SET ... WHERE id.
SetOffer(a, new) == offer' = IF HasOffer(a) THEN [offer EXCEPT ![a] = new] ELSE offer

-----------------------------------------------------------------------------
(* The stage: updateApplicationStage, restoreWorkflowStage, sendInterviewSchedule *)

\* An offer that is not withdrawn keeps the application at "offer" or later.
Floor(a) == HasOffer(a) /\ offer[a].status # "withdrawn"

MoveStart(c, a, to) ==
  /\ InTable(a) /\ app[a].stage # "hired"
  /\ Begin(c, [NoTask EXCEPT !.pc = "moveCheck", !.a = a, !.to = to])
  /\ UNCHANGED <<app, offer, emp>>

MoveCheck(c) ==
  /\ TaskAt(c, "moveCheck")
  /\ LET to == task[c].to IN
       IF to # "rejected" /\ Floor(task[c].a) /\ PIPELINE_RANK[to] < PIPELINE_RANK["offer"]
         THEN TaskReturn(c) ELSE TaskGoto(c, "moveUpdate")
  /\ UNCHANGED <<app, offer, emp>>

MoveUpdate(c) ==
  /\ TaskAt(c, "moveUpdate")
  /\ SetStage(task[c].a, task[c].to)
  /\ TaskReturn(c)
  /\ UNCHANGED <<offer, emp>>

RestoreStart(c, a) ==
  /\ InTable(a) /\ app[a].stage # "hired"
  /\ Begin(c, [NoTask EXCEPT !.pc = "restoreCheck", !.a = a, !.to = app[a].stage])
  /\ UNCHANGED <<app, offer, emp>>

\* to still holds the stage that was read.
RestoreCheck(c) ==
  /\ TaskAt(c, "restoreCheck")
  /\ IF Floor(task[c].a) /\ task[c].to # "offer"
       THEN task' = [task EXCEPT ![c].pc = "moveRead", ![c].to = "offer"]
       ELSE TaskReturn(c)
  /\ UNCHANGED <<app, offer, emp>>

\* The transition reads the application again.
MoveRead(c) ==
  /\ TaskAt(c, "moveRead")
  /\ IF InTable(task[c].a) /\ app[task[c].a].stage # "hired" THEN TaskGoto(c, "moveCheck") ELSE TaskReturn(c)
  /\ UNCHANGED <<app, offer, emp>>

\* An interview puts the application back to its interview stages, whatever its floor.
ScheduleStart(c, a) ==
  /\ app[a].stage \in {"applied", "verbally_accepted", "offer"}
  /\ Begin(c, [NoTask EXCEPT !.pc = "schedule", !.a = a, !.to = "applied"])
  /\ UNCHANGED <<app, offer, emp>>

SetApplicationStage(c) ==
  /\ TaskAt(c, "schedule")
  /\ SetStage(task[c].a, task[c].to)
  /\ TaskReturn(c)
  /\ UNCHANGED <<offer, emp>>

\* The offer goes with the application (ON DELETE CASCADE).
DeleteApplication(a) ==
  /\ InTable(a)
  /\ app' = [app EXCEPT ![a].stage = "gone"]
  /\ offer' = [offer EXCEPT ![a] = NoOffer]
  /\ UNCHANGED <<emp, task>>

-----------------------------------------------------------------------------
(* createOffer and updateOffer *)

\* A limited recruiter's offer has yet to be approved, all others are.
CreateOfferStart(c, a, status, approval) ==
  /\ app[a].stage \in {"verbally_accepted", "offer", "hired"}
  /\ Begin(c, [NoTask EXCEPT
       !.pc = IF app[a].stage = "verbally_accepted" THEN "moveToOffer" ELSE "insertOffer",
       !.a = a, !.to = status, !.approval = approval])
  /\ UNCHANGED <<app, offer, emp>>

MoveToOffer(c) ==
  /\ TaskAt(c, "moveToOffer")
  /\ SetStage(task[c].a, "offer")
  /\ IF InTable(task[c].a) THEN TaskGoto(c, "insertOffer") ELSE TaskReturn(c)
  /\ UNCHANGED <<offer, emp>>

\* The unique index refuses a second offer, the foreign key one of a deleted application.
InsertOffer(c) ==
  /\ TaskAt(c, "insertOffer")
  /\ LET a == task[c].a  sent == task[c].to = "sent" IN
       offer' = IF ~InTable(a) \/ HasOffer(a) THEN offer
                ELSE [offer EXCEPT ![a] = [status |-> task[c].to, approval |-> task[c].approval,
                                           sent |-> sent, token |-> sent]]
  /\ TaskReturn(c)
  /\ UNCHANGED <<app, emp>>

\* status is None when the body only edits the terms.
UpdateOfferStart(c, a, status) ==
  /\ HasOffer(a)
  /\ status = "sent" => /\ offer[a].status # "withdrawn"
                        /\ offer[a].approval \notin {"pending", "not_requested"}
  /\ Begin(c, [NoTask EXCEPT !.pc = "updateOffer", !.a = a, !.to = status,
                             !.sent = offer[a].sent, !.token = offer[a].token])
  /\ UNCHANGED <<app, offer, emp>>

\* sent_at and response_token are written as they were read, or set by the first sending.
UpdateOffer(c) ==
  /\ TaskAt(c, "updateOffer")
  /\ LET a == task[c].a  to == task[c].to  first == to = "sent" /\ ~task[c].sent IN
       /\ SetOffer(a, [offer[a] EXCEPT !.status = IF to = None THEN @ ELSE to,
                                       !.sent = task[c].sent \/ first,
                                       !.token = task[c].token \/ first])
       /\ IF to = "rejected" THEN TaskGoto(c, "rejectApplication") ELSE TaskReturn(c)
  /\ UNCHANGED <<app, emp>>

RejectApplication(c) ==
  /\ TaskAt(c, "rejectApplication")
  /\ SetStage(task[c].a, "rejected")
  /\ TaskReturn(c)
  /\ UNCHANGED <<offer, emp>>

-----------------------------------------------------------------------------
(* Approval of the offer *)

ReviewStart(c, a, label) ==
  /\ HasOffer(a)
  /\ CASE label = "approve" -> offer[a].approval = "pending"
       [] label = "requestApproval" -> offer[a].approval = "not_requested"
       [] label = "reject" -> offer[a].approval # "rejected"
  /\ Begin(c, [NoTask EXCEPT !.pc = label, !.a = a])
  /\ UNCHANGED <<app, offer, emp>>

\* Mutant: the UPDATE does not ask whether the approval is still pending.
ApproveUnguarded(c) ==
  /\ TaskAt(c, "approve")
  /\ SetOffer(task[c].a, [offer[task[c].a] EXCEPT !.approval = "approved"])
  /\ TaskReturn(c)
  /\ UNCHANGED <<app, emp>>

\* UPDATE ... WHERE approval_status = 'pending'
ApproveOffer(c) ==
  /\ TaskAt(c, "approve")
  /\ SetOffer(task[c].a, [offer[task[c].a] EXCEPT !.approval = IF @ = "pending" THEN "approved" ELSE @])
  /\ TaskReturn(c)
  /\ UNCHANGED <<app, emp>>

\* Mutant: the UPDATE does not ask whether approval has been requested already.
RequestUnguarded(c) ==
  /\ TaskAt(c, "requestApproval")
  /\ SetOffer(task[c].a, [offer[task[c].a] EXCEPT !.approval = "pending"])
  /\ TaskReturn(c)
  /\ UNCHANGED <<app, emp>>

\* UPDATE ... WHERE approval_status = 'not_requested'
RequestOfferApproval(c) ==
  /\ TaskAt(c, "requestApproval")
  /\ SetOffer(task[c].a, [offer[task[c].a] EXCEPT !.approval = IF @ = "not_requested" THEN "pending" ELSE @])
  /\ TaskReturn(c)
  /\ UNCHANGED <<app, emp>>

\* UPDATE ... WHERE id: an approval in between is overwritten.
RejectOffer(c) ==
  /\ TaskAt(c, "reject")
  /\ SetOffer(task[c].a, [offer[task[c].a] EXCEPT !.approval = "rejected"])
  /\ TaskReturn(c)
  /\ UNCHANGED <<app, emp>>

-----------------------------------------------------------------------------
(* The link for the candidate, and the answer by the link's token *)

\* A link that has its token already is only read.
LinkStart(c, a) ==
  /\ HasOffer(a) /\ ~offer[a].token
  /\ Begin(c, [NoTask EXCEPT !.pc = "setToken", !.a = a])
  /\ UNCHANGED <<app, offer, emp>>

UpdateOfferToken(c) ==
  /\ TaskAt(c, "setToken")
  /\ SetOffer(task[c].a, [offer[task[c].a] EXCEPT !.token = TRUE])
  /\ TaskReturn(c)
  /\ UNCHANGED <<app, emp>>

AnswerStart(c, a, label) ==
  /\ offer[a].token
  /\ offer[a].status = "sent"
  /\ Begin(c, [NoTask EXCEPT !.pc = label, !.a = a])
  /\ UNCHANGED <<app, offer, emp>>

SubmitEsign(c) ==
  /\ TaskAt(c, "sign")
  /\ SetOffer(task[c].a, [offer[task[c].a] EXCEPT !.status = "accepted"])
  /\ TaskReturn(c)
  /\ UNCHANGED <<app, emp>>

\* Mutant: the e-sign status is written to the status column.
DeclineMisspelt(c) ==
  /\ TaskAt(c, "decline")
  /\ SetOffer(task[c].a, [offer[task[c].a] EXCEPT !.status = "declined"])
  /\ TaskReturn(c)
  /\ UNCHANGED <<app, emp>>

DeclineOffer(c) ==
  /\ TaskAt(c, "decline")
  /\ SetOffer(task[c].a, [offer[task[c].a] EXCEPT !.status = "rejected"])
  /\ TaskReturn(c)
  /\ UNCHANGED <<app, emp>>

-----------------------------------------------------------------------------
(* hireCandidate *)

HireStart(c, a, i) ==
  /\ InTable(a) /\ app[a].stage # "hired" /\ app[a].employee = None
  /\ Begin(c, [NoTask EXCEPT !.pc = "hireOffer", !.a = a, !.id = i])
  /\ UNCHANGED <<app, offer, emp>>

HireReadOffer(c) ==
  /\ TaskAt(c, "hireOffer")
  /\ IF HasOffer(task[c].a) /\ offer[task[c].a].approval = "approved"
       THEN TaskGoto(c, "hireInsert") ELSE TaskReturn(c)
  /\ UNCHANGED <<app, offer, emp>>

\* The INSERT fails when the employee number or the work email is taken.
CreateEmployeeFromHire(c) ==
  /\ TaskAt(c, "hireInsert")
  /\ IF emp[task[c].id] = None
       THEN emp' = [emp EXCEPT ![task[c].id] = task[c].a] /\ TaskGoto(c, "hireMark")
       ELSE TaskReturn(c) /\ UNCHANGED emp
  /\ UNCHANGED <<app, offer>>

MarkApplicationHired(c) ==
  /\ TaskAt(c, "hireMark")
  /\ app' = IF InTable(task[c].a)
              THEN [app EXCEPT ![task[c].a] = [stage |-> "hired", employee |-> task[c].id]] ELSE app
  /\ TaskReturn(c)
  /\ UNCHANGED <<offer, emp>>

-----------------------------------------------------------------------------
Start(c) == \E a \in Applications :
  \/ \E to \in {"applied", "verbally_accepted", "rejected"} : "stage" \in Endpoints /\ MoveStart(c, a, to)
  \/ "restore" \in Endpoints /\ RestoreStart(c, a)
  \/ "schedule" \in Endpoints /\ ScheduleStart(c, a)
  \/ \E status \in {"draft", "sent"}, approval \in {"not_requested", "approved"} :
       "createOffer" \in Endpoints /\ CreateOfferStart(c, a, status, approval)
  \/ \E status \in OfferStatuses \cup {None} :
       "updateOffer" \in Endpoints /\ UpdateOfferStart(c, a, status)
  \/ \E label \in {"approve", "requestApproval", "reject"} :
       "review" \in Endpoints /\ ReviewStart(c, a, label)
  \/ "link" \in Endpoints /\ LinkStart(c, a)
  \/ \E label \in {"sign", "decline"} : "answer" \in Endpoints /\ AnswerStart(c, a, label)
  \/ \E i \in Identities : "hire" \in Endpoints /\ HireStart(c, a, i)

PipelineContinue(c) ==
  \/ MoveCheck(c) \/ MoveUpdate(c) \/ RestoreCheck(c) \/ MoveRead(c)
  \/ SetApplicationStage(c) \/ MoveToOffer(c) \/ InsertOffer(c) \/ UpdateOffer(c) \/ RejectApplication(c)
  \/ ApproveOffer(c) \/ RequestOfferApproval(c) \/ RejectOffer(c)
  \/ UpdateOfferToken(c) \/ SubmitEsign(c) \/ DeclineOffer(c)
  \/ HireReadOffer(c) \/ CreateEmployeeFromHire(c) \/ MarkApplicationHired(c)

PipelineNext ==
  \/ \E c \in Tasks : Start(c) \/ PipelineContinue(c)
  \/ \E a \in Applications : "delete" \in Endpoints /\ DeleteApplication(a)

PipelineSpec == PipelineInit /\ [][PipelineNext]_pipelineVars

-----------------------------------------------------------------------------
(* What must hold. *)

Quiet(a) == \A c \in Tasks : TaskAt(c, "idle") \/ task[c].a # a

\* The tables and the calls hold values of their types.
PipelineTypeOK ==
  /\ app \in [Applications -> [stage : Stages \cup {"gone"}, employee : Identities \cup {None}]]
  /\ offer \in [Applications -> [status : OfferStatuses \cup {None}, approval : Approvals \cup {None},
                                 sent : BOOLEAN, token : BOOLEAN]]
  /\ emp \in [Identities -> Applications \cup {None}]
  /\ task \in [Tasks -> TaskRecord]

\* Nobody is employed on an offer that was not approved, and an application
\* that is marked as hired is linked to the employee it produced
\* (RecruitmentService.ts:2675-2704).
HireIsBacked ==
  /\ \A i \in Identities : emp[i] # None =>
       app[emp[i]].stage = "gone" \/ offer[emp[i]].approval \in {"approved", "rejected"}
  /\ \A a \in Applications : app[a].employee # None => emp[app[a].employee] = a
  /\ \A a \in Applications : app[a].stage = "hired" => app[a].employee # None

\* An offer goes from unrequested to pending to approved or rejected, a
\* rejected one is never approved and an approved one never waits again,
\* however reviews race (RecruitmentRepository.ts:1195-1223).
ApprovalOnlyAdvances ==
  [][\A a \in Applications :
       HasOffer(a) /\ HasOffer(a)' /\ offer'[a].approval # offer[a].approval =>
         CASE offer[a].approval = "not_requested" -> offer'[a].approval \in {"pending", "rejected"}
           [] offer[a].approval = "pending" -> offer'[a].approval \in {"approved", "rejected"}
           [] offer[a].approval = "approved" -> offer'[a].approval = "rejected"
           [] OTHER -> FALSE]_pipelineVars
=============================================================================
