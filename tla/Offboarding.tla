----------------------------- MODULE Offboarding -----------------------------
(***************************************************************************)
(* OffboardingService: HR initiates an offboarding, which draws up a       *)
(* checklist with a return task for each asset the employee holds; tasks   *)
(* are completed or waived; the offboarding is completed, which marks the  *)
(* employee as departed and returns their assets to stock, or cancelled.   *)
(* Composed with AssetCustody, whose calls run beside these and whose      *)
(* release completion and the return tasks share.                          *)
(*                                                                         *)
(* "initiated" and "in_notice" are one status here, "active": every test   *)
(* in the service treats them alike.  The four standard tasks are one.     *)
(* The exit date is ahead or reached.  The exit columns of the employee    *)
(* row, assignees, remarks and emails are left out.                        *)
(***************************************************************************)
EXTENDS AssetCustody

VARIABLES
  departed,  \* employees whose employment_status is offboarded or terminated
  orec,      \* offboarding_records
  tsk        \* offboarding_tasks: by record, 0 for the standard task, else the asset's row

offVars == <<departed, orec, tsk>>
vars == <<avail, asg, late, listed, call, departed, orec, tsk>>

Standard == 0
Tasks == {Standard} \cup Rows
RecordStatuses == {"none", "active", "completed", "cancelled", "deleted"}
TaskStatuses == {"none", "pending", "completed", "waived"}
Closed == {"completed", "cancelled"}
NoRecord == [st |-> "none", e |-> Nobody, ahead |-> FALSE]
NoTasks == [t \in Tasks |-> "none"]

Labels == {"idle", "checkActive", "createRecord", "standardTask", "readAssets", "assetTask",
           "readTasks", "completeRecord", "offboardEmployee", "auditComplete", "cancelRecord",
           "setExitDate", "setTask", "deleteTasks", "deleteRecord"} \cup AssetLabels

CallRecord ==
  [pc : Labels, e : Employees \cup {Nobody}, s : StockItems \cup {NoItem}, tag : 0..(MaxRows + 1),
   todo : SUBSET Rows, i : 0..MaxRows, r : 0..MaxRecords,
   st : TaskStatuses \cup {"ahead", "reached"}, then : {"return", "linked"}]

InTable(r) == orec[r].st \in {"active"} \cup Closed
Offboardings(e) == {r \in Records : orec[r].st = "active" /\ orec[r].e = e}
NextRecord == 1 + Cardinality({r \in Records : orec[r].st # "none"})

Init ==
  /\ AssetInit
  /\ departed = {}
  /\ orec = [r \in Records |-> NoRecord]
  /\ tsk = [r \in Records |-> NoTasks]

\* UPDATE offboarding_records SET status ... WHERE id, and nothing else.
SetStatus(r, st) == orec' = IF InTable(r) THEN [orec EXCEPT ![r].st = st] ELSE orec

-----------------------------------------------------------------------------
(* initiate *)

InitiateStart(c, e) ==
  /\ e \notin departed
  /\ Begin(c, [NoCall EXCEPT !.pc = "checkActive", !.e = e])
  /\ UNCHANGED <<assetVars, offVars>>

\* getActiveOffboarding: a second offboarding is refused.
CheckActive(c) ==
  /\ At(c, "checkActive")
  /\ IF Offboardings(call[c].e) = {} THEN Goto(c, "createRecord") ELSE Return(c)
  /\ UNCHANGED <<assetVars, offVars>>

CreateRecord(c) ==
  /\ At(c, "createRecord")
  /\ NextRecord \in Records
  /\ \E ahead \in BOOLEAN :
       orec' = [orec EXCEPT ![NextRecord] = [st |-> "active", e |-> call[c].e, ahead |-> ahead]]
  /\ call' = [call EXCEPT ![c].r = NextRecord, ![c].pc = "standardTask"]
  /\ UNCHANGED <<assetVars, departed, tsk>>

\* The INSERTs of generateDefaultTasks; the foreign key refuses a task of a deleted record.
InsertTask(c, t, label) ==
  LET r == call[c].r IN
  IF InTable(r)
    THEN /\ tsk' = [tsk EXCEPT ![r][t] = "pending"]
         /\ call' = [call EXCEPT ![c].pc = label, ![c].todo = @ \ {t}]
    ELSE Return(c) /\ UNCHANGED tsk

InsertStandardTask(c) ==
  /\ At(c, "standardTask")
  /\ InsertTask(c, Standard, "readAssets")
  /\ UNCHANGED <<assetVars, departed, orec>>

ReadAssets(c) ==
  /\ At(c, "readAssets")
  /\ call' = [call EXCEPT ![c].todo = HeldBy(call[c].e), ![c].pc = "assetTask"]
  /\ UNCHANGED <<assetVars, offVars>>

InsertAssetTask(c) ==
  /\ At(c, "assetTask")
  /\ \/ \E i \in call[c].todo : InsertTask(c, i, "assetTask")
     \/ call[c].todo = {} /\ Return(c) /\ UNCHANGED tsk
  /\ UNCHANGED <<assetVars, departed, orec>>

-----------------------------------------------------------------------------
(* complete *)

CompleteStart(c, r) ==
  /\ orec[r].st = "active"
  /\ Begin(c, [NoCall EXCEPT !.pc = IF orec[r].ahead THEN "readTasks" ELSE "completeRecord",
                             !.r = r, !.e = orec[r].e])
  /\ UNCHANGED <<assetVars, offVars>>

\* Before the exit date every task there is must be completed or waived.
ReadTasks(c) ==
  /\ At(c, "readTasks")
  /\ IF \A t \in Tasks : tsk[call[c].r][t] # "pending" THEN Goto(c, "completeRecord") ELSE Return(c)
  /\ UNCHANGED <<assetVars, offVars>>

CompleteRecord(c) ==
  /\ At(c, "completeRecord")
  /\ SetStatus(call[c].r, "completed")
  /\ Goto(c, "offboardEmployee")
  /\ UNCHANGED <<assetVars, departed, tsk>>

OffboardEmployee(c) ==
  /\ At(c, "offboardEmployee")
  /\ departed' = departed \cup {call[c].e}
  /\ Goto(c, "auditComplete")
  /\ UNCHANGED <<assetVars, orec, tsk>>

\* Mutant: only the assets of the return tasks are released.
ReleaseLinkedOnly(c) ==
  /\ At(c, "auditComplete")
  /\ IF InTable(call[c].r)
       THEN call' = [call EXCEPT ![c].pc = "returnSelect", ![c].todo = {}, ![c].then = "linked"]
       ELSE Return(c)
  /\ UNCHANGED <<assetVars, offVars>>

\* The audit row refers to the record: its INSERT fails, and the handler
\* with it, when the record has been deleted.  Otherwise the release begins.
AuditComplete(c) ==
  /\ At(c, "auditComplete")
  /\ IF InTable(call[c].r)
       THEN call' = [call EXCEPT ![c].pc = "listByUser", ![c].then = "linked"]
       ELSE Return(c)
  /\ UNCHANGED <<assetVars, offVars>>

\* The assets of the return tasks, once those of the employee are returned.
ListLinked(c) ==
  /\ At(c, "returnSelect")
  /\ call[c].todo = {}
  /\ call[c].then = "linked"
  /\ call' = [call EXCEPT ![c].todo = {i \in Live : tsk[call[c].r][i] # "none"},
                          ![c].then = "return"]
  /\ UNCHANGED <<assetVars, offVars>>

-----------------------------------------------------------------------------
(* cancel, updateExitDate and delete *)

CancelStart(c, r) ==
  /\ orec[r].st = "active"
  /\ Begin(c, [NoCall EXCEPT !.pc = "cancelRecord", !.r = r, !.e = orec[r].e])
  /\ UNCHANGED <<assetVars, offVars>>

CancelRecord(c) ==
  /\ At(c, "cancelRecord")
  /\ SetStatus(call[c].r, "cancelled")
  /\ Return(c)
  /\ UNCHANGED <<assetVars, departed, tsk>>

ExitDateStart(c, r, st) ==
  /\ orec[r].st = "active"
  /\ Begin(c, [NoCall EXCEPT !.pc = "setExitDate", !.r = r, !.st = st])
  /\ UNCHANGED <<assetVars, offVars>>

\* Mutant: changing the date puts the record back in notice.
SetExitDateReopens(c) ==
  /\ At(c, "setExitDate")
  /\ orec' = IF InTable(call[c].r)
               THEN [orec EXCEPT ![call[c].r].ahead = call[c].st = "ahead", ![call[c].r].st = "active"]
               ELSE orec
  /\ Return(c)
  /\ UNCHANGED <<assetVars, departed, tsk>>

SetExitDate(c) ==
  /\ At(c, "setExitDate")
  /\ orec' = IF InTable(call[c].r) THEN [orec EXCEPT ![call[c].r].ahead = call[c].st = "ahead"] ELSE orec
  /\ Return(c)
  /\ UNCHANGED <<assetVars, departed, tsk>>

DeleteStart(c, r) ==
  /\ orec[r].st \in Closed
  /\ Begin(c, [NoCall EXCEPT !.pc = "deleteTasks", !.r = r])
  /\ UNCHANGED <<assetVars, offVars>>

DeleteTasks(c) ==
  /\ At(c, "deleteTasks")
  /\ tsk' = [tsk EXCEPT ![call[c].r] = NoTasks]
  /\ Goto(c, "deleteRecord")
  /\ UNCHANGED <<assetVars, departed, orec>>

\* DELETE FROM offboarding_records; tasks inserted meanwhile go with it.
DeleteRecord(c) ==
  /\ At(c, "deleteRecord")
  /\ SetStatus(call[c].r, "deleted")
  /\ tsk' = [tsk EXCEPT ![call[c].r] = NoTasks]
  /\ Return(c)
  /\ UNCHANGED <<assetVars, departed>>

\* The day of the exit date comes.
DayPasses(r) ==
  /\ InTable(r) /\ orec[r].ahead
  /\ orec' = [orec EXCEPT ![r].ahead = FALSE]
  /\ UNCHANGED <<assetVars, call, departed, tsk>>

-----------------------------------------------------------------------------
(* updateTask *)

TaskStart(c, r, t, st) ==
  /\ tsk[r][t] # "none"
  /\ Begin(c, [NoCall EXCEPT !.pc = "setTask", !.r = r, !.i = t, !.st = st])
  /\ UNCHANGED <<assetVars, offVars>>

UpdateTask(c) == 
  tsk' = IF tsk[call[c].r][call[c].i] = "none" THEN tsk
         ELSE [tsk EXCEPT ![call[c].r][call[c].i] = call[c].st]

\* Mutant: the tasks of a closed record no longer release anything.
SetTaskOfActive(c) ==
  /\ At(c, "setTask")
  /\ UpdateTask(c)
  /\ IF call[c].st = "completed" /\ call[c].i \in Rows /\ orec[call[c].r].st = "active"
       THEN call' = [call EXCEPT ![c].todo = {call[c].i}, ![c].pc = "returnSelect"]
       ELSE Return(c)
  /\ UNCHANGED <<assetVars, departed, orec>>

\* The UPDATE, and for a completed return task the release of its asset.
SetTask(c) ==
  /\ At(c, "setTask")
  /\ UpdateTask(c)
  /\ IF call[c].st = "completed" /\ call[c].i \in Rows
       THEN call' = [call EXCEPT ![c].todo = {call[c].i}, ![c].pc = "returnSelect"]
       ELSE Return(c)
  /\ UNCHANGED <<assetVars, departed, orec>>

-----------------------------------------------------------------------------
Initiate(c) ==
  CheckActive(c) \/ CreateRecord(c) \/ InsertStandardTask(c) \/ ReadAssets(c) \/ InsertAssetTask(c)

Complete(c) ==
  ReadTasks(c) \/ CompleteRecord(c) \/ OffboardEmployee(c) \/ AuditComplete(c) \/ ListLinked(c)

StartOffboarding(c) ==
  \/ \E e \in Employees : "initiate" \in Endpoints /\ InitiateStart(c, e)
  \/ \E r \in Records :
       \/ "complete" \in Endpoints /\ CompleteStart(c, r)
       \/ "cancel" \in Endpoints /\ CancelStart(c, r)
       \/ "delete" \in Endpoints /\ DeleteStart(c, r)
       \/ \E st \in {"ahead", "reached"} : "exitDate" \in Endpoints /\ ExitDateStart(c, r, st)
       \/ \E t \in Tasks, st \in TaskStatuses \ {"none"} :
            "task" \in Endpoints /\ TaskStart(c, r, t, st)

OffboardingStep(c) ==
  \/ StartOffboarding(c) \/ Initiate(c) \/ Complete(c) \/ SetTask(c)
  \/ CancelRecord(c) \/ SetExitDate(c) \/ DeleteTasks(c) \/ DeleteRecord(c)

Next ==
  \/ \E c \in Calls : AssetStep(c) /\ UNCHANGED offVars
  \/ \E c \in Calls : OffboardingStep(c)
  \/ \E r \in Records : DayPasses(r)

Spec == Init /\ [][Next]_vars

-----------------------------------------------------------------------------
(* What must hold. *)

QuietRecord(r) == \A c \in Calls : At(c, "idle") \/ call[c].r # r

\* The tables and the calls in progress hold values of their types.
TypeOK ==
  /\ AssetTypes
  /\ call \in [Calls -> CallRecord]
  /\ departed \subseteq Employees
  /\ orec \in [Records -> [st : RecordStatuses, e : Employees \cup {Nobody}, ahead : BOOLEAN]]
  /\ tsk \in [Records -> [Tasks -> TaskStatuses]]

\* Once a completion has ended, the employee keeps no asset they held when
\* it collected them: whatever is left was handed to them afterwards
\* (OffboardingService.ts:159-167, offboardingHooks.ts:7-32).
CompletedHoldNothing ==
  \A r \in Records : orec[r].st = "completed" /\ QuietRecord(r) => HeldBy(orec[r].e) \subseteq late

\* A return task that says completed is about an asset that is back, even
\* when completion, deletion or another return of it ran at the same time
\* (OffboardingService.ts:237-240).
TaskDoneMeansReturned ==
  \A r \in Records, i \in Rows : tsk[r][i] = "completed" /\ QuietRecord(r) => i \notin Live

\* An offboarding that was completed or cancelled never becomes active
\* again, and none that is active is ever deleted, although every UPDATE
\* acts on a status read earlier (OffboardingService.ts:169-177, 279-286).
ClosedStaysClosed ==
  [][\A r \in Records :
       /\ orec[r].st \in Closed => orec'[r].st \in Closed \cup {"deleted"}
       /\ orec'[r].st = "deleted" => orec[r].st \in Closed \cup {"deleted"}]_vars
=============================================================================
