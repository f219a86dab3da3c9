----------------------------- MODULE Onboarding -----------------------------
(***************************************************************************)
(* OnboardingService: HR initiates the onboarding of an employee, which    *)
(* inserts a record and the tasks of a template one by one; tasks are      *)
(* ticked, unticked, added and deleted; the record is completed, which     *)
(* makes the employee active, reopened or deleted.  Ticking the work-email *)
(* task sets the employee's address and that of their login, as a direct   *)
(* edit of the profile does (EmployeeService), which may set the           *)
(* employment status too, to any value; and an offboarding may mark the    *)
(* employee as departed meanwhile (Offboarding).  "departed" stands for    *)
(* offboarded and terminated, "onboarding" for every other status but      *)
(* active.                                                                 *)
(*                                                                         *)
(* There is one employee, who has a login: records of two employees touch  *)
(* different rows.  Sections, assignees, emails and the audit are left     *)
(* out, and so are the two other effects of a tick: the nickname, and the  *)
(* laptop, which is LaptopStart of AssetCustody.  Only the details of the  *)
(* special items are kept; they are an address, blank or NULL.             *)
(***************************************************************************)
EXTENDS Integers, FiniteSets

CONSTANTS
  Items,         \* what a checklist may hold; bound: each at most once per record
  Template,      \* the items of the template; HR adds the others by hand
  Required,      \* items with requires_assignment
  WorkEmail,     \* the item whose name makes it the work-email task
  Addresses, Old,  \* email addresses, and the employee's and the login's at first
  OtherWork,     \* addresses of other employees
  OtherLogins,   \* addresses of other logins
  Typed,         \* bound: the addresses typed into the task
  Edited,        \* bound: the addresses and employment statuses an edit sends, as pairs
  MaxRecords,    \* bound: records ever made
  Calls,         \* bound: calls in progress at a time
  MaxStarts,     \* bound: calls ever started
  MaxCrashes     \* bound: crashes of the server

Records == 1..MaxRecords
Null == "null"
Blank == "blank"
Unsent == "unsent"
Employment == {"onboarding", "active", "departed"}

ASSUME OnboardingAssumption ==
  /\ Template \subseteq Items /\ Required \subseteq Items /\ WorkEmail \in Items
  /\ {Old} \cup Typed \subseteq Addresses
  /\ Edited \subseteq (Addresses \cup {Unsent}) \X (Employment \cup {Unsent})
  /\ OtherWork \cup OtherLogins \subseteq Addresses \ {Old}
  /\ {Null, Blank, Unsent} \cap Addresses = {}
  /\ MaxRecords \in Nat /\ MaxStarts \in Nat /\ MaxCrashes \in Nat

VARIABLES
  status,   \* employees.employment_status
  work,     \* employees.work_email
  login,    \* users.email of the employee's login
  rec,      \* onboarding_records.status
  task,     \* onboarding_tasks, by record and item
  call,     \* the calls in progress
  late,     \* history: tasks made or changed after a completion had looked at them
  overlap,  \* history: two initiations were in progress at a time
  left,     \* history: the employee departed,
  exposed,  \* had a record, or an initiation in progress, when they last did,
  rehired,  \* and an edit of HR has set another status since
  alone,    \* history: the calls writing addresses that no other such call overlapped
  split,    \* history: a write of addresses ended early, or overlapped another
  started,  \* calls started, of MaxStarts
  crashes   \* of MaxCrashes

vars == <<status, work, login, rec, task, call, late, overlap, left, exposed, rehired, alone, split, started, crashes>>
person == <<status, work, login>>
bounds == <<started, crashes>>
departure == <<left, exposed, rehired>>
mailing == <<alone, split>>

NoTask == [st |-> "none", details |-> Null]
GoneTask == [NoTask EXCEPT !.st = "gone"]
NoCall == [pc |-> "idle", r |-> 0, k |-> "none", st |-> "none", details |-> Null, todo |-> {},
           mail |-> Unsent, to |-> Unsent]

Init ==
  /\ status = "onboarding" /\ work = Old /\ login = Old
  /\ rec = [r \in Records |-> "none"]
  /\ task = [r \in Records |-> [k \in Items |-> NoTask]]
  /\ call = [c \in Calls |-> NoCall]
  /\ late = {} /\ overlap = FALSE /\ left = FALSE /\ exposed = FALSE /\ rehired = FALSE
  /\ alone = {} /\ split = FALSE
  /\ started = 0 /\ crashes = 0

InTable(r) == rec[r] \in {"in_progress", "completed"}
NextRecord == 1 + Cardinality({r \in Records : rec[r] # "none"})
Exists(r, k) == task[r][k].st \in {"open", "done"}

At(c, label) == call[c].pc = label
Goto(c, label) == call' = [call EXCEPT ![c].pc = label]
Return(c) == call' = [call EXCEPT ![c] = NoCall]
Begin(c, new) == At(c, "idle") /\ call' = [call EXCEPT ![c] = new]

Initiating == {c \in Calls : call[c].pc \in {"findExisting", "createRecord", "insertTasks"}}

\* A completion of the record has looked at its tasks.
Checked(r) ==
  rec[r] = "completed" \/ \E c \in Calls : At(c, "setStatus") /\ call[c].r = r /\ call[c].st = "completed"

\* History: task k of record r is written.
Touch(r, k) == late' = IF Checked(r) THEN late \cup {<<r, k>>} ELSE late

-----------------------------------------------------------------------------
(* createRecord and initiateOnboarding *)

\* getEmployeeStatus: no onboarding of somebody who has departed.
InitiateStart(c, items) ==
  /\ status # "departed"
  /\ Begin(c, [NoCall EXCEPT !.pc = "findExisting", !.todo = items])
  /\ overlap' = (overlap \/ Initiating # {})
  /\ UNCHANGED <<person, rec, task, late, departure, mailing>>

\* Mutant: only an onboarding in progress is in the way of another.
FindExistingActive(c) ==
  /\ At(c, "findExisting")
  /\ IF \E r \in Records : rec[r] = "in_progress" THEN Return(c) ELSE Goto(c, "createRecord")
  /\ UNCHANGED <<person, rec, task, late, overlap, departure, mailing>>

FindExisting(c) ==
  /\ At(c, "findExisting")
  /\ IF \E r \in Records : InTable(r) THEN Return(c) ELSE Goto(c, "createRecord")
  /\ UNCHANGED <<person, rec, task, late, overlap, departure, mailing>>

CreateRecord(c) ==
  /\ At(c, "createRecord")
  /\ NextRecord \in Records
  /\ rec' = [rec EXCEPT ![NextRecord] = "in_progress"]
  /\ call' = [call EXCEPT ![c].r = NextRecord, ![c].pc = "insertTasks"]
  /\ UNCHANGED <<person, task, late, overlap, departure, mailing>>

\* The INSERT of a task; the foreign key refuses one of a deleted record.
InsertTask(r, k) == task' = [task EXCEPT ![r][k] = [st |-> "open", details |-> Null]] /\ Touch(r, k)

InsertTasks(c) ==
  LET r == call[c].r IN
  /\ At(c, "insertTasks")
  /\ \/ /\ \E k \in call[c].todo :
             /\ InTable(r)
             /\ InsertTask(r, k)
             /\ call' = [call EXCEPT ![c].todo = @ \ {k}]
     \/ /\ ~InTable(r) \/ call[c].todo = {}
        /\ Return(c)
        /\ UNCHANGED <<task, late>>
  /\ UNCHANGED <<person, rec, overlap, departure, mailing>>

-----------------------------------------------------------------------------
(* updateRecord, reopenChecklist and deleteRecord *)

\* Mutant: details of the special items are not asked for.
RequiredCompleteUndetailed(r) == \A k \in Required : Exists(r, k) => task[r][k].st = "done"

\* assertRequiredTasksComplete
RequiredComplete(r) ==
  \A k \in Required : Exists(r, k) =>
    task[r][k].st = "done" /\ (k = WorkEmail => task[r][k].details \notin {Null, Blank})

\* A PATCH of the status, to any status it may have.
UpdateStart(c, r, st) ==
  /\ InTable(r)
  /\ st = "completed" => RequiredComplete(r)
  /\ Begin(c, [NoCall EXCEPT !.pc = "setStatus", !.r = r, !.st = st])
  /\ late' = IF st = "completed" THEN {x \in late : x[1] # r} ELSE late
  /\ UNCHANGED <<person, rec, task, overlap, departure, mailing>>

\* Only a completed checklist is reopened.
ReopenStart(c, r) ==
  /\ rec[r] = "completed"
  /\ Begin(c, [NoCall EXCEPT !.pc = "setStatus", !.r = r, !.st = "in_progress"])
  /\ UNCHANGED <<person, rec, task, late, overlap, departure, mailing>>

\* Mutant: a status that the type of the column does not know.
SetStatusMisspelt(c) ==
  /\ At(c, "setStatus")
  /\ rec' = IF InTable(call[c].r) THEN [rec EXCEPT ![call[c].r] = "complete"] ELSE rec
  /\ Return(c)
  /\ UNCHANGED <<person, task, late, overlap, departure, mailing>>

\* UPDATE onboarding_records ... WHERE id.
SetStatus(c) ==
  /\ At(c, "setStatus")
  /\ rec' = IF InTable(call[c].r) THEN [rec EXCEPT ![call[c].r] = call[c].st] ELSE rec
  /\ IF call[c].st = "completed" THEN Goto(c, "activate") ELSE Return(c)
  /\ UNCHANGED <<person, task, late, overlap, departure, mailing>>

\* The employee of the record, if it is still there, becomes active whatever they were.
Activate(c) ==
  /\ At(c, "activate")
  /\ status' = IF InTable(call[c].r) THEN "active" ELSE status
  /\ Return(c)
  /\ UNCHANGED <<work, login, rec, task, late, overlap, departure, mailing>>

NoTasksOf(r) ==
  task' = [task EXCEPT ![r] = [k \in Items |-> IF Exists(r, k) THEN GoneTask ELSE task[r][k]]]

DeleteStart(c, r) ==
  /\ InTable(r)
  /\ NoTasksOf(r)
  /\ Begin(c, [NoCall EXCEPT !.pc = "deleteRecord", !.r = r])
  /\ UNCHANGED <<person, rec, late, overlap, departure, mailing>>

\* DELETE of the record, which cascades to tasks added since.
DeleteRecord(c) ==
  /\ At(c, "deleteRecord")
  /\ rec' = [rec EXCEPT ![call[c].r] = "deleted"]
  /\ NoTasksOf(call[c].r)
  /\ Return(c)
  /\ UNCHANGED <<person, late, overlap, departure, mailing>>

-----------------------------------------------------------------------------
(* addTask, updateTask and deleteTask *)

AddStart(c, r, k) ==
  /\ InTable(r) /\ k \notin Template /\ task[r][k].st = "none"
  /\ Begin(c, [NoCall EXCEPT !.pc = IF rec[r] = "completed" THEN "addReopen" ELSE "addInsert", !.r = r, !.k = k])
  /\ UNCHANGED <<person, rec, task, late, overlap, departure, mailing>>

\* A completed record is reopened first.
AddReopen(c) ==
  /\ At(c, "addReopen")
  /\ rec' = IF InTable(call[c].r) THEN [rec EXCEPT ![call[c].r] = "in_progress"] ELSE rec
  /\ Goto(c, "addInsert")
  /\ UNCHANGED <<person, task, late, overlap, departure, mailing>>

AddInsert(c) ==
  LET r == call[c].r  k == call[c].k IN
  /\ At(c, "addInsert")
  /\ IF InTable(r) /\ task[r][k].st = "none" THEN InsertTask(r, k) ELSE UNCHANGED <<task, late>>
  /\ Return(c)
  /\ UNCHANGED <<person, rec, overlap, departure, mailing>>

\* What is not sent is written back as it was read.
TaskStart(c, r, k, tick, sent) ==
  LET details == IF sent = Unsent THEN task[r][k].details ELSE sent IN
  /\ Exists(r, k)
  /\ ~(tick = "done" /\ k \in Required /\ k = WorkEmail /\ details \in {Null, Blank})
  /\ Begin(c, [NoCall EXCEPT !.pc = "writeTask", !.r = r, !.k = k, !.details = details,
                             !.st = IF tick = Unsent THEN task[r][k].st ELSE tick])
  /\ UNCHANGED <<person, rec, task, late, overlap, departure, mailing>>

MailCalls ==
  {c \in Calls : \/ call[c].pc \in {"setEmail", "syncRead", "syncWrite"}
                 \/ At(c, "editWrite") /\ call[c].mail # Unsent}

\* History: call c begins to write addresses, ends, or fails half-way.
MailBegins(c) == alone' = (IF MailCalls = {} THEN {c} ELSE {}) /\ UNCHANGED split
MailEnds(c) == alone' = alone \ {c} /\ split' = (c \notin alone)
MailUnchanged(c) == alone' = alone \ {c} /\ split' = (split \/ c \notin alone)
MailFails(c) == alone' = alone \ {c} /\ split' = TRUE

\* UPDATE onboarding_tasks; COALESCE keeps the details where there are none to
\* write.  The effects of a tick follow even if the task is gone.
WriteTask(c) ==
  LET r == call[c].r  k == call[c].k  details == call[c].details IN
  /\ At(c, "writeTask")
  /\ IF Exists(r, k)
       THEN /\ task' = [task EXCEPT ![r][k] = [st |-> call[c].st, details |-> IF details = Null THEN @.details ELSE details]]
            /\ Touch(r, k)
       ELSE UNCHANGED <<task, late>>
  /\ IF InTable(r) /\ k = WorkEmail /\ call[c].st = "done" /\ details \in Addresses
       THEN /\ call' = [call EXCEPT ![c] = [NoCall EXCEPT !.pc = "setEmail", !.mail = details]]
            /\ MailBegins(c)
       ELSE Return(c) /\ UNCHANGED mailing
  /\ UNCHANGED <<person, rec, overlap, departure>>

DeleteTask(c, r, k) ==
  /\ At(c, "idle") /\ Exists(r, k)
  /\ task' = [task EXCEPT ![r][k] = GoneTask]
  /\ UNCHANGED <<person, rec, call, late, overlap, departure, mailing>>

-----------------------------------------------------------------------------
(* The address of the employee, and that of their login. *)

\* The unique index of the column refuses the address of another employee.
SetEmail(c) ==
  /\ At(c, "setEmail")
  /\ IF call[c].mail \in OtherWork
       THEN Return(c) /\ MailUnchanged(c) /\ UNCHANGED work
       ELSE work' = call[c].mail /\ Goto(c, "syncRead") /\ UNCHANGED mailing
  /\ UNCHANGED <<status, login, rec, task, late, overlap, departure>>

\* updateEmployee: the row is read, to see what changes ...
EditStart(c, m, st) ==
  /\ m \notin OtherWork
  /\ Begin(c, [NoCall EXCEPT !.pc = "editWrite", !.mail = m, !.to = st,
                             !.st = IF m \in {work, Unsent} THEN "same" ELSE "new"])
  /\ IF m = Unsent THEN UNCHANGED mailing ELSE MailBegins(c)
  /\ UNCHANGED <<person, rec, task, late, overlap, departure>>

\* An employment status is written; history: the employee departs or is taken back.
Departs ==
  /\ left' = TRUE /\ rehired' = FALSE
  /\ exposed' = (Initiating # {} \/ \E r \in Records : InTable(r))

Employ(st) ==
  /\ status' = IF st = Unsent THEN status ELSE st
  /\ CASE st = "departed" -> Departs
       [] st = Unsent -> UNCHANGED departure
       [] OTHER -> rehired' = TRUE /\ UNCHANGED <<left, exposed>>

\* Mutant: a direct edit leaves the login alone.
EditWriteOnly(c) ==
  /\ At(c, "editWrite")
  /\ work' = IF call[c].mail = Unsent THEN work ELSE call[c].mail
  /\ Employ(call[c].to)
  /\ Return(c) /\ IF call[c].mail = Unsent THEN UNCHANGED mailing ELSE MailUnchanged(c)
  /\ UNCHANGED <<login, rec, task, late, overlap>>

\* ... and written, whatever status it has; the login follows if the address
\* changed.
EditWrite(c) ==
  LET m == call[c].mail IN
  /\ At(c, "editWrite")
  /\ work' = IF m = Unsent THEN work ELSE m
  /\ Employ(call[c].to)
  /\ \/ call[c].st = "new" /\ Goto(c, "syncRead") /\ UNCHANGED mailing
     \/ call[c].st = "same" /\ Return(c) /\ IF m = Unsent THEN UNCHANGED mailing ELSE MailUnchanged(c)
  /\ UNCHANGED <<login, rec, task, late, overlap>>

\* syncUserEmailForEmployee finds the login, and whether another has the address.
SyncRead(c) ==
  /\ At(c, "syncRead")
  /\ CASE login = call[c].mail -> Return(c) /\ MailEnds(c)
       [] login # call[c].mail /\ call[c].mail \in OtherLogins -> Return(c) /\ MailFails(c)
       [] OTHER -> Goto(c, "syncWrite") /\ UNCHANGED mailing
  /\ UNCHANGED <<person, rec, task, late, overlap, departure>>

SyncWrite(c) ==
  /\ At(c, "syncWrite")
  /\ login' = call[c].mail
  /\ Return(c) /\ MailEnds(c)
  /\ UNCHANGED <<status, work, rec, task, late, overlap, departure>>

-----------------------------------------------------------------------------
\* An offboarding is completed: offboardEmployee.
Depart ==
  /\ Employ("departed")
  /\ UNCHANGED <<work, login, rec, task, call, late, overlap, mailing>>

\* The server dies: what was in progress is lost.
Crash ==
  /\ \E c \in Calls : ~At(c, "idle")
  /\ call' = [c \in Calls |-> NoCall]
  /\ alone' = {} /\ split' = (split \/ MailCalls # {})
  /\ UNCHANGED <<person, rec, task, late, overlap, departure>>

Sent(k) == IF k = WorkEmail THEN Typed \cup {Blank, Unsent} ELSE {Unsent}

Start(c) ==
  \/ \E items \in {Template, {}} : InitiateStart(c, items)
  \/ \E x \in Edited : EditStart(c, x[1], x[2])
  \/ \E r \in Records :
       \/ \E st \in {"in_progress", "completed"} : UpdateStart(c, r, st)
       \/ ReopenStart(c, r) \/ DeleteStart(c, r)
       \/ \E k \in Items :
            \/ AddStart(c, r, k) \/ DeleteTask(c, r, k)
            \/ \E tick \in {"open", "done", Unsent}, sent \in Sent(k) : TaskStart(c, r, k, tick, sent)

Continue(c) ==
  \/ FindExisting(c) \/ CreateRecord(c) \/ InsertTasks(c)
  \/ SetStatus(c) \/ Activate(c) \/ DeleteRecord(c)
  \/ AddReopen(c) \/ AddInsert(c) \/ WriteTask(c)
  \/ SetEmail(c) \/ EditWrite(c) \/ SyncRead(c) \/ SyncWrite(c)

Next ==
  \/ (Depart \/ \E c \in Calls : Start(c)) /\ started < MaxStarts /\ started' = started + 1 /\ UNCHANGED crashes
  \/ Crash /\ crashes < MaxCrashes /\ crashes' = crashes + 1 /\ UNCHANGED started
  \/ \E c \in Calls : Continue(c) /\ UNCHANGED bounds

Spec == Init /\ [][Next]_vars

-----------------------------------------------------------------------------
(* What must hold. *)

Details == Addresses \cup {Null, Blank}
Labels == {"idle", "findExisting", "createRecord", "insertTasks", "setStatus", "activate", "deleteRecord",
           "addReopen", "addInsert", "writeTask", "setEmail", "editWrite", "syncRead", "syncWrite"}
CallRecord == [pc : Labels, r : Records \cup {0}, k : Items \cup {"none"},
               st : {"none", "in_progress", "completed", "open", "done", "same", "new"},
               details : Details, todo : SUBSET Items,
               mail : Addresses \cup {Unsent}, to : Employment \cup {Unsent}]

TypeOK ==
  /\ status \in Employment
  /\ work \in Addresses /\ login \in Addresses
  /\ rec \in [Records -> {"none", "in_progress", "completed", "deleted"}]
  /\ task \in [Records -> [Items -> [st : {"none", "open", "done", "gone"}, details : Details]]]
  /\ call \in [Calls -> CallRecord]
  /\ late \subseteq Records \X Items
  /\ {overlap, left, exposed, rehired, split} \subseteq BOOLEAN
  /\ alone \subseteq Calls
  /\ started \in Nat /\ crashes \in Nat

\* In a completed onboarding every required task is done and has the details it
\* needs, but for tasks that another call inserted or changed after the
\* completion had looked at them (OnboardingService.ts updateRecord).
CompletedMeansDone ==
  \A r \in Records, k \in Required :
    rec[r] = "completed" /\ Exists(r, k) /\ <<r, k>> \notin late =>
      task[r][k].st = "done" /\ (k = WorkEmail => task[r][k].details \in Addresses)

\* An employee has two onboardings only if two initiations overlapped, and one
\* who has departed is active again only through an onboarding they had when
\* they last did, or once HR has edited their status: no new onboarding brings
\* them back (OnboardingService.ts initiateOnboarding, EmployeeService.ts
\* update).
OnboardedOnce ==
  /\ \A r, q \in Records : InTable(r) /\ InTable(q) /\ r # q => overlap
  /\ left /\ status = "active" => exposed \/ rehired

\* The employee signs in with their work address, whichever way it was set,
\* unless writes of it overlapped, another login has the address or the server
\* died between the two writes (AuthRepository.ts syncUserEmailForEmployee).
LoginFollows == MailCalls = {} /\ ~split => login = work
=============================================================================
