-------------------------- MODULE OnboardingProofs --------------------------
(* Theorems about Onboarding, for every set of items, addresses and calls, *)
(* and any number of records, calls and crashes.                           *)
EXTENDS Onboarding, TLAPS

\* What the record of a call holds at each of its statements.
Argued(x) ==
  /\ x.pc \in {"insertTasks", "setStatus", "activate", "deleteRecord", "addReopen", "addInsert", "writeTask"} =>
       x.r \in Records
  /\ x.pc \in {"addReopen", "addInsert", "writeTask"} => x.k \in Items
  /\ x.pc = "setStatus" => x.st \in {"in_progress", "completed"}
  /\ x.pc = "writeTask" => x.st \in {"open", "done"}
  /\ x.pc = "editWrite" => x.st \in {"same", "new"} /\ (x.st = "new" => x.mail \in Addresses)
  /\ x.pc \in {"setEmail", "syncRead", "syncWrite"} => x.mail \in Addresses

WellTyped == TypeOK /\ \A c \in Calls : Argued(call[c])

TaskRecord == [st : {"none", "open", "done", "gone"}, details : Details]

\* The only call that changes is c, and it is well formed afterwards.
OnlyCall(c) ==
  /\ call' \in [Calls -> CallRecord]
  /\ \A d \in Calls : d # c => call'[d] = call[d]
  /\ Argued(call'[c])

-----------------------------------------------------------------------------
(* The calls and the types.                                                *)

\* A call that is over is well formed.
LEMMA NoCallArgued == NoCall \in CallRecord /\ Argued(NoCall) /\ NoCall.pc = "idle"
BY OnboardingAssumption DEF NoCall, CallRecord, Argued, Labels, Details, Unsent

\* A call that starts is the record it starts with.
LEMMA BeginCall ==
  ASSUME WellTyped, NEW c \in Calls, NEW x \in CallRecord, Argued(x), Begin(c, x)
  PROVE  OnlyCall(c) /\ call'[c] = x
BY DEF WellTyped, TypeOK, Begin, OnlyCall

\* A call that ends.
LEMMA ReturnCall ==
  ASSUME WellTyped, NEW c \in Calls, Return(c)
  PROVE  OnlyCall(c) /\ call'[c] = NoCall
BY NoCallArgued DEF WellTyped, TypeOK, Return, OnlyCall

\* A call that goes to a statement needing no more than it holds.
LEMMA GotoCall ==
  ASSUME WellTyped, NEW c \in Calls, NEW l \in Labels, Goto(c, l), Argued([call[c] EXCEPT !.pc = l])
  PROVE  OnlyCall(c) /\ call'[c] = [call[c] EXCEPT !.pc = l]
<1>1. [call[c] EXCEPT !.pc = l] \in CallRecord
  BY DEF WellTyped, TypeOK, CallRecord
<1>2. call' = [call EXCEPT ![c] = [call[c] EXCEPT !.pc = l]]
  BY DEF WellTyped, TypeOK, Goto
<1>3. QED
  BY <1>1, <1>2 DEF WellTyped, TypeOK, OnlyCall

\* The tables and histories keep their types.
TablesTyped ==
  /\ status' \in Employment
  /\ work' \in Addresses /\ login' \in Addresses
  /\ rec' \in [Records -> {"none", "in_progress", "completed", "deleted"}]
  /\ task' \in [Records -> [Items -> TaskRecord]]
  /\ late' \subseteq Records \X Items
  /\ overlap' \in BOOLEAN /\ left' \in BOOLEAN /\ exposed' \in BOOLEAN /\ rehired' \in BOOLEAN /\ split' \in BOOLEAN
  /\ alone' \subseteq Calls

\* A step of one call that keeps the types of the tables.
LEMMA StepTyped ==
  ASSUME WellTyped, NEW c \in Calls, OnlyCall(c), TablesTyped, started' \in Nat, crashes' \in Nat
  PROVE  WellTyped'
<1>1. TypeOK'
  BY DEF TypeOK, OnlyCall, TablesTyped, TaskRecord
<1>2. \A d \in Calls : Argued(call'[d])
  BY DEF OnlyCall, WellTyped
<1>3. QED
  BY <1>1, <1>2 DEF WellTyped, Argued

\* A task that is written keeps its type.
LEMMA WriteTyped ==
  ASSUME WellTyped, NEW r \in Records, NEW k \in Items, NEW x \in TaskRecord, task' = [task EXCEPT ![r][k] = x]
  PROVE  /\ task' \in [Records -> [Items -> TaskRecord]]
         /\ task'[r][k] = x
         /\ \A q \in Records, i \in Items : q # r \/ i # k => task'[q][i] = task[q][i]
BY DEF WellTyped, TypeOK, TaskRecord

\* So do the tasks of a record that are deleted.
LEMMA NoTasksTyped ==
  ASSUME WellTyped, NEW r \in Records, NoTasksOf(r)
  PROVE  /\ task' \in [Records -> [Items -> TaskRecord]]
         /\ \A q \in Records \ {r} : task'[q] = task[q]
         /\ \A k \in Items : task'[r][k].st \notin {"open", "done"}
<1>1. GoneTask \in TaskRecord /\ GoneTask.st = "gone"
  BY DEF GoneTask, NoTask, TaskRecord, Details
<1>2. [k \in Items |-> IF Exists(r, k) THEN GoneTask ELSE task[r][k]] \in [Items -> TaskRecord]
  BY <1>1 DEF WellTyped, TypeOK, TaskRecord
<1>3. QED
  BY <1>1, <1>2 DEF WellTyped, TypeOK, NoTasksOf, TaskRecord, Exists

\* So does the note that it was written.
LEMMA TouchTyped ==
  ASSUME WellTyped, NEW r \in Records, NEW k \in Items, Touch(r, k)
  PROVE  late' \subseteq Records \X Items /\ late \subseteq late' /\ (Checked(r) => <<r, k>> \in late')
BY DEF WellTyped, TypeOK, Touch

\* And the notes on the writing of addresses.
LEMMA MailTyped ==
  ASSUME WellTyped, NEW c \in Calls,
         MailBegins(c) \/ MailEnds(c) \/ MailUnchanged(c) \/ MailFails(c) \/ UNCHANGED mailing
  PROVE  alone' \subseteq Calls /\ split' \in BOOLEAN
<1>1. (c \notin alone) \in BOOLEAN /\ (split \/ c \notin alone) \in BOOLEAN
  OBVIOUS
<1>2. QED
  BY <1>1 DEF WellTyped, TypeOK, MailBegins, MailEnds, MailUnchanged, MailFails, mailing

\* So do the employment status and what is noted of it.
LEMMA EmployTyped ==
  ASSUME WellTyped, NEW st \in Employment \cup {Unsent}, Employ(st)
  PROVE  status' \in Employment /\ left' \in BOOLEAN /\ exposed' \in BOOLEAN /\ rehired' \in BOOLEAN
<1>1. status \in Employment /\ left \in BOOLEAN /\ exposed \in BOOLEAN /\ rehired \in BOOLEAN
  BY DEF WellTyped, TypeOK
<1>2. status' \in Employment
  BY <1>1 DEF Employ
<1>3. CASE st = "departed"
  <2>1. (Initiating # {} \/ \E r \in Records : InTable(r)) \in BOOLEAN
    OBVIOUS
  <2>2. Departs
    BY <1>3 DEF Employ, Unsent
  <2>3. QED
    BY <1>2, <2>1, <2>2 DEF Departs
<1>4. CASE st = Unsent
  BY <1>1, <1>2, <1>4 DEF Employ, departure, Unsent
<1>5. CASE st # "departed" /\ st # Unsent
  BY <1>1, <1>2, <1>5 DEF Employ
<1>6. QED
  BY <1>3, <1>4, <1>5

\* The counters are natural numbers.
LEMMA CountersTyped ==
  ASSUME WellTyped, UNCHANGED bounds \/ (started' = started + 1 /\ UNCHANGED crashes) \/ (crashes' = crashes + 1 /\ UNCHANGED started)
  PROVE  started' \in Nat /\ crashes' \in Nat
BY DEF WellTyped, TypeOK, bounds

\* Everything is well formed at first.
LEMMA InitTyped == Init => WellTyped
<1> SUFFICES ASSUME Init PROVE WellTyped
  OBVIOUS
<1>1. NoTask \in TaskRecord
  BY DEF NoTask, TaskRecord, Details
<1>2. rec \in [Records -> {"none", "in_progress", "completed", "deleted"}]
  BY DEF Init
<1>3. task \in [Records -> [Items -> TaskRecord]]
  BY <1>1 DEF Init
<1>4. call \in [Calls -> CallRecord] /\ \A c \in Calls : Argued(call[c])
  BY NoCallArgued DEF Init
<1>5. work \in Addresses /\ login \in Addresses
  BY OnboardingAssumption DEF Init
<1>6. QED
  BY <1>2, <1>3, <1>4, <1>5 DEF Init, WellTyped, TypeOK, TaskRecord, Employment

\* A call that starts.
LEMMA StartTyped ==
  ASSUME WellTyped, NEW c \in Calls, Start(c)
  PROVE  OnlyCall(c) /\ TablesTyped
<1> USE DEF person, departure, mailing
<1>0. UNCHANGED <<person, rec, task, overlap, departure, mailing, late>> => TablesTyped
  BY DEF WellTyped, TypeOK, TablesTyped, TaskRecord
<1>1. ASSUME NEW items \in {Template, {}}, InitiateStart(c, items)
      PROVE  OnlyCall(c) /\ TablesTyped
  <2> DEFINE x == [NoCall EXCEPT !.pc = "findExisting", !.todo = items]
  <2>1. x \in CallRecord /\ Argued(x)
    BY NoCallArgued, OnboardingAssumption DEF NoCall, CallRecord, Argued, Labels
  <2>2. Begin(c, x)
    BY <1>1 DEF InitiateStart
  <2>3. (overlap \/ Initiating # {}) \in BOOLEAN
    OBVIOUS
  <2>4. TablesTyped
    BY <1>1, <2>3 DEF InitiateStart, WellTyped, TypeOK, TablesTyped, TaskRecord
  <2> HIDE DEF x
  <2>5. QED
    BY <2>1, <2>2, <2>4, BeginCall
<1>2. ASSUME NEW e \in Edited, EditStart(c, e[1], e[2])
      PROVE  OnlyCall(c) /\ TablesTyped
  <2> DEFINE m == e[1]
             st == e[2]
             x == [NoCall EXCEPT !.pc = "editWrite", !.mail = m, !.to = st,
                                 !.st = IF m \in {work, Unsent} THEN "same" ELSE "new"]
  <2>0. m \in Addresses \cup {Unsent} /\ st \in Employment \cup {Unsent}
    BY OnboardingAssumption
  <2> HIDE DEF m, st
  <2>1. x \in CallRecord /\ Argued(x)
    BY <2>0, NoCallArgued DEF NoCall, CallRecord, Argued, Labels
  <2>2. Begin(c, x)
    BY <1>2 DEF EditStart, m, st
  <2>3. alone' \subseteq Calls /\ split' \in BOOLEAN
    BY <1>2, MailTyped DEF EditStart
  <2>4. TablesTyped
    BY <1>2, <2>3 DEF EditStart, WellTyped, TypeOK, TablesTyped, TaskRecord
  <2> HIDE DEF x
  <2>5. QED
    BY <2>1, <2>2, <2>4, BeginCall
<1>3. ASSUME NEW r \in Records, NEW st \in {"in_progress", "completed"}, UpdateStart(c, r, st)
      PROVE  OnlyCall(c) /\ TablesTyped
  <2> DEFINE x == [NoCall EXCEPT !.pc = "setStatus", !.r = r, !.st = st]
  <2>1. x \in CallRecord /\ Argued(x)
    BY NoCallArgued DEF NoCall, CallRecord, Argued, Labels
  <2>2. Begin(c, x)
    BY <1>3 DEF UpdateStart
  <2>3. TablesTyped
    BY <1>3 DEF UpdateStart, WellTyped, TypeOK, TablesTyped, TaskRecord
  <2> HIDE DEF x
  <2>4. QED
    BY <2>1, <2>2, <2>3, BeginCall
<1>4. ASSUME NEW r \in Records, ReopenStart(c, r)
      PROVE  OnlyCall(c) /\ TablesTyped
  <2> DEFINE x == [NoCall EXCEPT !.pc = "setStatus", !.r = r, !.st = "in_progress"]
  <2>1. x \in CallRecord /\ Argued(x)
    BY NoCallArgued DEF NoCall, CallRecord, Argued, Labels
  <2>2. Begin(c, x) /\ TablesTyped
    BY <1>4, <1>0 DEF ReopenStart
  <2> HIDE DEF x
  <2>3. QED
    BY <2>1, <2>2, BeginCall
<1>5. ASSUME NEW r \in Records, DeleteStart(c, r)
      PROVE  OnlyCall(c) /\ TablesTyped
  <2> DEFINE x == [NoCall EXCEPT !.pc = "deleteRecord", !.r = r]
  <2>1. x \in CallRecord /\ Argued(x)
    BY NoCallArgued DEF NoCall, CallRecord, Argued, Labels
  <2>2. Begin(c, x)
    BY <1>5 DEF DeleteStart
  <2>3. task' \in [Records -> [Items -> TaskRecord]]
    BY <1>5, NoTasksTyped DEF DeleteStart
  <2>4. TablesTyped
    BY <1>5, <2>3 DEF DeleteStart, WellTyped, TypeOK, TablesTyped
  <2> HIDE DEF x
  <2>5. QED
    BY <2>1, <2>2, <2>4, BeginCall
<1>6. ASSUME NEW r \in Records, NEW k \in Items, AddStart(c, r, k)
      PROVE  OnlyCall(c) /\ TablesTyped
  <2> DEFINE x == [NoCall EXCEPT !.pc = IF rec[r] = "completed" THEN "addReopen" ELSE "addInsert", !.r = r, !.k = k]
  <2>1. x \in CallRecord /\ Argued(x)
    BY NoCallArgued DEF NoCall, CallRecord, Argued, Labels
  <2>2. Begin(c, x) /\ TablesTyped
    BY <1>6, <1>0 DEF AddStart
  <2> HIDE DEF x
  <2>3. QED
    BY <2>1, <2>2, BeginCall
<1>7. ASSUME NEW r \in Records, NEW k \in Items, DeleteTask(c, r, k)
      PROVE  OnlyCall(c) /\ TablesTyped
  <2>1. GoneTask \in TaskRecord
    BY DEF GoneTask, NoTask, TaskRecord, Details
  <2>2. task' \in [Records -> [Items -> TaskRecord]]
    BY <1>7, <2>1, WriteTyped DEF DeleteTask
  <2>3. TablesTyped
    BY <1>7, <2>2 DEF DeleteTask, WellTyped, TypeOK, TablesTyped
  <2>4. OnlyCall(c)
    BY <1>7 DEF DeleteTask, WellTyped, TypeOK, OnlyCall
  <2>5. QED
    BY <2>3, <2>4
<1>8. ASSUME NEW r \in Records, NEW k \in Items, NEW tick \in {"open", "done", Unsent}, NEW sent \in Sent(k),
             TaskStart(c, r, k, tick, sent)
      PROVE  OnlyCall(c) /\ TablesTyped
  <2> DEFINE details == IF sent = Unsent THEN task[r][k].details ELSE sent
             st == IF tick = Unsent THEN task[r][k].st ELSE tick
             x == [NoCall EXCEPT !.pc = "writeTask", !.r = r, !.k = k, !.details = details, !.st = st]
  <2>1. details \in Details
    BY OnboardingAssumption DEF Sent, Details, WellTyped, TypeOK
  <2>2. st \in {"open", "done"}
    BY <1>8 DEF TaskStart, Exists, Unsent
  <2> HIDE DEF details, st
  <2>3. x \in CallRecord /\ Argued(x)
    BY <2>1, <2>2, NoCallArgued DEF NoCall, CallRecord, Argued, Labels
  <2>4. Begin(c, x) /\ TablesTyped
    BY <1>8, <1>0 DEF TaskStart, details, st
  <2> HIDE DEF x
  <2>5. QED
    BY <2>3, <2>4, BeginCall
<1>9. QED
  BY <1>1, <1>2, <1>3, <1>4, <1>5, <1>6, <1>7, <1>8 DEF Start

\* A call that goes on.
LEMMA ContinueTyped ==
  ASSUME WellTyped, NEW c \in Calls, Continue(c)
  PROVE  OnlyCall(c) /\ TablesTyped
<1> USE DEF person, departure, mailing
<1>t. status \in Employment /\ "active" \in Employment /\ work \in Addresses /\ login \in Addresses
      /\ rec \in [Records -> {"none", "in_progress", "completed", "deleted"}]
      /\ task \in [Records -> [Items -> TaskRecord]] /\ late \subseteq Records \X Items
      /\ overlap \in BOOLEAN /\ left \in BOOLEAN /\ exposed \in BOOLEAN /\ rehired \in BOOLEAN
      /\ split \in BOOLEAN /\ alone \subseteq Calls
  BY DEF WellTyped, TypeOK, TaskRecord, Employment
<1>c. call \in [Calls -> CallRecord] /\ call[c] \in CallRecord /\ Argued(call[c])
  BY DEF WellTyped, TypeOK
<1>m. call[c].details \in Details
  BY <1>c DEF CallRecord
<1>o. \A x \in {"open", "done"}, d \in Details : [st |-> x, details |-> d] \in TaskRecord
  BY DEF TaskRecord
<1>1. CASE FindExisting(c)
  <2>1. CASE Return(c)
    BY <1>1, <1>t, <2>1, ReturnCall DEF FindExisting, TablesTyped
  <2>2. CASE Goto(c, "createRecord")
    <3>1. Argued([call[c] EXCEPT !.pc = "createRecord"]) /\ "createRecord" \in Labels
      BY <1>c DEF Argued, CallRecord, Labels
    <3>2. QED
      BY <1>1, <1>t, <2>2, <3>1, GotoCall DEF FindExisting, TablesTyped
  <2>3. QED
    BY <1>1, <2>1, <2>2 DEF FindExisting
<1>2. CASE CreateRecord(c)
  <2>1. [call[c] EXCEPT !.r = NextRecord, !.pc = "insertTasks"] \in CallRecord
    BY <1>2, <1>c DEF CreateRecord, CallRecord, Labels
  <2>2. Argued([call[c] EXCEPT !.r = NextRecord, !.pc = "insertTasks"])
    BY <1>2, <1>c DEF CreateRecord, CallRecord, Argued
  <2>3. call' = [call EXCEPT ![c] = [call[c] EXCEPT !.r = NextRecord, !.pc = "insertTasks"]]
    BY <1>2, <1>c DEF CreateRecord
  <2>4. OnlyCall(c)
    BY <1>c, <2>1, <2>2, <2>3 DEF OnlyCall
  <2>5. TablesTyped
    BY <1>2, <1>t DEF CreateRecord, TablesTyped
  <2>6. QED
    BY <2>4, <2>5
<1>3. CASE InsertTasks(c)
  <2> DEFINE r == call[c].r
  <2>1. r \in Records
    BY <1>3, <1>c DEF InsertTasks, At, Argued
  <2>2. ASSUME NEW k \in call[c].todo, InsertTask(r, k), call' = [call EXCEPT ![c].todo = @ \ {k}]
        PROVE  OnlyCall(c) /\ TablesTyped
    <3>1. k \in Items
      BY <1>c DEF CallRecord
    <3>2. task' \in [Records -> [Items -> TaskRecord]] /\ late' \subseteq Records \X Items
      BY <2>1, <2>2, <3>1, WriteTyped, TouchTyped DEF InsertTask, TaskRecord, Details
    <3>3. [call[c] EXCEPT !.todo = @ \ {k}] \in CallRecord /\ Argued([call[c] EXCEPT !.todo = @ \ {k}])
      BY <1>c DEF CallRecord, Argued
    <3>4. call' = [call EXCEPT ![c] = [call[c] EXCEPT !.todo = @ \ {k}]]
      BY <1>c, <2>2
    <3>5. OnlyCall(c)
      BY <1>c, <3>3, <3>4 DEF OnlyCall
    <3>6. TablesTyped
      BY <1>3, <1>t, <3>2 DEF InsertTasks, TablesTyped
    <3>7. QED
      BY <3>5, <3>6
  <2>3. ASSUME Return(c), UNCHANGED <<task, late>>
        PROVE  OnlyCall(c) /\ TablesTyped
    BY <1>3, <1>t, <2>3, ReturnCall DEF InsertTasks, TablesTyped
  <2>4. QED
    BY <1>3, <2>2, <2>3 DEF InsertTasks
<1>4. CASE SetStatus(c)
  <2>1. call[c].r \in Records /\ call[c].st \in {"in_progress", "completed"}
    BY <1>4, <1>c DEF SetStatus, At, Argued
  <2>2. TablesTyped
    BY <1>4, <1>t, <2>1 DEF SetStatus, TablesTyped
  <2>3. Argued([call[c] EXCEPT !.pc = "activate"]) /\ "activate" \in Labels
    BY <1>c, <2>1 DEF Argued, CallRecord, Labels
  <2>4. QED
    BY <1>4, <2>2, <2>3, ReturnCall, GotoCall DEF SetStatus
<1>5. CASE Activate(c)
  BY <1>5, <1>t, ReturnCall DEF Activate, TablesTyped
<1>6. CASE DeleteRecord(c)
  <2>1. call[c].r \in Records
    BY <1>6, <1>c DEF DeleteRecord, At, Argued
  <2>2. task' \in [Records -> [Items -> TaskRecord]]
    BY <1>6, <2>1, NoTasksTyped DEF DeleteRecord
  <2>3. TablesTyped
    BY <1>6, <1>t, <2>1, <2>2 DEF DeleteRecord, TablesTyped
  <2>4. QED
    BY <1>6, <2>3, ReturnCall DEF DeleteRecord
<1>7. CASE AddReopen(c)
  <2>1. call[c].r \in Records /\ call[c].k \in Items
    BY <1>7, <1>c DEF AddReopen, At, Argued
  <2>2. TablesTyped
    BY <1>7, <1>t, <2>1 DEF AddReopen, TablesTyped
  <2>3. Argued([call[c] EXCEPT !.pc = "addInsert"]) /\ "addInsert" \in Labels
    BY <1>c, <2>1 DEF Argued, CallRecord, Labels
  <2>4. QED
    BY <1>7, <2>2, <2>3, GotoCall DEF AddReopen
<1>8. CASE AddInsert(c)
  <2>1. call[c].r \in Records /\ call[c].k \in Items
    BY <1>8, <1>c DEF AddInsert, At, Argued
  <2> DEFINE r == call[c].r
             k == call[c].k
             y == [st |-> "open", details |-> Null]
  <2>a. y \in TaskRecord
    BY DEF TaskRecord, Details
  <2>b. (task' = [task EXCEPT ![r][k] = y] /\ Touch(r, k)) \/ UNCHANGED <<task, late>>
    BY <1>8 DEF AddInsert, InsertTask
  <2> HIDE DEF r, k, y
  <2>c. r \in Records /\ k \in Items
    BY <2>1 DEF r, k
  <2>2. task' \in [Records -> [Items -> TaskRecord]] /\ late' \subseteq Records \X Items
    BY <1>t, <2>a, <2>b, <2>c, WriteTyped, TouchTyped
  <2>3. TablesTyped
    BY <1>8, <1>t, <2>2 DEF AddInsert, TablesTyped
  <2>4. QED
    BY <1>8, <2>3, ReturnCall DEF AddInsert
<1>9. CASE WriteTask(c)
  <2> DEFINE x == [NoCall EXCEPT !.pc = "setEmail", !.mail = call[c].details]
             y == [st |-> call[c].st, details |-> IF call[c].details = Null THEN task[call[c].r][call[c].k].details ELSE call[c].details]
  <2>1. call[c].r \in Records /\ call[c].k \in Items /\ call[c].st \in {"open", "done"}
    BY <1>9, <1>c DEF WriteTask, At, Argued
  <2>2. y \in TaskRecord
    BY <1>t, <1>m, <2>1 DEF TaskRecord
  <2>3. task' = [task EXCEPT ![call[c].r][call[c].k] = y] \/ task' = task
    BY <1>9, <1>t, <2>1 DEF WriteTask
  <2>4. late' \subseteq Records \X Items
    BY <1>9, <1>t, <2>1, TouchTyped DEF WriteTask
  <2>5. alone' \subseteq Calls /\ split' \in BOOLEAN
    BY <1>9, MailTyped DEF WriteTask
  <2> HIDE DEF y
  <2>6. task' \in [Records -> [Items -> TaskRecord]]
    BY <1>t, <2>1, <2>2, <2>3, WriteTyped
  <2>7. TablesTyped
    BY <1>9, <1>t, <2>4, <2>5, <2>6 DEF WriteTask, TablesTyped
  <2>8. call[c].details \in Addresses => x \in CallRecord /\ Argued(x)
    BY NoCallArgued DEF NoCall, CallRecord, Argued, Labels
  <2> HIDE DEF x
  <2>9. Return(c) \/ (call' = [call EXCEPT ![c] = x] /\ call[c].details \in Addresses)
    BY <1>9 DEF WriteTask, x
  <2>10. OnlyCall(c)
    BY <1>c, <2>8, <2>9, ReturnCall DEF OnlyCall
  <2>11. QED
    BY <2>7, <2>10
<1>10. CASE SetEmail(c)
  <2>0. call[c].mail \in Addresses
    BY <1>10, <1>c DEF SetEmail, At, Argued
  <2>1. TablesTyped
    BY <1>10, <1>t, <2>0, MailTyped DEF SetEmail, TablesTyped
  <2>2. Argued([call[c] EXCEPT !.pc = "syncRead"]) /\ "syncRead" \in Labels
    BY <1>c, <2>0 DEF Argued, CallRecord, Labels
  <2>3. QED
    BY <1>10, <2>1, <2>2, ReturnCall, GotoCall DEF SetEmail
<1>11. CASE EditWrite(c)
  <2>0. call[c].mail \in Addresses \cup {Unsent} /\ call[c].to \in Employment \cup {Unsent}
        /\ (call[c].st = "new" => call[c].mail \in Addresses)
    BY <1>11, <1>c DEF EditWrite, At, Argued, CallRecord
  <2>1. status' \in Employment /\ left' \in BOOLEAN /\ exposed' \in BOOLEAN /\ rehired' \in BOOLEAN
    BY <1>11, <2>0, EmployTyped DEF EditWrite
  <2>2. alone' \subseteq Calls /\ split' \in BOOLEAN
    BY <1>11, MailTyped DEF EditWrite
  <2>3. TablesTyped
    BY <1>11, <1>t, <2>0, <2>1, <2>2 DEF EditWrite, TablesTyped
  <2>4. CASE Return(c)
    BY <2>3, <2>4, ReturnCall
  <2>5. CASE call[c].st = "new" /\ Goto(c, "syncRead")
    <3>1. Argued([call[c] EXCEPT !.pc = "syncRead"]) /\ "syncRead" \in Labels
      BY <1>c, <2>0, <2>5 DEF Argued, CallRecord, Labels
    <3>2. QED
      BY <2>3, <2>5, <3>1, GotoCall
  <2>6. QED
    BY <1>11, <2>4, <2>5 DEF EditWrite
<1>12. CASE SyncRead(c)
  <2>1. TablesTyped
    BY <1>12, <1>t, MailTyped DEF SyncRead, TablesTyped
  <2>2. Argued([call[c] EXCEPT !.pc = "syncWrite"]) /\ "syncWrite" \in Labels
    BY <1>12, <1>c DEF SyncRead, At, Argued, CallRecord, Labels
  <2>3. Return(c) \/ Goto(c, "syncWrite")
    BY <1>12 DEF SyncRead
  <2>4. QED
    BY <2>1, <2>2, <2>3, ReturnCall, GotoCall
<1>13. CASE SyncWrite(c)
  <2>0. call[c].mail \in Addresses
    BY <1>13, <1>c DEF SyncWrite, At, Argued
  <2>1. TablesTyped
    BY <1>13, <1>t, <2>0, MailTyped DEF SyncWrite, TablesTyped
  <2>2. QED
    BY <1>13, <2>1, ReturnCall DEF SyncWrite
<1>14. QED
  BY <1>1, <1>2, <1>3, <1>4, <1>5, <1>6, <1>7, <1>8, <1>9, <1>10, <1>11, <1>12, <1>13 DEF Continue

\* Every step keeps the types, and a step of a call changes no other call.
LEMMA NextTyped ==
  ASSUME WellTyped, [Next]_vars
  PROVE  WellTyped'
<1> USE DEF person, departure, mailing
<1>1. ASSUME NEW c \in Calls, Start(c) \/ Continue(c), started' \in Nat, crashes' \in Nat
      PROVE  WellTyped'
  BY <1>1, StartTyped, ContinueTyped, StepTyped
<1>2. ASSUME Depart, started' \in Nat, crashes' \in Nat
      PROVE  WellTyped'
  <2>1. status' \in Employment /\ left' \in BOOLEAN /\ exposed' \in BOOLEAN /\ rehired' \in BOOLEAN
    <3>1. "departed" \in Employment \cup {Unsent}
      BY DEF Employment
    <3>2. QED
      BY <1>2, <3>1, EmployTyped DEF Depart
  <2>2. TypeOK'
    BY <1>2, <2>1 DEF Depart, WellTyped, TypeOK
  <2>3. QED
    BY <1>2, <2>2 DEF Depart, WellTyped, Argued
<1>3. ASSUME Crash, started' \in Nat, crashes' \in Nat
      PROVE  WellTyped'
  <2>1. (split \/ MailCalls # {}) \in BOOLEAN
    OBVIOUS
  <2>2. call' \in [Calls -> CallRecord] /\ \A c \in Calls : Argued(call'[c])
    BY <1>3, NoCallArgued DEF Crash
  <2>3. TypeOK'
    BY <1>3, <2>1, <2>2 DEF Crash, WellTyped, TypeOK
  <2>4. QED
    BY <2>2, <2>3 DEF WellTyped, Argued
<1>4. CASE UNCHANGED vars
  BY <1>4 DEF vars, WellTyped, TypeOK, Argued
<1>5. ASSUME Next PROVE started' \in Nat /\ crashes' \in Nat
  BY <1>5, CountersTyped DEF Next
<1>6. QED
  BY <1>1, <1>2, <1>3, <1>4, <1>5 DEF Next

\* The tables hold what their columns may hold, whatever order the statements of
\* the calls come in (Onboarding's tables and the calls of OnboardingService.ts).
THEOREM TypesHold == Spec => []TypeOK
<1>1. WellTyped => TypeOK
  BY DEF WellTyped
<1>2. QED
  BY <1>1, InitTyped, NextTyped, PTL DEF Spec

-----------------------------------------------------------------------------
(* CompletedMeansDone.                                                     *)

\* From when a completion has looked at the tasks of a record, the required ones
\* it found are done, but for those written since.
DoneSince ==
  \A r \in Records, k \in Required :
    Checked(r) /\ Exists(r, k) /\ <<r, k>> \notin late =>
      task[r][k].st = "done" /\ (k = WorkEmail => task[r][k].details \notin {Null, Blank})

\* What a step may do to the tasks of a record: leave them or note that it writes them.
Noted(r) ==
  /\ Checked(r)' => Checked(r)
  /\ \A k \in Required : <<r, k>> \in late => <<r, k>> \in late'
  /\ \A k \in Required : Exists(r, k)' /\ Checked(r) =>
       (task'[r][k] = task[r][k] /\ Exists(r, k)) \/ <<r, k>> \in late'

\* Or it is the completion that looks at them.
Looked(r) == RequiredComplete(r) /\ UNCHANGED task

\* A call that does not come to look at a record leaves it as looked at as it was.
LEMMA CheckedKept ==
  ASSUME NEW c \in Calls, NEW r \in Records, OnlyCall(c),
         call'[c].pc = "setStatus" /\ call'[c].r = r => call'[c].st # "completed",
         rec'[r] = "completed" => Checked(r)
  PROVE  Checked(r)' => Checked(r)
BY DEF OnlyCall, Checked, At

\* Tasks that stay as they are.
LEMMA NotedUntouched ==
  ASSUME NEW r \in Records, Checked(r)' => Checked(r), task'[r] = task[r],
         \A k \in Required : <<r, k>> \in late => <<r, k>> \in late'
  PROVE  Noted(r)
BY DEF Noted, Exists

\* A task that is written, with the note of it.
LEMMA NotedTouched ==
  ASSUME WellTyped, NEW r \in Records, NEW q \in Records, NEW i \in Items, NEW x \in TaskRecord,
         Checked(r)' => Checked(r), task' = [task EXCEPT ![q][i] = x], Touch(q, i)
  PROVE  Noted(r)
<1>1. \A k \in Items : r # q \/ k # i => task'[r][k] = task[r][k]
  BY WriteTyped
<1>2. late \subseteq late' /\ (Checked(q) => <<q, i>> \in late')
  BY TouchTyped
<1>3. Required \subseteq Items
  BY OnboardingAssumption
<1>4. QED
  BY <1>1, <1>2, <1>3 DEF Noted, Exists

\* A task that is gone is not there to be looked at.
LEMMA NotedGone ==
  ASSUME NEW r \in Records, Checked(r)' => Checked(r), UNCHANGED late,
         \A k \in Required : task'[r][k] = task[r][k] \/ task'[r][k].st \notin {"open", "done"}
  PROVE  Noted(r)
BY DEF Noted, Exists

\* A call that starts notes what it writes, or looks.
LEMMA StartNotes ==
  ASSUME WellTyped, NEW c \in Calls, Start(c), NEW q \in Records
  PROVE  Noted(q) \/ Looked(q)
<1>c. OnlyCall(c)
  BY StartTyped
<1>n. NoCall.pc = "idle" /\ NoCall.st = "none" /\ "setStatus" # "idle"
  BY DEF NoCall
<1>r. rec'[q] = rec[q] => (rec'[q] = "completed" => Checked(q))
  BY DEF Checked
<1>q. Required \subseteq Items
  BY OnboardingAssumption
<1>1. ASSUME NEW items \in {Template, {}}, InitiateStart(c, items)
      PROVE  Noted(q)
  <2>1. call'[c].pc = "findExisting"
    BY <1>1 DEF InitiateStart, Begin, WellTyped, TypeOK, NoCall
  <2>2. QED
    BY <1>1, <1>c, <1>r, <2>1, CheckedKept, NotedUntouched DEF InitiateStart
<1>2. ASSUME NEW e \in Edited, EditStart(c, e[1], e[2])
      PROVE  Noted(q)
  <2>1. call'[c].pc = "editWrite"
    BY <1>2 DEF EditStart, Begin, WellTyped, TypeOK, NoCall
  <2>2. QED
    BY <1>2, <1>c, <1>r, <2>1, CheckedKept, NotedUntouched DEF EditStart
<1>3. ASSUME NEW r \in Records, NEW st \in {"in_progress", "completed"}, UpdateStart(c, r, st)
      PROVE  Noted(q) \/ Looked(q)
  <2>1. call'[c].pc = "setStatus" /\ call'[c].r = r /\ call'[c].st = st
    BY <1>3 DEF UpdateStart, Begin, WellTyped, TypeOK, NoCall
  <2>2. CASE q = r /\ st = "completed"
    BY <1>3, <2>2 DEF UpdateStart, Looked
  <2>3. CASE q # r \/ st # "completed"
    <3>1. \A k \in Required : <<q, k>> \in late => <<q, k>> \in late'
      BY <1>3, <2>3 DEF UpdateStart
    <3>2. Checked(q)' => Checked(q)
      BY <1>3, <1>c, <1>r, <2>1, <2>3, CheckedKept DEF UpdateStart
    <3>3. QED
      BY <1>3, <3>1, <3>2, NotedUntouched DEF UpdateStart
  <2>4. QED
    BY <2>2, <2>3
<1>4. ASSUME NEW r \in Records, ReopenStart(c, r)
      PROVE  Noted(q)
  <2>1. call'[c].st = "in_progress"
    BY <1>4 DEF ReopenStart, Begin, WellTyped, TypeOK, NoCall
  <2>2. QED
    BY <1>4, <1>c, <1>r, <2>1, CheckedKept, NotedUntouched DEF ReopenStart
<1>5. ASSUME NEW r \in Records, DeleteStart(c, r)
      PROVE  Noted(q)
  <2>1. call'[c].pc = "deleteRecord"
    BY <1>5 DEF DeleteStart, Begin, WellTyped, TypeOK, NoCall
  <2>2. Checked(q)' => Checked(q)
    BY <1>5, <1>c, <1>r, <2>1, CheckedKept DEF DeleteStart
  <2>3. \A k \in Required : task'[q][k] = task[q][k] \/ task'[q][k].st \notin {"open", "done"}
    BY <1>5, <1>q, NoTasksTyped DEF DeleteStart
  <2>4. QED
    BY <1>5, <2>2, <2>3, NotedGone DEF DeleteStart
<1>6. ASSUME NEW r \in Records, NEW k \in Items, AddStart(c, r, k)
      PROVE  Noted(q)
  <2>1. call'[c].pc \in {"addReopen", "addInsert"}
    BY <1>6 DEF AddStart, Begin, WellTyped, TypeOK, NoCall
  <2>2. QED
    BY <1>6, <1>c, <1>r, <2>1, CheckedKept, NotedUntouched DEF AddStart
<1>7. ASSUME NEW r \in Records, NEW k \in Items, DeleteTask(c, r, k)
      PROVE  Noted(q)
  <2>1. GoneTask \in TaskRecord /\ GoneTask.st = "gone"
    BY DEF GoneTask, NoTask, TaskRecord, Details
  <2>2. \A i \in Required : task'[q][i] = task[q][i] \/ task'[q][i].st \notin {"open", "done"}
    BY <1>7, <1>q, <2>1, WriteTyped DEF DeleteTask
  <2>3. Checked(q)' => Checked(q)
    BY <1>7, <1>c, <1>n, <1>r, CheckedKept DEF DeleteTask, At
  <2>4. QED
    BY <1>7, <2>2, <2>3, NotedGone DEF DeleteTask
<1>8. ASSUME NEW r \in Records, NEW k \in Items, NEW tick \in {"open", "done", Unsent}, NEW sent \in Sent(k),
             TaskStart(c, r, k, tick, sent)
      PROVE  Noted(q)
  <2>1. call'[c].pc = "writeTask"
    BY <1>8 DEF TaskStart, Begin, WellTyped, TypeOK, NoCall
  <2>2. QED
    BY <1>8, <1>c, <1>r, <2>1, CheckedKept, NotedUntouched DEF TaskStart
<1>9. QED
  BY <1>1, <1>2, <1>3, <1>4, <1>5, <1>6, <1>7, <1>8 DEF Start

\* A call that goes on notes what it writes.
LEMMA ContinueNotes ==
  ASSUME WellTyped, NEW c \in Calls, Continue(c), NEW q \in Records
  PROVE  Noted(q)
<1>c. OnlyCall(c)
  BY ContinueTyped
<1>t. call \in [Calls -> CallRecord] /\ call[c] \in CallRecord /\ Argued(call[c])
      /\ task \in [Records -> [Items -> TaskRecord]] /\ rec \in [Records -> {"none", "in_progress", "completed", "deleted"}]
  BY DEF WellTyped, TypeOK, TaskRecord
<1>n. NoCall.pc = "idle"
  BY DEF NoCall
<1>q. Required \subseteq Items
  BY OnboardingAssumption
<1>r. rec'[q] = rec[q] => (rec'[q] = "completed" => Checked(q))
  BY DEF Checked
<1>v. Return(c) => call'[c].pc = "idle"
  BY <1>t, <1>n DEF Return
<1>g. ASSUME NEW l \in Labels, Goto(c, l) PROVE call'[c].pc = l
  BY <1>g, <1>t DEF Goto, CallRecord
<1>1. CASE FindExisting(c)
  <2>1. call'[c].pc # "setStatus"
    BY <1>1, <1>v, <1>g DEF FindExisting, Labels
  <2>2. QED
    BY <1>1, <1>c, <1>r, <2>1, CheckedKept, NotedUntouched DEF FindExisting
<1>2. CASE CreateRecord(c)
  <2>1. call'[c].pc = "insertTasks"
    BY <1>2, <1>t DEF CreateRecord, CallRecord
  <2>2. rec'[q] = "completed" => Checked(q)
    BY <1>2, <1>t DEF CreateRecord, Checked
  <2>3. QED
    BY <1>2, <1>c, <2>1, <2>2, CheckedKept, NotedUntouched DEF CreateRecord
<1>3. CASE InsertTasks(c)
  <2> DEFINE r == call[c].r
             y == [st |-> "open", details |-> Null]
  <2>1. r \in Records
    BY <1>3, <1>t DEF InsertTasks, At, Argued
  <2>2. ASSUME NEW k \in call[c].todo, InsertTask(r, k), call' = [call EXCEPT ![c].todo = @ \ {k}]
        PROVE  Noted(q)
    <3>1. k \in Items
      BY <1>t DEF CallRecord
    <3>2. call'[c].pc = "insertTasks"
      BY <1>3, <1>t, <2>2 DEF InsertTasks, At, CallRecord
    <3>3. Checked(q)' => Checked(q)
      BY <1>3, <1>c, <1>r, <3>2, CheckedKept DEF InsertTasks
    <3>4. y \in TaskRecord /\ task' = [task EXCEPT ![r][k] = y] /\ Touch(r, k)
      BY <2>2 DEF InsertTask, TaskRecord, Details
    <3> HIDE DEF r, y
    <3>5. QED
      BY <2>1, <3>1, <3>3, <3>4, NotedTouched
  <2>3. ASSUME Return(c), UNCHANGED <<task, late>>
        PROVE  Noted(q)
    BY <1>3, <1>c, <1>r, <1>v, <2>3, CheckedKept, NotedUntouched DEF InsertTasks
  <2>4. QED
    BY <1>3, <2>2, <2>3 DEF InsertTasks
<1>4. CASE SetStatus(c)
  <2>1. call[c].r \in Records /\ At(c, "setStatus")
    BY <1>4, <1>t DEF SetStatus, At, Argued
  <2>2. rec'[q] = "completed" => Checked(q)
    BY <1>4, <1>t, <2>1 DEF SetStatus, Checked
  <2>3. call'[c].pc # "setStatus"
    BY <1>4, <1>v, <1>g DEF SetStatus, Labels
  <2>4. QED
    BY <1>4, <1>c, <2>2, <2>3, CheckedKept, NotedUntouched DEF SetStatus
<1>5. CASE Activate(c)
  BY <1>5, <1>c, <1>r, <1>v, CheckedKept, NotedUntouched DEF Activate
<1>6. CASE DeleteRecord(c)
  <2>1. call[c].r \in Records
    BY <1>6, <1>t DEF DeleteRecord, At, Argued
  <2>2. rec'[q] = "completed" => Checked(q)
    BY <1>6, <1>t, <2>1 DEF DeleteRecord, Checked
  <2>3. \A k \in Required : task'[q][k] = task[q][k] \/ task'[q][k].st \notin {"open", "done"}
    BY <1>6, <1>q, <2>1, NoTasksTyped DEF DeleteRecord
  <2>4. QED
    BY <1>6, <1>c, <1>v, <2>2, <2>3, CheckedKept, NotedGone DEF DeleteRecord
<1>7. CASE AddReopen(c)
  <2>1. call[c].r \in Records
    BY <1>7, <1>t DEF AddReopen, At, Argued
  <2>2. rec'[q] = "completed" => Checked(q)
    BY <1>7, <1>t, <2>1 DEF AddReopen, Checked
  <2>3. call'[c].pc = "addInsert"
    BY <1>7, <1>g DEF AddReopen, Labels
  <2>4. QED
    BY <1>7, <1>c, <2>2, <2>3, CheckedKept, NotedUntouched DEF AddReopen
<1>8. CASE AddInsert(c)
  <2> DEFINE r == call[c].r
             k == call[c].k
             y == [st |-> "open", details |-> Null]
  <2>1. r \in Records /\ k \in Items
    BY <1>8, <1>t DEF AddInsert, At, Argued
  <2>2. Checked(q)' => Checked(q)
    BY <1>8, <1>c, <1>r, <1>v, CheckedKept DEF AddInsert
  <2>3. y \in TaskRecord
    BY DEF TaskRecord, Details
  <2>4. (task' = [task EXCEPT ![r][k] = y] /\ Touch(r, k)) \/ UNCHANGED <<task, late>>
    BY <1>8 DEF AddInsert, InsertTask
  <2> HIDE DEF r, k, y
  <2>5. QED
    BY <2>1, <2>2, <2>3, <2>4, NotedTouched, NotedUntouched
<1>9. CASE WriteTask(c)
  <2> DEFINE r == call[c].r
             k == call[c].k
             y == [st |-> call[c].st, details |-> IF call[c].details = Null THEN task[r][k].details ELSE call[c].details]
  <2>1. r \in Records /\ k \in Items /\ call[c].st \in {"open", "done"}
    BY <1>9, <1>t DEF WriteTask, At, Argued
  <2>2. y \in TaskRecord
    BY <1>t, <2>1 DEF TaskRecord, CallRecord
  <2>3. (task' = [task EXCEPT ![r][k] = y] /\ Touch(r, k)) \/ UNCHANGED <<task, late>>
    BY <1>9, <1>t, <2>1 DEF WriteTask
  <2>4. call'[c].pc \in {"idle", "setEmail"}
    BY <1>9, <1>t, <1>v DEF WriteTask, NoCall
  <2>5. Checked(q)' => Checked(q)
    BY <1>9, <1>c, <1>r, <2>4, CheckedKept DEF WriteTask
  <2> HIDE DEF r, k, y
  <2>6. QED
    BY <2>1, <2>2, <2>3, <2>5, NotedTouched, NotedUntouched
<1>10. CASE SetEmail(c)
  <2>1. call'[c].pc # "setStatus"
    BY <1>10, <1>v, <1>g DEF SetEmail, Labels
  <2>2. QED
    BY <1>10, <1>c, <1>r, <2>1, CheckedKept, NotedUntouched DEF SetEmail
<1>11. CASE EditWrite(c)
  <2>1. call'[c].pc # "setStatus"
    BY <1>11, <1>v, <1>g DEF EditWrite, Labels
  <2>2. QED
    BY <1>11, <1>c, <1>r, <2>1, CheckedKept, NotedUntouched DEF EditWrite
<1>12. CASE SyncRead(c)
  <2>1. call'[c].pc # "setStatus"
    BY <1>12, <1>v, <1>g DEF SyncRead, Labels
  <2>2. QED
    BY <1>12, <1>c, <1>r, <2>1, CheckedKept, NotedUntouched DEF SyncRead
<1>13. CASE SyncWrite(c)
  BY <1>13, <1>c, <1>r, <1>v, CheckedKept, NotedUntouched DEF SyncWrite
<1>14. QED
  BY <1>1, <1>2, <1>3, <1>4, <1>5, <1>6, <1>7, <1>8, <1>9, <1>10, <1>11, <1>12, <1>13 DEF Continue

\* Every step of the system notes what it writes, or looks.
LEMMA NextNotes ==
  ASSUME WellTyped, [Next]_vars, NEW q \in Records
  PROVE  Noted(q) \/ Looked(q)
<1> USE DEF person, departure, mailing
<1>1. ASSUME NEW c \in Calls, Start(c) \/ Continue(c)
      PROVE  Noted(q) \/ Looked(q)
  BY <1>1, StartNotes, ContinueNotes
<1>2. CASE Depart
  BY <1>2, NotedUntouched DEF Depart, Checked, At
<1>3. CASE Crash
  <2>1. \A c \in Calls : call'[c].pc = "idle"
    BY <1>3 DEF Crash, NoCall
  <2>2. Checked(q)' => Checked(q)
    BY <1>3, <2>1 DEF Crash, Checked, At
  <2>3. QED
    BY <1>3, <2>2, NotedUntouched DEF Crash
<1>4. CASE UNCHANGED vars
  BY <1>4, NotedUntouched DEF vars, Checked, At
<1>5. QED
  BY <1>1, <1>2, <1>3, <1>4 DEF Next

\* What a completion found done stays done, unless a note says otherwise.
LEMMA DoneSinceKept ==
  ASSUME WellTyped, WellTyped', [Next]_vars, DoneSince
  PROVE  DoneSince'
<1> SUFFICES ASSUME NEW r \in Records, NEW k \in Required,
                    Checked(r)', Exists(r, k)', <<r, k>> \notin late'
             PROVE  task'[r][k].st = "done" /\ (k = WorkEmail => task'[r][k].details \notin {Null, Blank})
  BY DEF DoneSince
<1>1. CASE Noted(r)
  BY <1>1 DEF Noted, DoneSince
<1>2. CASE Looked(r)
  BY <1>2 DEF Looked, RequiredComplete, Exists
<1>3. QED
  BY <1>1, <1>2, NextNotes

\* In a completed onboarding every required task is done and has the details it
\* needs, but for tasks written after the completion had looked at them, whatever
\* the calls interleave (OnboardingService.ts updateRecord).
THEOREM CompletedChecklistsDone == Spec => []CompletedMeansDone
<1>1. Init => DoneSince
  <2>1. NoTask.st = "none" /\ Required \subseteq Items
    BY OnboardingAssumption DEF NoTask
  <2>2. QED
    BY <2>1 DEF Init, DoneSince, Exists
<1>2. WellTyped /\ DoneSince => CompletedMeansDone
  <2> SUFFICES ASSUME WellTyped, DoneSince, NEW r \in Records, NEW k \in Required,
                      rec[r] = "completed", Exists(r, k), <<r, k>> \notin late
               PROVE  task[r][k].st = "done" /\ (k = WorkEmail => task[r][k].details \in Addresses)
    BY DEF CompletedMeansDone
  <2>1. task[r][k].st = "done" /\ (k = WorkEmail => task[r][k].details \notin {Null, Blank})
    BY DEF DoneSince, Checked
  <2>2. task[r][k].details \in Details
    BY OnboardingAssumption DEF WellTyped, TypeOK
  <2>3. QED
    BY <2>1, <2>2 DEF Details
<1>3. QED
  BY <1>1, <1>2, InitTyped, NextTyped, DoneSinceKept, PTL DEF Spec

-----------------------------------------------------------------------------
(* OnboardedOnce.                                                          *)

\* While initiations do not overlap, there is at most one of them and one record,
\* and none while one is to be created; and who departed without any, and was not
\* taken back by HR, has none.
OneAtATime ==
  /\ \A c, d \in Initiating : c = d
  /\ \A r, q \in Records : InTable(r) /\ InTable(q) => r = q
  /\ \A c \in Calls, r \in Records : At(c, "createRecord") => ~InTable(r)

GoneForGood == status = "departed" /\ Initiating = {} /\ \A r \in Records : ~InTable(r)

Once == (overlap \/ OneAtATime) /\ (left /\ ~exposed /\ ~rehired => GoneForGood)

\* A step that makes no record and begins no initiation.
NoRecordMade == \A r \in Records : InTable(r)' => InTable(r)
NobodyActivated ==
  \/ UNCHANGED departure /\ (status' = status \/ \E r \in Records : InTable(r))
  \/ \E st \in Employment \cup {Unsent} : Employ(st)
Quiet ==
  /\ UNCHANGED overlap
  /\ Initiating' \subseteq Initiating
  /\ \A c \in Calls : At(c, "createRecord")' => At(c, "createRecord")
  /\ NoRecordMade
  /\ NobodyActivated

LEMMA QuietKeeps ==
  ASSUME Once, Quiet
  PROVE  Once'
<1>1. overlap' \/ OneAtATime'
  BY DEF Once, OneAtATime, Quiet, NoRecordMade
<1>2. (\A r \in Records : ~InTable(r)) /\ Initiating = {} => (\A r \in Records : ~InTable(r)') /\ Initiating' = {}
  BY DEF Quiet, NoRecordMade
<1>3. CASE UNCHANGED departure /\ (status' = status \/ \E r \in Records : InTable(r))
  BY <1>1, <1>2, <1>3 DEF Once, GoneForGood, departure
<1>4. ASSUME NEW st \in Employment \cup {Unsent}, Employ(st)
      PROVE  Once'
  <2>1. CASE st = "departed"
    BY <1>1, <1>2, <1>4, <2>1 DEF Once, GoneForGood, Employ, Departs, Unsent
  <2>2. CASE st = Unsent
    BY <1>1, <1>2, <1>4, <2>2 DEF Once, GoneForGood, Employ, departure, Unsent
  <2>3. CASE st # "departed" /\ st # Unsent
    BY <1>1, <1>4, <2>3 DEF Once, Employ
  <2>4. QED
    BY <2>1, <2>2, <2>3
<1>5. QED
  BY <1>3, <1>4 DEF Quiet, NobodyActivated

\* A call that is at no statement of an initiation after its step, or stays at the last.
NotInitiating(c) ==
  call'[c].pc \in {"findExisting", "createRecord", "insertTasks"} => call'[c].pc = "insertTasks" /\ At(c, "insertTasks")

LEMMA QuietCall ==
  ASSUME NEW c \in Calls, OnlyCall(c), NotInitiating(c), UNCHANGED overlap,
         NoRecordMade, NobodyActivated
  PROVE  Quiet
BY DEF OnlyCall, Quiet, NotInitiating, Initiating, At

\* A call that starts and is no initiation.
LEMMA StartQuiet ==
  ASSUME WellTyped, NEW c \in Calls, Start(c)
  PROVE  Quiet \/ \E items \in {Template, {}} : InitiateStart(c, items)
<1> USE DEF person, departure, mailing
<1>c. OnlyCall(c)
  BY StartTyped
<1>t. call \in [Calls -> CallRecord]
  BY DEF WellTyped, TypeOK
<1>r. (UNCHANGED rec => NoRecordMade) /\ (UNCHANGED <<status, departure>> => NobodyActivated)
  BY DEF InTable, NoRecordMade, NobodyActivated
<1>1. ASSUME NEW e \in Edited, EditStart(c, e[1], e[2])
      PROVE  Quiet
  <2>1. call'[c].pc = "editWrite"
    BY <1>1, <1>t DEF EditStart, Begin, NoCall
  <2>2. QED
    BY <1>1, <1>c, <1>r, <2>1, QuietCall DEF EditStart, NotInitiating
<1>2. ASSUME NEW r \in Records, NEW st \in {"in_progress", "completed"}, UpdateStart(c, r, st)
      PROVE  Quiet
  <2>1. call'[c].pc = "setStatus"
    BY <1>2, <1>t DEF UpdateStart, Begin, NoCall
  <2>2. QED
    BY <1>2, <1>c, <1>r, <2>1, QuietCall DEF UpdateStart, NotInitiating
<1>3. ASSUME NEW r \in Records, ReopenStart(c, r)
      PROVE  Quiet
  <2>1. call'[c].pc = "setStatus"
    BY <1>3, <1>t DEF ReopenStart, Begin, NoCall
  <2>2. QED
    BY <1>3, <1>c, <1>r, <2>1, QuietCall DEF ReopenStart, NotInitiating
<1>4. ASSUME NEW r \in Records, DeleteStart(c, r)
      PROVE  Quiet
  <2>1. call'[c].pc = "deleteRecord"
    BY <1>4, <1>t DEF DeleteStart, Begin, NoCall
  <2>2. QED
    BY <1>4, <1>c, <1>r, <2>1, QuietCall DEF DeleteStart, NotInitiating
<1>5. ASSUME NEW r \in Records, NEW k \in Items, AddStart(c, r, k)
      PROVE  Quiet
  <2>1. call'[c].pc \in {"addReopen", "addInsert"}
    BY <1>5, <1>t DEF AddStart, Begin, NoCall
  <2>2. QED
    BY <1>5, <1>c, <1>r, <2>1, QuietCall DEF AddStart, NotInitiating
<1>6. ASSUME NEW r \in Records, NEW k \in Items, DeleteTask(c, r, k)
      PROVE  Quiet
  <2>1. call'[c].pc = "idle"
    BY <1>6 DEF DeleteTask, At
  <2>2. QED
    BY <1>6, <1>c, <1>r, <2>1, QuietCall DEF DeleteTask, NotInitiating
<1>7. ASSUME NEW r \in Records, NEW k \in Items, NEW tick \in {"open", "done", Unsent}, NEW sent \in Sent(k),
             TaskStart(c, r, k, tick, sent)
      PROVE  Quiet
  <2>1. call'[c].pc = "writeTask"
    BY <1>7, <1>t DEF TaskStart, Begin, NoCall
  <2>2. QED
    BY <1>7, <1>c, <1>r, <2>1, QuietCall DEF TaskStart, NotInitiating
<1>8. QED
  BY <1>1, <1>2, <1>3, <1>4, <1>5, <1>6, <1>7 DEF Start

\* A call that goes on, but for the two steps that create the record.
LEMMA ContinueQuiet ==
  ASSUME WellTyped, NEW c \in Calls, Continue(c)
  PROVE  Quiet \/ CreateRecord(c) \/ (FindExisting(c) /\ Goto(c, "createRecord"))
<1> USE DEF person, departure, mailing
<1>c. OnlyCall(c)
  BY ContinueTyped
<1>t. call \in [Calls -> CallRecord] /\ call[c] \in CallRecord /\ Argued(call[c])
      /\ rec \in [Records -> {"none", "in_progress", "completed", "deleted"}]
  BY DEF WellTyped, TypeOK
<1>r. (UNCHANGED rec => NoRecordMade) /\ (UNCHANGED <<status, departure>> => NobodyActivated)
  BY DEF InTable, NoRecordMade, NobodyActivated
<1>v. Return(c) => call'[c].pc = "idle"
  BY <1>t DEF Return, NoCall
<1>g. ASSUME NEW l \in Labels, Goto(c, l) PROVE call'[c].pc = l
  BY <1>g, <1>t DEF Goto, CallRecord
<1>1. CASE FindExisting(c)
  BY <1>1, <1>c, <1>r, <1>v, QuietCall DEF FindExisting, NotInitiating
<1>3. CASE InsertTasks(c)
  <2>1. call'[c].pc = "idle" \/ (call'[c].pc = "insertTasks" /\ At(c, "insertTasks"))
    BY <1>3, <1>t, <1>v DEF InsertTasks, At, CallRecord
  <2>2. QED
    BY <1>3, <1>c, <1>r, <2>1, QuietCall DEF InsertTasks, NotInitiating
<1>4. CASE SetStatus(c)
  <2>1. NoRecordMade
    BY <1>4, <1>t DEF SetStatus, InTable, NoRecordMade
  <2>2. call'[c].pc \in {"idle", "activate"}
    BY <1>4, <1>v, <1>g DEF SetStatus, Labels
  <2>3. QED
    BY <1>4, <1>c, <1>r, <2>1, <2>2, QuietCall DEF SetStatus, NotInitiating
<1>5. CASE Activate(c)
  <2>1. call[c].r \in Records
    BY <1>5, <1>t DEF Activate, At, Argued
  <2>2. NobodyActivated
    BY <1>5, <2>1 DEF Activate, NobodyActivated
  <2>3. QED
    BY <1>5, <1>c, <1>r, <1>v, <2>2, QuietCall DEF Activate, NotInitiating
<1>6. CASE DeleteRecord(c)
  <2>1. NoRecordMade
    BY <1>6, <1>t DEF DeleteRecord, InTable, NoRecordMade
  <2>2. QED
    BY <1>6, <1>c, <1>r, <1>v, <2>1, QuietCall DEF DeleteRecord, NotInitiating
<1>7. CASE AddReopen(c)
  <2>1. NoRecordMade
    BY <1>7, <1>t DEF AddReopen, InTable, NoRecordMade
  <2>2. call'[c].pc = "addInsert"
    BY <1>7, <1>g DEF AddReopen, Labels
  <2>3. QED
    BY <1>7, <1>c, <1>r, <2>1, <2>2, QuietCall DEF AddReopen, NotInitiating
<1>8. CASE AddInsert(c)
  BY <1>8, <1>c, <1>r, <1>v, QuietCall DEF AddInsert, NotInitiating
<1>9. CASE WriteTask(c)
  <2>1. call'[c].pc \in {"idle", "setEmail"}
    BY <1>9, <1>t, <1>v DEF WriteTask, NoCall
  <2>2. QED
    BY <1>9, <1>c, <1>r, <2>1, QuietCall DEF WriteTask, NotInitiating
<1>10. CASE SetEmail(c)
  <2>1. call'[c].pc \in {"idle", "syncRead"}
    BY <1>10, <1>v, <1>g DEF SetEmail, Labels
  <2>2. QED
    BY <1>10, <1>c, <1>r, <2>1, QuietCall DEF SetEmail, NotInitiating
<1>11. CASE EditWrite(c)
  <2>1. call'[c].pc \in {"idle", "syncRead"}
    BY <1>11, <1>v, <1>g DEF EditWrite, Labels
  <2>2. call[c].to \in Employment \cup {Unsent}
    BY <1>t DEF CallRecord
  <2>3. NobodyActivated
    BY <1>11, <2>2 DEF EditWrite, NobodyActivated
  <2>4. QED
    BY <1>11, <1>c, <1>r, <2>1, <2>3, QuietCall DEF EditWrite, NotInitiating
<1>12. CASE SyncRead(c)
  <2>1. call'[c].pc \in {"idle", "syncWrite"}
    BY <1>12, <1>v, <1>g DEF SyncRead, Labels
  <2>2. QED
    BY <1>12, <1>c, <1>r, <2>1, QuietCall DEF SyncRead, NotInitiating
<1>13. CASE SyncWrite(c)
  BY <1>13, <1>c, <1>r, <1>v, QuietCall DEF SyncWrite, NotInitiating
<1>14. QED
  BY <1>1, <1>3, <1>4, <1>5, <1>6, <1>7, <1>8, <1>9, <1>10, <1>11, <1>12, <1>13 DEF Continue

\* Every step keeps Once.
LEMMA OnceKept ==
  ASSUME WellTyped, [Next]_vars, Once
  PROVE  Once'
<1> USE DEF person, departure, mailing
<1>t. call \in [Calls -> CallRecord] /\ rec \in [Records -> {"none", "in_progress", "completed", "deleted"}]
  BY DEF WellTyped, TypeOK
<1>1. ASSUME NEW c \in Calls, NEW items \in {Template, {}}, InitiateStart(c, items)
      PROVE  Once'
  <2>1. OnlyCall(c)
    BY <1>1, StartTyped DEF Start
  <2>2. call'[c].pc = "findExisting"
    BY <1>1, <1>t DEF InitiateStart, Begin, NoCall
  <2>3. Initiating' \subseteq Initiating \cup {c}
    BY <2>1 DEF OnlyCall, Initiating
  <2>4. \A d \in Calls : At(d, "createRecord")' => At(d, "createRecord")
    BY <2>1, <2>2 DEF OnlyCall, At
  <2>5. \A r \in Records : InTable(r)' <=> InTable(r)
    BY <1>1 DEF InitiateStart, InTable
  <2>6. overlap' \/ (Initiating = {} /\ overlap' = overlap)
    BY <1>1 DEF InitiateStart, WellTyped, TypeOK
  <2>7. overlap' \/ OneAtATime'
    BY <2>3, <2>4, <2>5, <2>6 DEF Once, OneAtATime
  <2>8. ~(left' /\ ~exposed' /\ ~rehired')
    BY <1>1 DEF InitiateStart, Once, GoneForGood
  <2>9. QED
    BY <2>7, <2>8 DEF Once
<1>2. ASSUME NEW c \in Calls, FindExisting(c), Goto(c, "createRecord")
      PROVE  Once'
  <2>1. OnlyCall(c)
    BY <1>2, ContinueTyped DEF Continue
  <2>2. call'[c].pc = "createRecord"
    BY <1>2, <1>t DEF Goto, CallRecord
  <2>3. c \in Initiating
    BY <1>2 DEF FindExisting, Initiating, At
  <2>4. Initiating' \subseteq Initiating
    BY <2>1, <2>3 DEF OnlyCall, Initiating
  <2>5. \A r \in Records : ~InTable(r)
    BY <1>2, <2>2, <1>t DEF FindExisting, Return, NoCall
  <2>6. \A r \in Records : ~InTable(r)'
    BY <1>2, <2>5 DEF FindExisting, InTable
  <2>7. UNCHANGED <<status, overlap, left, exposed, rehired>>
    BY <1>2 DEF FindExisting
  <2>8. QED
    BY <2>3, <2>4, <2>6, <2>7 DEF Once, OneAtATime, GoneForGood
<1>3. ASSUME NEW c \in Calls, CreateRecord(c)
      PROVE  Once'
  <2>1. OnlyCall(c)
    BY <1>3, ContinueTyped DEF Continue
  <2>2. call'[c].pc = "insertTasks"
    BY <1>3, <1>t DEF CreateRecord, CallRecord
  <2>3. c \in Initiating /\ At(c, "createRecord")
    BY <1>3 DEF CreateRecord, Initiating, At
  <2>4. Initiating' \subseteq Initiating
    BY <2>1, <2>3 DEF OnlyCall, Initiating
  <2>5. \A r \in Records : InTable(r)' => InTable(r) \/ r = NextRecord
    BY <1>3, <1>t DEF CreateRecord, InTable
  <2>6. UNCHANGED <<status, overlap, left, exposed, rehired>>
    BY <1>3 DEF CreateRecord
  <2>7. \A d \in Calls : At(d, "createRecord")' => d \in Initiating /\ d # c
    BY <2>1, <2>2 DEF OnlyCall, At, Initiating
  <2>8. overlap' \/ OneAtATime'
    BY <2>3, <2>4, <2>5, <2>6, <2>7 DEF Once, OneAtATime
  <2>9. QED
    BY <2>3, <2>6, <2>8 DEF Once, GoneForGood
<1>4. CASE Depart
  <2>1. "departed" \in Employment \cup {Unsent}
    BY DEF Employment
  <2>2. NobodyActivated
    BY <1>4, <2>1 DEF Depart, NobodyActivated
  <2>3. Quiet
    BY <1>4, <2>2 DEF Depart, Quiet, NoRecordMade, Initiating, At, InTable
  <2>4. QED
    BY <2>3, QuietKeeps
<1>5. CASE Crash
  <2>1. \A c \in Calls : call'[c].pc = "idle"
    BY <1>5 DEF Crash, NoCall
  <2>2. Quiet
    BY <1>5, <2>1 DEF Crash, Quiet, NoRecordMade, NobodyActivated, Initiating, At, InTable
  <2>3. QED
    BY <2>2, QuietKeeps
<1>6. CASE UNCHANGED vars
  <2>1. Quiet
    BY <1>6 DEF vars, Quiet, NoRecordMade, NobodyActivated, Initiating, At, InTable
  <2>2. QED
    BY <2>1, QuietKeeps
<1>7. QED
  BY <1>1, <1>2, <1>3, <1>4, <1>5, <1>6, StartQuiet, ContinueQuiet, QuietKeeps DEF Next

\* An employee has two onboardings only if two initiations overlapped, and one
\* who departed is active again only through an onboarding that was there or
\* under way when they last did, or once HR has edited their status
\* (OnboardingService.ts initiateOnboarding, EmployeeService.ts update).
THEOREM NoSecondOnboarding == Spec => []OnboardedOnce
<1>1. Init => Once
  <2> SUFFICES ASSUME Init PROVE Once
    OBVIOUS
  <2>1. Initiating = {} /\ \A c \in Calls : ~At(c, "createRecord")
    BY DEF Init, Initiating, NoCall, At
  <2>2. \A r \in Records : ~InTable(r)
    BY DEF Init, InTable
  <2>3. QED
    BY <2>1, <2>2 DEF Init, Once, OneAtATime
<1>2. Once => OnboardedOnce
  BY DEF Once, OneAtATime, GoneForGood, OnboardedOnce
<1>3. QED
  BY <1>1, <1>2, InitTyped, NextTyped, OnceKept, PTL DEF Spec

-----------------------------------------------------------------------------
(* LoginFollows.                                                           *)

MailLabels == {"setEmail", "editWrite", "syncRead", "syncWrite"}
WritesMail(k) == k.pc \in {"setEmail", "syncRead", "syncWrite"} \/ (k.pc = "editWrite" /\ k.mail # Unsent)

\* What holds for a call whose writes of addresses no other call overlaps.
Straight(c) ==
  /\ call[c].pc \in {"syncRead", "syncWrite"} => work = call[c].mail
  /\ call[c].pc = "editWrite" /\ call[c].st = "same" => work = call[c].mail
  /\ call[c].pc \in {"setEmail", "editWrite"} /\ ~split => login = work

\* When nobody writes addresses the two agree, unless a write went wrong; and
\* a call that is alone is the only one that writes them.
Addressed ==
  /\ MailCalls = {} /\ ~split => login = work
  /\ \A c \in alone : MailCalls = {c} /\ Straight(c)

\* A step of a call that writes no address.
LEMMA AddressedUntouched ==
  ASSUME Addressed, NEW c \in Calls, OnlyCall(c), ~WritesMail(call[c]), ~WritesMail(call'[c]),
         UNCHANGED <<work, login, alone, split>>
  PROVE  Addressed'
<1>1. MailCalls' = MailCalls /\ c \notin MailCalls
  BY DEF OnlyCall, MailCalls, At, WritesMail
<1>2. \A d \in MailCalls : call'[d] = call[d]
  BY <1>1 DEF OnlyCall, MailCalls
<1>3. \A d \in alone : Straight(d)'
  BY <1>2 DEF Addressed, Straight
<1>4. QED
  BY <1>1, <1>3 DEF Addressed

\* A call that begins to write addresses.
LEMMA AddressedBegins ==
  ASSUME Addressed, NEW c \in Calls, OnlyCall(c), call[c].pc \notin MailLabels,
         call'[c].pc \in {"setEmail", "editWrite"}, call'[c].mail # Unsent, call'[c].st = "same" => work = call'[c].mail,
         MailBegins(c), UNCHANGED <<work, login>>
  PROVE  Addressed'
<1>1. MailCalls' = MailCalls \cup {c}
  BY DEF OnlyCall, MailCalls, At
<1>2. MailCalls = {} => Straight(c)'
  BY DEF Addressed, Straight, MailBegins
<1>3. QED
  BY <1>1, <1>2 DEF Addressed, MailBegins

\* One that goes on to the next statement.
LEMMA AddressedGoesOn ==
  ASSUME Addressed, NEW c \in Calls, OnlyCall(c), WritesMail(call[c]), WritesMail(call'[c]),
         UNCHANGED mailing, c \in alone => Straight(c)'
  PROVE  Addressed'
<1>1. MailCalls' = MailCalls /\ c \in MailCalls
  BY DEF OnlyCall, MailCalls, At, WritesMail
<1>2. QED
  BY <1>1 DEF Addressed, mailing

\* One that ends.
LEMMA AddressedEnds ==
  ASSUME Addressed, NEW c \in Calls, OnlyCall(c), WritesMail(call[c]), call'[c].pc \notin MailLabels,
         alone' = alone \ {c}, ~split' => c \in alone /\ login' = work'
  PROVE  Addressed'
<1>1. c \in MailCalls
  BY DEF MailCalls, At, WritesMail
<1>2. alone' = {}
  BY <1>1 DEF Addressed
<1>3. QED
  BY <1>2 DEF Addressed

\* A call that starts.
LEMMA StartAddressed ==
  ASSUME WellTyped, NEW c \in Calls, Start(c), Addressed
  PROVE  Addressed'
<1> USE DEF person, mailing
<1>c. OnlyCall(c)
  BY StartTyped
<1>t. call \in [Calls -> CallRecord]
  BY DEF WellTyped, TypeOK
<1>0. ASSUME NEW x, x.pc \notin MailLabels, Begin(c, x), UNCHANGED <<work, login, alone, split>>
      PROVE  Addressed'
  <2>1. call[c].pc = "idle" /\ call'[c] = x
    BY <1>0, <1>t DEF Begin, At
  <2>2. QED
    BY <1>0, <1>c, <2>1, AddressedUntouched DEF MailLabels, WritesMail
<1>1. ASSUME NEW items \in {Template, {}}, InitiateStart(c, items)
      PROVE  Addressed'
  BY <1>0, <1>1 DEF InitiateStart, NoCall, MailLabels
<1>2. ASSUME NEW e \in Edited, EditStart(c, e[1], e[2])
      PROVE  Addressed'
  <2> DEFINE m == e[1]
  <2>1. /\ call'[c].pc = "editWrite" /\ call'[c].mail = m
        /\ call'[c].st = "same" => m \in {work, Unsent}
    BY <1>2, <1>t DEF EditStart, Begin, NoCall
  <2>2. /\ call[c].pc = "idle" /\ UNCHANGED <<work, login>>
        /\ IF m = Unsent THEN UNCHANGED mailing ELSE MailBegins(c)
    BY <1>2 DEF EditStart, Begin, At
  <2> HIDE DEF m
  <2>3. CASE m = Unsent
    BY <1>c, <2>1, <2>2, <2>3, AddressedUntouched DEF WritesMail
  <2>4. CASE m # Unsent
    BY <1>c, <2>1, <2>2, <2>4, AddressedBegins DEF MailLabels
  <2>5. QED
    BY <2>3, <2>4
<1>3. ASSUME NEW r \in Records, NEW st \in {"in_progress", "completed"}, UpdateStart(c, r, st)
      PROVE  Addressed'
  BY <1>0, <1>3 DEF UpdateStart, NoCall, MailLabels
<1>4. ASSUME NEW r \in Records, ReopenStart(c, r)
      PROVE  Addressed'
  BY <1>0, <1>4 DEF ReopenStart, NoCall, MailLabels
<1>5. ASSUME NEW r \in Records, DeleteStart(c, r)
      PROVE  Addressed'
  BY <1>0, <1>5 DEF DeleteStart, NoCall, MailLabels
<1>6. ASSUME NEW r \in Records, NEW k \in Items, AddStart(c, r, k)
      PROVE  Addressed'
  BY <1>0, <1>6 DEF AddStart, NoCall, MailLabels
<1>7. ASSUME NEW r \in Records, NEW k \in Items, DeleteTask(c, r, k)
      PROVE  Addressed'
  BY <1>7, <1>c, AddressedUntouched DEF DeleteTask, At, WritesMail
<1>8. ASSUME NEW r \in Records, NEW k \in Items, NEW tick \in {"open", "done", Unsent}, NEW sent \in Sent(k),
             TaskStart(c, r, k, tick, sent)
      PROVE  Addressed'
  BY <1>0, <1>8 DEF TaskStart, NoCall, MailLabels
<1>9. QED
  BY <1>1, <1>2, <1>3, <1>4, <1>5, <1>6, <1>7, <1>8 DEF Start

\* A call that goes on.
LEMMA ContinueAddressed ==
  ASSUME WellTyped, NEW c \in Calls, Continue(c), Addressed
  PROVE  Addressed'
<1> USE DEF person, mailing
<1>c. OnlyCall(c)
  BY ContinueTyped
<1>t. call \in [Calls -> CallRecord] /\ call[c] \in CallRecord /\ split \in BOOLEAN
  BY DEF WellTyped, TypeOK
<1>v. Return(c) => call'[c] = NoCall /\ call'[c].pc = "idle"
  BY <1>t DEF Return, NoCall
<1>g. ASSUME NEW l \in Labels, Goto(c, l)
      PROVE  call'[c].pc = l /\ call'[c].mail = call[c].mail /\ call'[c].st = call[c].st
  BY <1>g, <1>t DEF Goto, CallRecord
<1>0. ASSUME call[c].pc \notin MailLabels, call'[c].pc \notin MailLabels, UNCHANGED <<work, login, alone, split>>
      PROVE  Addressed'
  BY <1>0, <1>c, AddressedUntouched DEF MailLabels, WritesMail
<1>1. CASE FindExisting(c)
  BY <1>0, <1>1, <1>v, <1>g DEF FindExisting, At, Labels, MailLabels
<1>2. CASE CreateRecord(c)
  BY <1>0, <1>2, <1>t DEF CreateRecord, At, CallRecord, MailLabels
<1>3. CASE InsertTasks(c)
  <2>1. call'[c].pc \in {"idle", "insertTasks"}
    BY <1>3, <1>t, <1>v DEF InsertTasks, At, CallRecord
  <2>2. QED
    BY <1>0, <1>3, <2>1 DEF InsertTasks, At, MailLabels
<1>4. CASE SetStatus(c)
  BY <1>0, <1>4, <1>v, <1>g DEF SetStatus, At, Labels, MailLabels
<1>5. CASE Activate(c)
  BY <1>0, <1>5, <1>v DEF Activate, At, MailLabels
<1>6. CASE DeleteRecord(c)
  BY <1>0, <1>6, <1>v DEF DeleteRecord, At, MailLabels
<1>7. CASE AddReopen(c)
  BY <1>0, <1>7, <1>g DEF AddReopen, At, Labels, MailLabels
<1>8. CASE AddInsert(c)
  BY <1>0, <1>8, <1>v DEF AddInsert, At, MailLabels
<1>9. CASE WriteTask(c)
  <2>1. CASE Return(c) /\ UNCHANGED mailing
    BY <1>0, <1>9, <1>v, <2>1 DEF WriteTask, At, MailLabels
  <2>2. CASE MailBegins(c) /\ call'[c].pc = "setEmail" /\ call'[c].st = "none" /\ call'[c].mail \in Addresses
    BY <1>9, <1>c, <2>2, OnboardingAssumption, AddressedBegins DEF WriteTask, At, MailLabels
  <2>3. QED
    BY <1>9, <1>t, <2>1, <2>2 DEF WriteTask, NoCall
<1>10. CASE SetEmail(c)
  <2>1. CASE Return(c) /\ MailUnchanged(c) /\ UNCHANGED work
    <3>1. ~split' => c \in alone /\ login' = work'
      BY <1>10, <2>1 DEF SetEmail, At, MailUnchanged, Addressed, Straight
    <3>2. QED
      BY <1>10, <1>c, <1>v, <2>1, <3>1, AddressedEnds DEF SetEmail, At, MailUnchanged, MailLabels, WritesMail
  <2>2. CASE work' = call[c].mail /\ Goto(c, "syncRead") /\ UNCHANGED mailing
    <3>1. Straight(c)'
      BY <1>g, <2>2 DEF Straight, Labels
    <3>2. QED
      BY <1>10, <1>c, <1>g, <2>2, <3>1, AddressedGoesOn DEF SetEmail, At, Labels, WritesMail
  <2>3. QED
    BY <1>10, <2>1, <2>2 DEF SetEmail
<1>11. CASE EditWrite(c)
  <2>1. CASE call[c].st = "same" /\ call[c].mail = Unsent
    BY <1>11, <1>c, <1>v, <2>1, AddressedUntouched DEF EditWrite, At, WritesMail
  <2>2. CASE call[c].st = "same" /\ call[c].mail # Unsent
    <3>1. Return(c) /\ MailUnchanged(c) /\ work' = call[c].mail
      BY <1>11, <2>2 DEF EditWrite
    <3>2. ~split' => c \in alone /\ login' = work'
      BY <1>11, <2>2, <3>1 DEF EditWrite, At, MailUnchanged, Addressed, Straight
    <3>3. QED
      BY <1>11, <1>c, <1>v, <2>2, <3>1, <3>2, AddressedEnds DEF EditWrite, At, MailUnchanged, MailLabels, WritesMail
  <2>3. CASE call[c].st = "new" /\ Goto(c, "syncRead") /\ UNCHANGED mailing
    <3>1. call[c].mail # Unsent
      BY <1>11, <2>3, OnboardingAssumption DEF EditWrite, At, WellTyped, Argued
    <3>2. Straight(c)'
      BY <1>11, <1>g, <2>3, <3>1 DEF EditWrite, Straight, Labels
    <3>3. QED
      BY <1>11, <1>c, <1>g, <2>3, <3>1, <3>2, AddressedGoesOn DEF EditWrite, At, Labels, WritesMail
  <2>4. QED
    BY <1>11, <2>1, <2>2, <2>3 DEF EditWrite
<1>12. CASE SyncRead(c)
  <2>1. CASE login = call[c].mail /\ Return(c) /\ MailEnds(c)
    <3>1. ~split' => c \in alone /\ login' = work'
      BY <1>12, <2>1 DEF SyncRead, At, MailEnds, Addressed, Straight
    <3>2. QED
      BY <1>12, <1>c, <1>v, <2>1, <3>1, AddressedEnds DEF SyncRead, At, MailEnds, MailLabels, WritesMail
  <2>2. CASE Return(c) /\ MailFails(c)
    BY <1>12, <1>c, <1>v, <2>2, AddressedEnds DEF SyncRead, At, MailFails, MailLabels, WritesMail
  <2>3. CASE Goto(c, "syncWrite") /\ UNCHANGED mailing
    <3>1. c \in alone => Straight(c)'
      BY <1>12, <1>g, <2>3 DEF SyncRead, At, Addressed, Straight, Labels
    <3>2. QED
      BY <1>12, <1>c, <1>g, <2>3, <3>1, AddressedGoesOn DEF SyncRead, At, Labels, WritesMail
  <2>4. QED
    BY <1>12, <2>1, <2>2, <2>3 DEF SyncRead
<1>13. CASE SyncWrite(c)
  <2>1. ~split' => c \in alone /\ login' = work'
    BY <1>13 DEF SyncWrite, At, MailEnds, Addressed, Straight
  <2>2. QED
    BY <1>13, <1>c, <1>v, <2>1, AddressedEnds DEF SyncWrite, At, MailEnds, MailLabels, WritesMail
<1>14. QED
  BY <1>1, <1>2, <1>3, <1>4, <1>5, <1>6, <1>7, <1>8, <1>9, <1>10, <1>11, <1>12, <1>13 DEF Continue

\* Every step keeps Addressed.
LEMMA AddressedKept ==
  ASSUME WellTyped, [Next]_vars, Addressed
  PROVE  Addressed'
<1> USE DEF person, mailing
<1>1. CASE Crash
  <2>1. MailCalls' = {}
    BY <1>1 DEF Crash, MailCalls, NoCall
  <2>2. MailCalls = {} => login' = work' \/ split'
    BY <1>1 DEF Crash, Addressed
  <2>3. MailCalls # {} => split'
    BY <1>1 DEF Crash
  <2>4. alone' = {}
    BY <1>1 DEF Crash
  <2>5. QED
    BY <2>1, <2>2, <2>3, <2>4 DEF Addressed
<1>2. ASSUME UNCHANGED <<work, login, call, alone, split>>
      PROVE  Addressed'
  BY <1>2 DEF Addressed, Straight, MailCalls, At
<1>3. Depart \/ UNCHANGED vars => UNCHANGED <<work, login, call, alone, split>>
  BY DEF Depart, vars
<1>4. QED
  BY <1>1, <1>2, <1>3, StartAddressed, ContinueAddressed DEF Next

\* The employee signs in with their work address, unless writes of it overlapped,
\* another login has the address or the server died between the two writes
\* (EmployeeService.ts updateEmployee, AuthRepository.ts syncUserEmailForEmployee).
THEOREM LoginsFollow == Spec => []LoginFollows
<1>1. Init => Addressed
  BY DEF Init, Addressed
<1>2. Addressed => LoginFollows
  BY DEF Addressed, LoginFollows
<1>3. QED
  BY <1>1, <1>2, InitTyped, NextTyped, AddressedKept, PTL DEF Spec
=============================================================================
