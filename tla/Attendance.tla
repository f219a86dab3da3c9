----------------------------- MODULE Attendance -----------------------------
(***************************************************************************)
(* AttendanceService: the attendance rows of an employee, written by their *)
(* own check-ins and check-outs, by HR (manual entry, edit, soft deletion, *)
(* restoration), by the sweep that closes forgotten rows, and by the leave *)
(* system, each a handler of several statements.  A partial unique index   *)
(* allows one row per date that is not deleted.  The employee is employed  *)
(* throughout; remarks, the plain audit (attendance_audit) and regions are *)
(* left out, and live stands for whatever policy is in effect, the         *)
(* organisation's or that of an assigned shift.  asText is the driver's    *)
(* doing (external): whether a DATE column arrives as text; the code has   *)
(* it that it may be a Date.                                               *)
(***************************************************************************)
EXTENDS AttendancePolicy, FiniteSets

CONSTANTS
  Dates,       \* the dates that attendance is recorded for
  MaxRows,     \* bound: rows ever made
  MaxTime,     \* bound: the clock
  Typed,       \* bound: the check-in and check-out HR enters for a date, as pairs
  Corrected,   \* bound: those HR puts into a row
  LeaveKinds,  \* bound: the kinds of leave approved
  Buffer,      \* auto_checkout_buffer_minutes, in units
  SweepLimit,  \* the rows one sweep lists
  MaxStarts,   \* bound: calls, sweeps aside, ever made, and statements of a sweep that throw
  Calls,       \* bound: calls in progress at a time
  Endpoints    \* the endpoints the environment calls

Times == Nat \cup {None}
NoPolicy == "no policy"

ASSUME AttendanceAssumption ==
  /\ Dates \subseteq Nat
  /\ MaxRows \in Nat /\ MaxTime \in Nat /\ Buffer \in Nat /\ MaxStarts \in Nat
  /\ Typed \cup Corrected \subseteq Times \X Times
  /\ LeaveKinds \subseteq {"full", "half"}
  /\ SweepLimit \in Nat \ {0}
  /\ Calls \cap {"yes", "other"} = {}
  /\ NoPolicy \notin Policies

Ids == 1..MaxRows
Leaves == {"none", "full", "half"}

VARIABLES
  now,      \* the clock
  live,     \* the policy in effect
  leave,    \* the approved leave of each date
  row,      \* attendance_records
  audited,  \* history: who wrote each row last and has not logged it yet; "yes" if it was logged
  call,     \* the calls in progress
  started,  \* how many were started, or threw, of MaxStarts
  asText    \* DATE columns arrive as text; never changes

vars == <<now, live, leave, row, audited, call, started, asText>>

NoRow == [st |-> "none", date |-> 0, in |-> None, out |-> None, status |-> "present", snap |-> NoPolicy,
          auto |-> FALSE, missed |-> FALSE, byLeave |-> FALSE, edited |-> FALSE]

Exists(i) == row[i].st \in {"live", "deleted"}
Live(i) == row[i].st = "live"
LiveOn(d) == {i \in Ids : Live(i) /\ row[i].date = d}
NextId == 1 + Cardinality({i \in Ids : row[i].st # "none"})
Open(i) == Live(i) /\ row[i].in # None /\ row[i].out = None

\* attendancePolicyFromSnapshot.
Merged(snap, p) == IF snap = NoPolicy THEN p ELSE snap

NoCall == [pc |-> "idle", i |-> 0, date |-> 0, t |-> 0, p |-> NoPolicy, leave |-> "none", in |-> None,
           out |-> None, old |-> [in |-> None, out |-> None], rows |-> {}, found |-> FALSE]

Labels == {"idle", "inLeave", "inInsert", "outPrev", "outBefore", "outUpdate", "manFind", "manWrite",
           "updLeave", "updWrite", "delWrite", "restWrite", "audit", "syncFind", "syncWrite", "unsync",
           "sweep", "sweepBefore", "sweepUpdate", "sweepAudit"}

At(c, label) == call[c].pc = label
Begin(c, rec) == At(c, "idle") /\ call' = [call EXCEPT ![c] = rec]
Goto(c, label) == call' = [call EXCEPT ![c].pc = label]
Return(c) == call' = [call EXCEPT ![c] = NoCall]

Init ==
  /\ now = 0
  /\ live \in Policies
  /\ leave = [d \in Dates |-> "none"]
  /\ row = [i \in Ids |-> NoRow]
  /\ audited = [i \in Ids |-> "yes"]
  /\ call = [c \in Calls |-> NoCall]
  /\ started = 0
  /\ asText \in BOOLEAN

\* A statement of call c that writes row i, to be logged by c.
Write(c, i, r) == row' = [row EXCEPT ![i] = r] /\ audited' = [audited EXCEPT ![i] = c]
ThenAudit(c, i) == call' = [call EXCEPT ![c] = [NoCall EXCEPT !.pc = "audit", !.i = i]]

\* appendLegalAudit.
AuditOf(c, i) == audited' = [audited EXCEPT ![i] = IF @ = c THEN "yes" ELSE @]

Audit(c) ==
  /\ At(c, "audit")
  /\ AuditOf(c, call[c].i)
  /\ Return(c)
  /\ UNCHANGED <<now, live, leave, row>>

\* A check-out that matched no row is logged with an empty new value.
Missed(c) == Return(c) /\ UNCHANGED <<row, audited>>

-----------------------------------------------------------------------------
(* checkIn. *)

CheckInStart(c) ==
  /\ WorkDate(now) \in Dates
  /\ CheckInWithinAllowedWindow(now, WorkDate(now), live)
  /\ Begin(c, [NoCall EXCEPT !.pc = "inLeave", !.t = now, !.date = WorkDate(now), !.p = live])
  /\ UNCHANGED <<now, live, leave, row, audited>>

\* A full day of leave refuses the check-in.
CheckInLeave(c) ==
  LET l == leave[call[c].date] IN
  /\ At(c, "inLeave")
  /\ IF l = "full" THEN Return(c) ELSE call' = [call EXCEPT ![c].pc = "inInsert", ![c].leave = l]
  /\ UNCHANGED <<now, live, leave, row, audited>>

\* checkInTransactional: ON CONFLICT (employee_id, date) DO NOTHING.
CheckInInsert(c) ==
  LET k == call[c] IN
  /\ At(c, "inInsert")
  /\ IF LiveOn(k.date) # {} THEN Missed(c)
     ELSE /\ NextId \in Ids
          /\ Write(c, NextId, [NoRow EXCEPT !.st = "live", !.date = k.date, !.in = k.t, !.snap = k.p,
                                            !.status = DeriveStatus(k.t, None, k.p, k.leave)])
          /\ ThenAudit(c, NextId)
  /\ UNCHANGED <<now, live, leave>>

-----------------------------------------------------------------------------
(* checkOut. *)

\* The row of a date, as getTodayRecord reads it: 0 when there is none.
Today(d) == IF LiveOn(d) = {} THEN 0 ELSE CHOOSE i \in LiveOn(d) : TRUE

\* What is found must have a check-in and no check-out.
CheckOutOf(c, i, rec) ==
  IF i # 0 /\ Open(i)
    THEN call' = [call EXCEPT ![c] = [rec EXCEPT !.pc = "outBefore", !.i = i, !.in = row[i].in,
                                                !.p = Merged(row[i].snap, rec.p)]]
    ELSE Return(c)

HasCheckIn(i) == i # 0 /\ row[i].in # None

CheckOutStart(c) ==
  LET d == WorkDate(now)  i == Today(d)
      rec == [NoCall EXCEPT !.pc = "outPrev", !.t = now, !.date = d - 1, !.p = live]
  IN /\ At(c, "idle")
     /\ IF ~HasCheckIn(i) /\ IsOvernightShift(live)
          THEN call' = [call EXCEPT ![c] = rec]
          ELSE HasCheckIn(i) /\ Open(i) /\ CheckOutOf(c, i, [rec EXCEPT !.date = 0])
     /\ UNCHANGED <<now, live, leave, row, audited>>

\* On an overnight shift the row may be that of the day before.
CheckOutPrevious(c) ==
  /\ At(c, "outPrev")
  /\ CheckOutOf(c, Today(call[c].date), [call[c] EXCEPT !.date = 0])
  /\ UNCHANGED <<now, live, leave, row, audited>>

\* The approved leave of a date; then getRecordById, as the row may be deleted
\* by now, and the leave of the check-in's date.
LeaveOn(d) == IF d \in Dates THEN leave[d] ELSE "none"

CheckOutBefore(c) ==
  /\ At(c, "outBefore")
  /\ IF Live(call[c].i)
       THEN call' = [call EXCEPT ![c].pc = "outUpdate", ![c].leave = LeaveOn(WorkDate(call[c].in))]
       ELSE Return(c)
  /\ UNCHANGED <<now, live, leave, row, audited>>

\* updateCheckOut: UPDATE ... WHERE id AND deleted_at IS NULL.
Closed(i, t, status, auto) ==
  [row[i] EXCEPT !.out = t, !.status = status, !.auto = auto, !.missed = auto]

CheckOutUpdate(c) ==
  LET k == call[c] IN
  /\ At(c, "outUpdate")
  /\ IF Live(k.i)
       THEN /\ Write(c, k.i, Closed(k.i, k.t, DeriveStatus(k.in, k.t, k.p, k.leave), FALSE))
            /\ ThenAudit(c, k.i)
       ELSE Missed(c)
  /\ UNCHANGED <<now, live, leave>>

-----------------------------------------------------------------------------
(* manualUpsert, updateRecord, deleteRecord and restoreAttendanceRecord. *)

ManualStart(c, d, in, out) ==
  /\ Begin(c, [NoCall EXCEPT !.pc = "manFind", !.date = d, !.in = in, !.out = out, !.p = live, !.leave = leave[d]])
  /\ UNCHANGED <<now, live, leave, row, audited>>

ManualFind(c) ==
  /\ At(c, "manFind")
  /\ call' = [call EXCEPT ![c].pc = "manWrite", ![c].i = Today(call[c].date)]
  /\ UNCHANGED <<now, live, leave, row, audited>>

\* With a check-in the status is derived and the policy frozen anew; without
\* one the status is HR's.
Manual(r, k) ==
  [r EXCEPT !.in = k.in, !.out = k.out, !.edited = TRUE,
            !.status = IF k.in # None THEN DeriveStatus(k.in, k.out, k.p, k.leave) ELSE "present",
            !.snap = IF k.in # None THEN k.p ELSE @]

\* The UPDATE asks for the id only: a row deleted meanwhile is written too.
\* The INSERT is refused by the unique index if a row was made meanwhile.
ManualWrite(c) ==
  LET k == call[c] IN
  /\ At(c, "manWrite")
  /\ \/ /\ k.i # 0 /\ Exists(k.i)
        /\ Write(c, k.i, Manual(row[k.i], k)) /\ ThenAudit(c, k.i)
     \/ /\ k.i = 0 /\ LiveOn(k.date) = {} /\ NextId \in Ids
        /\ Write(c, NextId, Manual([NoRow EXCEPT !.st = "live", !.date = k.date], k)) /\ ThenAudit(c, NextId)
     \/ /\ IF k.i # 0 THEN ~Exists(k.i) ELSE LiveOn(k.date) # {}
        /\ Missed(c)
  /\ UNCHANGED <<now, live, leave>>

\* The row is read; what HR did not type is taken from it.
UpdateStart(c, i, in, out) ==
  /\ Live(i)
  /\ Begin(c, [NoCall EXCEPT !.pc = "updLeave", !.i = i, !.in = in, !.out = out, !.p = Merged(row[i].snap, live),
                             !.old = [in |-> row[i].in, out |-> row[i].out], !.date = row[i].date])
  /\ UNCHANGED <<now, live, leave, row, audited>>

Coalesce(a, b) == IF a # None THEN a ELSE b

\* Without a check-in the date is the row's, and what String makes of a Date is
\* no date to the database: the holiday query throws.
UpdateLeave(c) ==
  LET k == call[c]  in == Coalesce(k.in, k.old.in) IN
  /\ At(c, "updLeave")
  /\ IF in = None /\ ~asText THEN Return(c)
     ELSE call' = [call EXCEPT ![c].pc = "updWrite", ![c].date = 0,
                               ![c].leave = LeaveOn(IF in = None THEN k.date ELSE WorkDate(in))]
  /\ UNCHANGED <<now, live, leave, row, audited>>

\* The columns COALESCE with what the row holds now, the status with what it held.
UpdateWrite(c) ==
  LET k == call[c]  in == Coalesce(k.in, k.old.in)  out == Coalesce(k.out, k.old.out) IN
  /\ At(c, "updWrite")
  /\ IF Live(k.i)
       THEN /\ Write(c, k.i, [row[k.i] EXCEPT
                 !.in = Coalesce(k.in, @), !.out = Coalesce(k.out, @), !.missed = FALSE, !.edited = TRUE,
                 !.status = IF in = None THEN "absent" ELSE DeriveStatus(in, out, k.p, k.leave)])
            /\ ThenAudit(c, k.i)
       ELSE Missed(c)
  /\ UNCHANGED <<now, live, leave>>

DeleteStart(c, i) ==
  /\ Live(i)
  /\ Begin(c, [NoCall EXCEPT !.pc = "delWrite", !.i = i])
  /\ UNCHANGED <<now, live, leave, row, audited>>

DeleteWrite(c) ==
  LET i == call[c].i IN
  /\ At(c, "delWrite")
  /\ IF Live(i) THEN Write(c, i, [row[i] EXCEPT !.st = "deleted"]) /\ ThenAudit(c, i) ELSE Missed(c)
  /\ UNCHANGED <<now, live, leave>>

RestoreStart(c, i) ==
  /\ row[i].st = "deleted"
  /\ Begin(c, [NoCall EXCEPT !.pc = "restWrite", !.i = i])
  /\ UNCHANGED <<now, live, leave, row, audited>>

\* The unique index refuses a second live row of the date.
RestoreWrite(c) ==
  LET i == call[c].i IN
  /\ At(c, "restWrite")
  /\ IF row[i].st = "deleted" /\ LiveOn(row[i].date) = {}
       THEN Write(c, i, [row[i] EXCEPT !.st = "live"]) /\ ThenAudit(c, i)
       ELSE Missed(c)
  /\ UNCHANGED <<now, live, leave>>

-----------------------------------------------------------------------------
(* The leave system: an approval marks the date and upserts its row, a     *)
(* reversal deletes the row if it was made for the leave and has no punch. *)

LeaveApproved(c, d, l) ==
  /\ leave[d] = "none"
  /\ leave' = [leave EXCEPT ![d] = l]
  /\ Begin(c, [NoCall EXCEPT !.pc = "syncFind", !.date = d, !.leave = l])
  /\ UNCHANGED <<now, live, row, audited>>

\* getAttendanceRecord does not ask whether the row is deleted.
SyncFind(c) ==
  LET found == {i \in Ids : Exists(i) /\ row[i].date = call[c].date} IN
  /\ At(c, "syncFind")
  /\ \E i \in IF found = {} THEN {0} ELSE found : call' = [call EXCEPT ![c].pc = "syncWrite", ![c].i = i]
  /\ UNCHANGED <<now, live, leave, row, audited>>

SyncWrite(c) ==
  LET k == call[c]  status == IF k.leave = "half" THEN "half_day" ELSE "absent"
      Put(i, r) == row' = [row EXCEPT ![i] = r] /\ audited' = [audited EXCEPT ![i] = "other"]
  IN /\ At(c, "syncWrite")
     /\ \/ k.i # 0 /\ Exists(k.i) /\ Put(k.i, [row[k.i] EXCEPT !.status = status])
        \/ /\ k.i = 0 /\ LiveOn(k.date) = {} /\ NextId \in Ids
           /\ Put(NextId, [NoRow EXCEPT !.st = "live", !.date = k.date, !.status = status, !.byLeave = TRUE])
        \/ (IF k.i # 0 THEN ~Exists(k.i) ELSE LiveOn(k.date) # {}) /\ UNCHANGED <<row, audited>>
     /\ Return(c)
     /\ UNCHANGED <<now, live, leave>>

LeaveReversed(c, d) ==
  /\ leave[d] # "none"
  /\ leave' = [leave EXCEPT ![d] = "none"]
  /\ Begin(c, [NoCall EXCEPT !.pc = "unsync", !.date = d])
  /\ UNCHANGED <<now, live, row, audited>>

Unsync(c) ==
  LET gone == {i \in Ids : Exists(i) /\ row[i].date = call[c].date /\ row[i].in = None /\ row[i].byLeave} IN
  /\ At(c, "unsync")
  /\ row' = [i \in Ids |-> IF i \in gone THEN [NoRow EXCEPT !.st = "gone"] ELSE row[i]]
  /\ audited' = [i \in Ids |-> IF i \in gone THEN "yes" ELSE audited[i]]
  /\ Return(c)
  /\ UNCHANGED <<now, live, leave>>

-----------------------------------------------------------------------------
(* runAutoCheckoutSweep. *)

Sweeping == \E c \in Calls : call[c].pc \in {"sweep", "sweepBefore", "sweepUpdate", "sweepAudit"}

\* Mutant: only rows of the current date are listed.
ListedToday(I) ==
  /\ I \subseteq {i \in Ids : Open(i) /\ row[i].date = WorkDate(now)}
  /\ Cardinality(I) <= SweepLimit

\* listOpenAttendanceRecords: the oldest open check-ins, at most SweepLimit.
Listed(I) ==
  LET open == {i \in Ids : Open(i)} IN
  /\ I \subseteq open
  /\ Cardinality(I) = IF Cardinality(open) < SweepLimit THEN Cardinality(open) ELSE SweepLimit
  /\ \A i \in I, j \in open \ I : row[i].in <= row[j].in

\* Whoever calls it runs one sweep after the other (bound).
SweepStart(c) ==
  /\ ~Sweeping
  /\ \E I \in SUBSET Ids :
       /\ I # {} /\ Listed(I)
       /\ Begin(c, [NoCall EXCEPT !.pc = "sweep", !.t = now,
            !.rows = {[i |-> i, in |-> row[i].in, p |-> Merged(row[i].snap, live), date |-> row[i].date] : i \in I}])
  /\ UNCHANGED <<now, live, leave, row, audited>>

\* On to the next row, or the end.
SweepNext(c) ==
  call' = [call EXCEPT ![c] = IF @.rows = {} THEN NoCall
                              ELSE [NoCall EXCEPT !.pc = "sweep", !.t = call[c].t, !.rows = call[c].rows]]

\* The next row: left alone while its shift and the buffer are not over.  Its
\* date must be text, or the holiday query throws, which ends the sweep.
SweepRow(c) ==
  LET k == call[c] IN
  /\ At(c, "sweep")
  /\ \E r \in k.rows :
       LET rest == k.rows \ {r} IN
       /\ \A s \in rest : r.in <= s.in
       /\ IF ~asText THEN Return(c) ELSE call' = [call EXCEPT ![c] =
            IF k.t > WindowEnd(r.date, r.p) + Buffer
              THEN [k EXCEPT !.pc = "sweepBefore", !.i = r.i, !.in = r.in, !.out = WindowEnd(r.date, r.p),
                             !.p = r.p, !.leave = LeaveOn(r.date), !.rows = rest]
              ELSE IF rest = {} THEN NoCall ELSE [k EXCEPT !.rows = rest]]
  /\ UNCHANGED <<now, live, leave, row, audited>>

\* getRecordById: what the log will show as the old value, if the row is live.
SweepBefore(c) ==
  /\ At(c, "sweepBefore")
  /\ call' = [call EXCEPT ![c].pc = "sweepUpdate", ![c].found = Live(call[c].i)]
  /\ UNCHANGED <<now, live, leave, row, audited>>

\* Mutant: the sweep logs nothing.
SweepUpdateUnlogged(c) ==
  LET k == call[c] IN
  /\ At(c, "sweepUpdate")
  /\ IF Live(k.i)
       THEN Write(c, k.i, Closed(k.i, k.out, DeriveAutoCheckoutClosingStatus(k.in, k.out, k.p, k.leave), TRUE))
       ELSE UNCHANGED <<row, audited>>
  /\ SweepNext(c)
  /\ UNCHANGED <<now, live, leave>>

\* updateCheckOut, whatever check-out the row has by now; a row that was not
\* live a moment ago but is now (restored in between) is closed without a log.
SweepUpdate(c) ==
  LET k == call[c] IN
  /\ At(c, "sweepUpdate")
  /\ IF Live(k.i)
       THEN /\ row' = [row EXCEPT ![k.i] =
                 Closed(k.i, k.out, DeriveAutoCheckoutClosingStatus(k.in, k.out, k.p, k.leave), TRUE)]
            /\ audited' = [audited EXCEPT ![k.i] = IF k.found THEN c ELSE "other"]
            /\ IF k.found THEN Goto(c, "sweepAudit") ELSE SweepNext(c)
       ELSE SweepNext(c) /\ UNCHANGED <<row, audited>>
  /\ UNCHANGED <<now, live, leave>>

SweepAudit(c) ==
  /\ At(c, "sweepAudit")
  /\ AuditOf(c, call[c].i)
  /\ SweepNext(c)
  /\ UNCHANGED <<now, live, leave, row>>

\* A statement of the loop throws, which ends the sweep: the rows behind are left
\* to another one, and a row just closed stays without its log entry.
SweepThrows(c) ==
  /\ call[c].pc \in {"sweep", "sweepBefore", "sweepUpdate", "sweepAudit"}
  /\ audited' = IF At(c, "sweepAudit")
                  THEN [audited EXCEPT ![call[c].i] = IF @ = c THEN "other" ELSE @]
                  ELSE audited
  /\ Return(c)
  /\ UNCHANGED <<now, live, leave, row>>

-----------------------------------------------------------------------------
\* A call takes no part of a unit that matters: the clock moves between calls (bound).
Tick ==
  /\ \A c \in Calls : At(c, "idle")
  /\ now < MaxTime /\ now' = now + 1
  /\ UNCHANGED <<live, leave, row, audited, call, started, asText>>

\* updateOrgTimesheetPolicy or assignShift puts another policy in effect.
PolicyChanges(p) ==
  /\ "policy" \in Endpoints /\ started < MaxStarts
  /\ p # live /\ live' = p /\ started' = started + 1
  /\ UNCHANGED <<now, leave, row, audited, call, asText>>

Start(c) ==
  \/ "checkIn" \in Endpoints /\ CheckInStart(c)
  \/ "checkOut" \in Endpoints /\ CheckOutStart(c)
  \/ \E d \in Dates, typed \in Typed : "manual" \in Endpoints /\ ManualStart(c, d, typed[1], typed[2])
  \/ \E i \in Ids, typed \in Corrected : "update" \in Endpoints /\ UpdateStart(c, i, typed[1], typed[2])
  \/ \E i \in Ids : "delete" \in Endpoints /\ (DeleteStart(c, i) \/ RestoreStart(c, i))
  \/ \E d \in Dates, l \in LeaveKinds : "leave" \in Endpoints /\ LeaveApproved(c, d, l)
  \/ \E d \in Dates : "leave" \in Endpoints /\ LeaveReversed(c, d)

Continue(c) ==
  \/ Audit(c)
  \/ CheckInLeave(c) \/ CheckInInsert(c)
  \/ CheckOutPrevious(c) \/ CheckOutBefore(c) \/ CheckOutUpdate(c)
  \/ ManualFind(c) \/ ManualWrite(c) \/ UpdateLeave(c) \/ UpdateWrite(c) \/ DeleteWrite(c) \/ RestoreWrite(c)
  \/ SyncFind(c) \/ SyncWrite(c) \/ Unsync(c)
  \/ SweepRow(c) \/ SweepBefore(c) \/ SweepUpdate(c) \/ SweepAudit(c)

Next ==
  \/ Tick
  \/ \E p \in Policies : PolicyChanges(p)
  \/ \E c \in Calls :
       \/ (Start(c) \/ SweepThrows(c)) /\ started < MaxStarts /\ started' = started + 1 /\ UNCHANGED asText
       \/ (Continue(c) \/ SweepStart(c)) /\ UNCHANGED <<started, asText>>

Spec == Init /\ [][Next]_vars

Sweeps == \E c \in Calls : SweepStart(c) /\ UNCHANGED <<started, asText>>

\* Node runs a handler it has started to its end, and time goes on whatever calls
\* come and go.
Fairness ==
  /\ SF_vars(Tick)
  /\ \A c \in Calls : WF_vars(Continue(c) /\ UNCHANGED <<started, asText>>)

\* An assumption about the outside: somebody calls the sweep again and again.  No
\* job of the server does; the header of jobs/attendanceAutoCheckout.ts asks
\* whoever runs the server to schedule it.
SweptAgain == WF_vars(Sweeps)

FairSpec == Spec /\ Fairness /\ SweptAgain

-----------------------------------------------------------------------------
(* What must hold. *)

Snapshots == [i : Ids, in : Times, p : Policies, date : Nat]

RowRecord ==
  [st : {"none", "live", "deleted", "gone"}, date : Nat, in : Times, out : Times, status : Statuses,
   snap : Policies \cup {NoPolicy}, auto : BOOLEAN, missed : BOOLEAN, byLeave : BOOLEAN, edited : BOOLEAN]

CallRecord ==
  [pc : Labels, i : Ids \cup {0}, date : Int, t : Nat, p : Policies \cup {NoPolicy}, leave : Leaves, in : Times,
   out : Times, old : [in : Times, out : Times], rows : SUBSET Snapshots, found : BOOLEAN]

\* The tables and the calls in progress hold values of their types.
TypeOK ==
  /\ now \in Nat
  /\ live \in Policies
  /\ leave \in [Dates -> Leaves]
  /\ row \in [Ids -> RowRecord]
  /\ audited \in [Ids -> Calls \cup {"yes", "other"}]
  /\ call \in [Calls -> CallRecord]
  /\ started \in Nat /\ asText \in BOOLEAN

\* The legal audit is complete: whatever check-ins, check-outs, edits,
\* deletions and sweeps race for a row, its last change is logged or about to
\* be.  Apart are what the leave system writes, which is not logged here, a row
\* the sweep closed right after its restoration, and one whose log entry threw
\* (AttendanceService.ts appendLegalAudit and its callers).
AuditCovers ==
  \A i \in Ids : audited[i] \in Calls =>
    call[audited[i]].pc \in {"audit", "sweepAudit"} /\ call[audited[i]].i = i

\* The length of a shift, day or overnight.
ShiftLength(p) ==
  IF WorkDayEnd[p] > WorkDayStart[p] THEN WorkDayEnd[p] - WorkDayStart[p]
  ELSE DayLength - (WorkDayStart[p] - WorkDayEnd[p])

\* A row the sweep closed, and HR did not touch, ends after it began, on day
\* and overnight shifts alike and whatever policy is in effect by then,
\* provided nobody may check in after the shift is over (the code allows an
\* EndOffset of 24 hours; AttendanceService.ts checkIn, runAutoCheckoutSweep).
AutoCloseAfterCheckIn ==
  (\A p \in Policies : EndOffset <= ShiftLength(p)) =>
    \A i \in Ids : Exists(i) /\ row[i].auto /\ ~row[i].edited => row[i].in <= row[i].out

\* However many rows are open and however few a sweep lists, and though sweeps
\* break off at a row that throws, a row somebody forgot to check out of is
\* closed in the end: provided that somebody calls the sweep again and again, and
\* that the driver hands dates over as text, without which no sweep gets past its
\* first row (AttendanceService.ts runAutoCheckoutSweep).
ForgottenRowsClosed == \A i \in Ids : Open(i) /\ asText ~> ~Open(i)
=============================================================================
