-------------------------- MODULE AttendanceProofs --------------------------
(* Theorems about Attendance, for any policies, dates, clocks, calls and    *)
(* sweeps of any size, and about the rules of AttendancePolicy.             *)
EXTENDS Attendance, FiniteSetTheorems, TLAPS

\* The statements that log a write.
Logging == {"audit", "sweepAudit"}
SweepLabels == {"sweep", "sweepBefore", "sweepUpdate", "sweepAudit"}

\* What the record of a call holds at each of its statements.
Argued(k) ==
  /\ k.pc \in {"audit", "outBefore", "outUpdate", "updLeave", "updWrite", "delWrite", "restWrite",
               "sweepBefore", "sweepUpdate", "sweepAudit"} => k.i \in Ids
  /\ k.pc \in {"inLeave", "inInsert", "manFind", "manWrite", "syncFind", "syncWrite", "unsync"} => k.date \in Dates
  /\ k.pc \in {"inLeave", "inInsert"} =>
       k.p \in Policies /\ k.date = WorkDate(k.t) /\ CheckInWithinAllowedWindow(k.t, k.date, k.p)

\* Rows are numbered in the order they are inserted.
InOrder == \E n \in 0..MaxRows : \A i \in Ids : row[i].st # "none" <=> i <= n

WellTyped == TypeOK /\ InOrder /\ \A c \in Calls : Argued(call[c])

\* The shift of a row that nobody edited began with its check-in and ends when
\* its frozen policy says.
ShiftEnd(i) == WindowEnd(row[i].date, row[i].snap)
Untouched(i) == Exists(i) /\ ~row[i].edited

\* A check-in lies before the end of the shift it begins.
Punched ==
  \A i \in Ids : Untouched(i) /\ row[i].in # None => row[i].snap \in Policies /\ row[i].in <= ShiftEnd(i)

\* What a sweep has listed of row r.i is what the row still holds, unless HR
\* wrote it since.
Faithful(r) ==
  /\ row[r.i].st # "none"
  /\ Untouched(r.i) => /\ r.in = row[r.i].in /\ r.in # None
                       /\ r.date = row[r.i].date /\ r.p = row[r.i].snap

\* A sweep about to close row k.i has the end of its shift.
Closing(k) ==
  /\ row[k.i].st # "none"
  /\ Untouched(k.i) => row[k.i].in # None /\ k.out = ShiftEnd(k.i)

Foreseen ==
  \A c \in Calls :
    /\ call[c].pc \in SweepLabels => \A r \in call[c].rows : Faithful(r)
    /\ call[c].pc \in {"sweepBefore", "sweepUpdate"} => Closing(call[c])

\* The shifts leave nobody a check-in after they end.
ShiftsCover == \A p \in Policies : EndOffset <= ShiftLength(p)
ClosedLate == \A i \in Ids : Untouched(i) /\ row[i].auto => row[i].in <= row[i].out
InTime == ShiftsCover => Punched /\ Foreseen /\ ClosedLate
-----------------------------------------------------------------------------
(* The calls and the types.                                                *)

\* A status that is derived is one of the statuses.
LEMMA StatusDerived ==
  ASSUME NEW in, NEW out, NEW p, NEW l
  PROVE  DeriveStatus(in, out, p, l) \in Statuses /\ DeriveAutoCheckoutClosingStatus(in, out, p, l) \in Statuses
BY DEF DeriveStatus, DeriveAutoCheckoutClosingStatus, DayOff, Statuses

\* A shift ends at a time.
LEMMA ShiftEnds ==
  ASSUME NEW d \in Nat, NEW p \in Policies
  PROVE  WindowEnd(d, p) \in Nat
<1>1. d * DayLength \in Nat /\ (d + 1) * DayLength \in Nat /\ WorkDayEnd[p] \in Nat
  BY PolicyAssumption
<1>2. QED
  BY <1>1 DEF WindowEnd

\* A call that is over is well formed.
LEMMA NoCallFits == NoCall \in CallRecord /\ Argued(NoCall) /\ NoCall.pc = "idle"
<1>1. 0 \in Nat /\ 0 \in Int /\ None \in Times /\ NoPolicy \in Policies \cup {NoPolicy}
  BY DEF Times
<1>2. [in |-> None, out |-> None] \in [in : Times, out : Times]
  BY <1>1
<1>3. QED
  BY <1>1, <1>2 DEF NoCall, CallRecord, Argued, Labels, Leaves

LEMMA NoRowFits == NoRow \in RowRecord
<1>1. 0 \in Nat /\ None \in Times
  BY DEF Times
<1>2. QED
  BY <1>1 DEF NoRow, RowRecord, Statuses

\* The only call that changes is c, and it is well formed afterwards.
OnlyCall(c) ==
  /\ call' \in [Calls -> CallRecord]
  /\ \A d \in Calls : d # c => call'[d] = call[d]
  /\ Argued(call'[c])

LEMMA CallBecomes ==
  ASSUME WellTyped, NEW c \in Calls, NEW x \in CallRecord, Argued(x), call' = [call EXCEPT ![c] = x]
  PROVE  OnlyCall(c) /\ call'[c] = x
BY DEF WellTyped, TypeOK, OnlyCall

LEMMA CallReturns ==
  ASSUME WellTyped, NEW c \in Calls, Return(c)
  PROVE  OnlyCall(c) /\ call'[c] = NoCall
BY NoCallFits, CallBecomes DEF Return

LEMMA CallAudits ==
  ASSUME WellTyped, NEW c \in Calls, NEW i \in Ids, ThenAudit(c, i)
  PROVE  OnlyCall(c) /\ call'[c].pc = "audit" /\ call'[c].i = i
<1> DEFINE x == [NoCall EXCEPT !.pc = "audit", !.i = i]
<1>1. x \in CallRecord /\ x.pc = "audit" /\ x.i = i
  BY NoCallFits DEF CallRecord, Labels
<1>2. Argued(x)
  BY <1>1 DEF Argued
<1>3. call' = [call EXCEPT ![c] = x]
  BY DEF ThenAudit
<1> HIDE DEF x
<1>4. QED
  BY <1>1, <1>2, <1>3, CallBecomes

-----------------------------------------------------------------------------
(* What a step does to the rows.                                           *)

\* What a step of c may do to row i, if HR has not edited the row: nothing, close
\* it, or insert it.  A row that was made stays numbered.
RowMove(c, i) ==
  /\ row[i].st # "none" => row'[i].st # "none"
  /\ Untouched(i)' =>
       \/ /\ Untouched(i)
          /\ row'[i].in = row[i].in /\ row'[i].snap = row[i].snap /\ row'[i].date = row[i].date
          /\ \/ row'[i].out = row[i].out /\ row'[i].auto = row[i].auto
             \/ ~row'[i].auto
             \/ At(c, "sweepUpdate") /\ i = call[c].i /\ row'[i].out = call[c].out
       \/ /\ row[i].st = "none" /\ ~row'[i].auto
          /\ \/ row'[i].in = None
             \/ /\ At(c, "inInsert")
                /\ row'[i].in = call[c].t /\ row'[i].snap = call[c].p /\ row'[i].date = call[c].date

\* Whoever has to log row i after a step of c: c, which has just written it, or
\* the one who had to before, unless that was c.
LogMove(c, i) ==
  audited'[i] \in Calls =>
    \/ audited'[i] = c /\ call'[c].pc \in Logging /\ call'[c].i = i
    \/ audited'[i] = audited[i] /\ ~(audited[i] = c /\ At(c, "audit") /\ call[c].i = i)
                                /\ ~(audited[i] = c /\ At(c, "sweepAudit") /\ call[c].i = i)

TablesTyped == row' \in [Ids -> RowRecord] /\ InOrder' /\ audited' \in [Ids -> Calls \cup {"yes", "other"}]
Moves(c) == TablesTyped /\ \A i \in Ids : RowMove(c, i) /\ LogMove(c, i)

\* The next number is that of no row.
LEMMA NextIdFresh ==
  ASSUME WellTyped
  PROVE  /\ NextId \in Nat \ {0}
         /\ \A i \in Ids : row[i].st # "none" <=> i < NextId
<1>1. PICK n \in 0..MaxRows : \A i \in Ids : row[i].st # "none" <=> i <= n
  BY DEF WellTyped, InOrder
<1>2. {i \in Ids : row[i].st # "none"} = 1..n
  BY <1>1, AttendanceAssumption DEF Ids
<1>3. Cardinality(1..n) = n
  BY <1>1, AttendanceAssumption, FS_Interval
<1>4. NextId = 1 + n
  BY <1>2, <1>3 DEF NextId
<1>5. QED
  BY <1>1, <1>4, AttendanceAssumption DEF Ids

\* A row is written that is there, or the next one is inserted.
LEMMA RowWritten ==
  ASSUME WellTyped, NEW i \in Ids, NEW r \in RowRecord, r.st # "none",
         row[i].st # "none" \/ i = NextId, row' = [row EXCEPT ![i] = r]
  PROVE  /\ row' \in [Ids -> RowRecord] /\ InOrder'
         /\ row'[i] = r /\ \A j \in Ids : j # i => row'[j] = row[j]
<1>1. row \in [Ids -> RowRecord]
  BY DEF WellTyped, TypeOK
<1>2. row' \in [Ids -> RowRecord] /\ row'[i] = r /\ \A j \in Ids : j # i => row'[j] = row[j]
  BY <1>1
<1>3. PICK n \in 0..MaxRows : \A j \in Ids : row[j].st # "none" <=> j <= n
  BY DEF WellTyped, InOrder
<1>4. CASE row[i].st # "none"
  BY <1>2, <1>3, <1>4 DEF InOrder
<1>5. CASE row[i].st = "none" /\ i = NextId
  <2>1. \A j \in Ids : j <= n <=> j < i
    BY <1>3, <1>5, NextIdFresh
  <2>2. \A j \in Ids : row'[j].st # "none" <=> j <= i
    BY <1>2, <1>3, <2>1 DEF Ids
  <2>3. i \in 0..MaxRows
    BY AttendanceAssumption DEF Ids
  <2>4. \E m \in 0..MaxRows : \A j \in Ids : row'[j].st # "none" <=> j <= m
    BY <2>2, <2>3
  <2>5. InOrder'
    BY <2>4 DEF InOrder
  <2>6. QED
    BY <1>2, <2>5
<1>6. QED
  BY <1>2, <1>4, <1>5

\* A statement that writes nothing.
LEMMA ReadMoves ==
  ASSUME WellTyped, NEW c \in Calls, call[c].pc \notin Logging, UNCHANGED <<row, audited>>
  PROVE  Moves(c)
<1>1. TablesTyped
  BY DEF WellTyped, TypeOK, TablesTyped, InOrder
<1>2. \A i \in Ids : RowMove(c, i)
  BY DEF RowMove, Untouched, Exists
<1>3. \A i \in Ids : LogMove(c, i)
  BY DEF LogMove, Logging, At
<1>4. QED
  BY <1>1, <1>2, <1>3 DEF Moves

\* What may be written into row i, in a statement of c.
MayWrite(c, i, r) ==
  /\ r \in RowRecord /\ r.st \in {"live", "deleted"}
  /\ row[i].st # "none" \/ i = NextId
  /\ \/ r.edited
     \/ /\ Exists(i)
        /\ r.in = row[i].in /\ r.snap = row[i].snap /\ r.date = row[i].date /\ r.edited = row[i].edited
        /\ \/ r.out = row[i].out /\ r.auto = row[i].auto
           \/ ~r.auto
           \/ At(c, "sweepUpdate") /\ i = call[c].i /\ r.out = call[c].out
     \/ /\ i = NextId /\ ~r.auto
        /\ \/ r.in = None
           \/ At(c, "inInsert") /\ r.in = call[c].t /\ r.snap = call[c].p /\ r.date = call[c].date

\* A statement that writes row i, to be logged by w.
LEMMA WriteMoves ==
  ASSUME WellTyped, NEW c \in Calls, call[c].pc \notin Logging, NEW i \in Ids, NEW r, MayWrite(c, i, r),
         NEW w \in {c, "other"}, w = c => call'[c].pc \in Logging /\ call'[c].i = i,
         row' = [row EXCEPT ![i] = r], audited' = [audited EXCEPT ![i] = w]
  PROVE  Moves(c)
<1>t. audited \in [Ids -> Calls \cup {"yes", "other"}] /\ row \in [Ids -> RowRecord]
  BY DEF WellTyped, TypeOK
<1>1. /\ row' \in [Ids -> RowRecord] /\ InOrder'
      /\ row'[i] = r /\ \A j \in Ids : j # i => row'[j] = row[j]
  BY RowWritten DEF MayWrite
<1>2. /\ audited' \in [Ids -> Calls \cup {"yes", "other"}]
      /\ audited'[i] = w /\ \A j \in Ids : j # i => audited'[j] = audited[j]
  BY <1>t
<1>3. \A j \in Ids : LogMove(c, j)
  <2>1. "other" \notin Calls
    BY AttendanceAssumption
  <2>2. QED
    BY <1>2, <2>1 DEF LogMove, Logging, At
<1>4. \A j \in Ids : j # i => RowMove(c, j)
  BY <1>1 DEF RowMove, Untouched, Exists
<1>5. RowMove(c, i)
  <2>1. CASE r.edited
    BY <1>1, <2>1 DEF RowMove, Untouched, MayWrite
  <2>2. CASE /\ Exists(i)
             /\ r.in = row[i].in /\ r.snap = row[i].snap /\ r.date = row[i].date /\ r.edited = row[i].edited
             /\ \/ r.out = row[i].out /\ r.auto = row[i].auto
                \/ ~r.auto
                \/ At(c, "sweepUpdate") /\ i = call[c].i /\ r.out = call[c].out
    BY <1>1, <2>2 DEF RowMove, Untouched, MayWrite
  <2>3. CASE /\ i = NextId /\ ~r.auto
             /\ \/ r.in = None
                \/ At(c, "inInsert") /\ r.in = call[c].t /\ r.snap = call[c].p /\ r.date = call[c].date
    <3>1. row[i].st = "none"
      BY <2>3, NextIdFresh
    <3>2. QED
      BY <1>1, <2>3, <3>1 DEF RowMove, MayWrite
  <2>4. QED
    BY <2>1, <2>2, <2>3 DEF MayWrite
<1>6. QED
  BY <1>1, <1>2, <1>3, <1>4, <1>5 DEF Moves, TablesTyped

-----------------------------------------------------------------------------
(* The statements, one after the other.                                    *)

\* What the clock, the policy and the leave are, and where c goes.
Stays(c) == call'[c].pc \notin SweepLabels

\* The reads of check-ins, check-outs and HR's edits.
LEMMA ReadStatements ==
  ASSUME WellTyped, NEW c \in Calls,
         \/ CheckInLeave(c) \/ CheckOutPrevious(c) \/ CheckOutBefore(c) \/ ManualFind(c)
         \/ UpdateLeave(c) \/ SyncFind(c)
  PROVE  OnlyCall(c) /\ Moves(c) /\ Stays(c)
<1> DEFINE k == call[c]
<1>k. k \in CallRecord /\ Argued(k) /\ row \in [Ids -> RowRecord] /\ live \in Policies /\ leave \in [Dates -> Leaves]
      /\ call \in [Calls -> CallRecord]
  BY DEF WellTyped, TypeOK
<1>m. Moves(c)
  <2>1. UNCHANGED <<row, audited>> /\ k.pc \notin Logging
    BY DEF CheckInLeave, CheckOutPrevious, CheckOutBefore, ManualFind, UpdateLeave, SyncFind, At, Logging
  <2>2. QED
    BY <2>1, ReadMoves
<1>b. ASSUME NEW x \in CallRecord, Argued(x), x.pc \notin SweepLabels, call' = [call EXCEPT ![c] = x]
      PROVE  OnlyCall(c) /\ Stays(c)
  BY <1>b, CallBecomes DEF Stays
<1>r. ASSUME Return(c) PROVE OnlyCall(c) /\ Stays(c)
  BY <1>r, CallReturns, NoCallFits DEF Stays, SweepLabels
<1>l. \A d : LeaveOn(d) \in Leaves
  BY <1>k DEF LeaveOn, Leaves
<1>t. \A d : Today(d) \in Ids \cup {0}
  BY DEF Today, LiveOn
<1>1. CASE CheckInLeave(c)
  <2>1. k.date \in Dates /\ k.pc = "inLeave"
    BY <1>k, <1>1 DEF CheckInLeave, At, Argued
  <2> DEFINE x == [k EXCEPT !.pc = "inInsert", !.leave = leave[k.date]]
  <2>2. x \in CallRecord /\ Argued(x) /\ x.pc \notin SweepLabels
    BY <1>k, <2>1 DEF CallRecord, Labels, Argued, SweepLabels
  <2>3. Return(c) \/ call' = [call EXCEPT ![c] = x]
    BY <1>k, <1>1 DEF CheckInLeave
  <2> HIDE DEF x
  <2>4. QED
    BY <1>m, <1>b, <1>r, <2>2, <2>3
<1>2. CASE CheckOutPrevious(c)
  <2> DEFINE i == Today(k.date)
             x == [k EXCEPT !.date = 0, !.pc = "outBefore", !.i = i, !.in = row[i].in, !.p = Merged(row[i].snap, k.p)]
  <2>1. k.pc = "outPrev"
    BY <1>2 DEF CheckOutPrevious, At
  <2>2. CASE i # 0 /\ Open(i)
    <3>1. i \in Ids /\ 0 \in Int /\ row[i].in \in Times /\ Merged(row[i].snap, k.p) \in Policies \cup {NoPolicy}
      BY <1>k, <1>t, <2>2 DEF Merged, RowRecord, CallRecord
    <3>2. call' = [call EXCEPT ![c] = x]
      BY <1>k, <1>2, <2>2 DEF CheckOutPrevious, CheckOutOf
    <3> HIDE DEF i
    <3>3. x \in CallRecord /\ x.pc = "outBefore" /\ x.i = i
      BY <1>k, <3>1 DEF CallRecord, Labels
    <3> HIDE DEF x
    <3>4. Argued(x) /\ x.pc \notin SweepLabels
      BY <3>1, <3>3 DEF Argued, SweepLabels
    <3>5. QED
      BY <1>m, <1>b, <3>2, <3>3, <3>4
  <2>3. CASE ~(i # 0 /\ Open(i))
    BY <1>m, <1>r, <1>2, <2>3 DEF CheckOutPrevious, CheckOutOf
  <2>4. QED
    BY <2>2, <2>3
<1>3. CASE CheckOutBefore(c)
  <2> DEFINE x == [k EXCEPT !.pc = "outUpdate", !.leave = LeaveOn(WorkDate(k.in))]
  <2>1. k.i \in Ids /\ k.pc = "outBefore"
    BY <1>k, <1>3 DEF CheckOutBefore, At, Argued
  <2>2. x \in CallRecord /\ Argued(x) /\ x.pc \notin SweepLabels
    BY <1>k, <1>l, <2>1 DEF CallRecord, Labels, Argued, SweepLabels
  <2>3. Return(c) \/ call' = [call EXCEPT ![c] = x]
    BY <1>k, <1>3 DEF CheckOutBefore
  <2> HIDE DEF x
  <2>4. QED
    BY <1>m, <1>b, <1>r, <2>2, <2>3
<1>4. CASE ManualFind(c)
  <2> DEFINE x == [k EXCEPT !.pc = "manWrite", !.i = Today(k.date)]
  <2>1. k.date \in Dates /\ k.pc = "manFind"
    BY <1>k, <1>4 DEF ManualFind, At, Argued
  <2>2. x \in CallRecord /\ Argued(x) /\ x.pc \notin SweepLabels
    BY <1>k, <1>t, <2>1 DEF CallRecord, Labels, Argued, SweepLabels
  <2>3. call' = [call EXCEPT ![c] = x]
    BY <1>k, <1>4 DEF ManualFind
  <2> HIDE DEF x
  <2>4. QED
    BY <1>m, <1>b, <2>2, <2>3
<1>5. CASE UpdateLeave(c)
  <2> DEFINE in == Coalesce(k.in, k.old.in)
             l == LeaveOn(IF in = None THEN k.date ELSE WorkDate(in))
             x == [k EXCEPT !.pc = "updWrite", !.date = 0, !.leave = l]
  <2>1. k.i \in Ids /\ 0 \in Int /\ k.pc = "updLeave" /\ l \in Leaves
    BY <1>k, <1>l, <1>5 DEF UpdateLeave, At, Argued
  <2>2. Return(c) \/ call' = [call EXCEPT ![c] = x]
    BY <1>k, <1>5 DEF UpdateLeave
  <2> HIDE DEF in, l
  <2>3. x \in CallRecord /\ x.pc = "updWrite" /\ x.i = k.i
    BY <1>k, <2>1 DEF CallRecord, Labels
  <2> HIDE DEF x
  <2>4. Argued(x) /\ x.pc \notin SweepLabels
    BY <2>1, <2>3 DEF Argued, SweepLabels
  <2>5. QED
    BY <1>m, <1>b, <1>r, <2>2, <2>3, <2>4
<1>6. CASE SyncFind(c)
  <2>1. PICK i \in Ids \cup {0} : call' = [call EXCEPT ![c] = [k EXCEPT !.pc = "syncWrite", !.i = i]]
    BY <1>k, <1>6 DEF SyncFind
  <2> DEFINE x == [k EXCEPT !.pc = "syncWrite", !.i = i]
  <2>2. k.date \in Dates
    BY <1>k, <1>6 DEF SyncFind, At, Argued
  <2>3. x \in CallRecord /\ Argued(x) /\ x.pc \notin SweepLabels
    BY <1>k, <2>2 DEF CallRecord, Labels, Argued, SweepLabels
  <2>4. call' = [call EXCEPT ![c] = x]
    BY <2>1
  <2> HIDE DEF x
  <2>5. QED
    BY <1>m, <1>b, <2>3, <2>4
<1>7. QED
  BY <1>1, <1>2, <1>3, <1>4, <1>5, <1>6

\* A statement that writes row i and goes on to its audit.
LEMMA WriteThenAudit ==
  ASSUME WellTyped, NEW c \in Calls, call[c].pc \notin Logging, NEW i \in Ids, NEW r,
         MayWrite(c, i, r), Write(c, i, r), ThenAudit(c, i)
  PROVE  OnlyCall(c) /\ Moves(c) /\ Stays(c)
<1>1. OnlyCall(c) /\ call'[c].pc = "audit" /\ call'[c].i = i
  BY CallAudits
<1>2. Moves(c)
  BY <1>1, WriteMoves DEF Write, Logging
<1>3. QED
  BY <1>1, <1>2 DEF Stays, SweepLabels

LEMMA MissedMoves ==
  ASSUME WellTyped, NEW c \in Calls, call[c].pc \notin Logging, Missed(c)
  PROVE  OnlyCall(c) /\ Moves(c) /\ Stays(c)
BY CallReturns, ReadMoves, NoCallFits DEF Missed, Stays, SweepLabels

\* A row that is live is there.
LEMMA LiveThere == ASSUME NEW i, Live(i) PROVE Exists(i) /\ row[i].st # "none" /\ row[i].st = "live"
BY DEF Live, Exists

\* The writes of check-ins, check-outs and HR's edits.
LEMMA WriteStatements ==
  ASSUME WellTyped, NEW c \in Calls,
         \/ CheckInInsert(c) \/ CheckOutUpdate(c) \/ ManualWrite(c) \/ UpdateWrite(c)
         \/ DeleteWrite(c) \/ RestoreWrite(c)
  PROVE  OnlyCall(c) /\ Moves(c) /\ Stays(c)
<1> DEFINE k == call[c]
           Goal == OnlyCall(c) /\ Moves(c) /\ Stays(c)
<1>k. k \in CallRecord /\ Argued(k) /\ row \in [Ids -> RowRecord]
  BY DEF WellTyped, TypeOK
<1>l. k.pc \notin Logging
  BY DEF CheckInInsert, CheckOutUpdate, ManualWrite, UpdateWrite, DeleteWrite, RestoreWrite, At, Logging
<1>w. ASSUME NEW i \in Ids, NEW r, MayWrite(c, i, r), Write(c, i, r), ThenAudit(c, i)
      PROVE  Goal
  BY <1>l, <1>w, WriteThenAudit
<1>m. ASSUME Missed(c) PROVE Goal
  BY <1>l, <1>m, MissedMoves
<1> SUFFICES Goal
  OBVIOUS
<1> HIDE DEF Goal
<1>d. Dates \subseteq Nat /\ \A t \in Nat : t \in Times
  BY AttendanceAssumption DEF Times
<1>1. CASE CheckInInsert(c)
  <2> DEFINE s == DeriveStatus(k.t, None, k.p, k.leave)
             r == [NoRow EXCEPT !.st = "live", !.date = k.date, !.in = k.t, !.snap = k.p, !.status = s]
  <2>1. k.date \in Dates /\ At(c, "inInsert") /\ s \in Statuses
    BY <1>k, <1>1, StatusDerived DEF CheckInInsert, At, Argued
  <2> HIDE DEF s
  <2>2. r \in RowRecord /\ r.st = "live" /\ r.in = k.t /\ r.snap = k.p /\ r.date = k.date
    BY <1>k, <1>d, <2>1, NoRowFits DEF RowRecord, CallRecord
  <2>3. ~r.auto
    BY DEF NoRow
  <2>4. MayWrite(c, NextId, r)
    BY <2>1, <2>2, <2>3 DEF MayWrite
  <2>5. Missed(c) \/ (NextId \in Ids /\ Write(c, NextId, r) /\ ThenAudit(c, NextId))
    BY <1>1 DEF CheckInInsert, s
  <2> HIDE DEF r
  <2>6. QED
    BY <1>w, <1>m, <2>4, <2>5
<1>2. CASE CheckOutUpdate(c)
  <2> DEFINE s == DeriveStatus(k.in, k.t, k.p, k.leave)
             r == Closed(k.i, k.t, s, FALSE)
  <2>1. k.i \in Ids /\ s \in Statuses
    BY <1>k, <1>2, StatusDerived DEF CheckOutUpdate, At, Argued
  <2>2. Missed(c) \/ (Live(k.i) /\ Write(c, k.i, r) /\ ThenAudit(c, k.i))
    BY <1>2 DEF CheckOutUpdate
  <2> HIDE DEF s
  <2>3. ASSUME Live(k.i) PROVE MayWrite(c, k.i, r)
    <3>1. row[k.i] \in RowRecord /\ k.t \in Times
      BY <1>k, <1>d, <2>1 DEF CallRecord
    <3>2. /\ r \in RowRecord /\ r.st = row[k.i].st /\ ~r.auto
          /\ r.in = row[k.i].in /\ r.snap = row[k.i].snap /\ r.date = row[k.i].date /\ r.edited = row[k.i].edited
      BY <2>1, <3>1 DEF RowRecord, Closed
    <3>3. QED
      BY <2>3, <3>2, LiveThere DEF MayWrite
  <2> HIDE DEF r
  <2>4. QED
    BY <1>w, <1>m, <2>1, <2>2, <2>3
<1>3. CASE ManualWrite(c)
  <2>1. ASSUME NEW b \in RowRecord
        PROVE  Manual(b, k) \in RowRecord /\ Manual(b, k).st = b.st /\ Manual(b, k).edited
    <3>1. DeriveStatus(k.in, k.out, k.p, k.leave) \in Statuses /\ "present" \in Statuses
      BY StatusDerived DEF Statuses
    <3>2. k.in \in Times /\ k.out \in Times /\ k.p \in Policies \cup {NoPolicy}
      BY <1>k DEF CallRecord
    <3>3. QED
      BY <2>1, <3>1, <3>2 DEF Manual, RowRecord
  <2>2. CASE /\ k.i # 0 /\ Exists(k.i)
             /\ Write(c, k.i, Manual(row[k.i], k)) /\ ThenAudit(c, k.i)
    <3>1. k.i \in Ids /\ row[k.i] \in RowRecord
      BY <1>k, <2>2 DEF CallRecord
    <3>2. row[k.i].st \in {"live", "deleted"}
      BY <2>2 DEF Exists
    <3>3. MayWrite(c, k.i, Manual(row[k.i], k))
      BY <2>1, <3>1, <3>2 DEF MayWrite
    <3>4. QED
      BY <1>w, <2>2, <3>1, <3>3
  <2>3. CASE /\ NextId \in Ids
             /\ Write(c, NextId, Manual([NoRow EXCEPT !.st = "live", !.date = k.date], k)) /\ ThenAudit(c, NextId)
    <3> DEFINE b == [NoRow EXCEPT !.st = "live", !.date = k.date]
    <3>1. k.date \in Nat
      BY <1>k, <1>d, <1>3 DEF ManualWrite, At, Argued
    <3>2. b \in RowRecord /\ b.st = "live"
      BY <3>1, NoRowFits DEF RowRecord
    <3> HIDE DEF b
    <3>3. MayWrite(c, NextId, Manual(b, k))
      BY <2>1, <3>2 DEF MayWrite
    <3>4. QED
      BY <1>w, <2>3, <3>3 DEF b
  <2>4. QED
    BY <1>m, <1>3, <2>2, <2>3 DEF ManualWrite
<1>4. CASE UpdateWrite(c)
  <2> DEFINE in == Coalesce(k.in, k.old.in)
             out == Coalesce(k.out, k.old.out)
             s == IF in = None THEN "absent" ELSE DeriveStatus(in, out, k.p, k.leave)
             r == [row[k.i] EXCEPT !.in = Coalesce(k.in, @), !.out = Coalesce(k.out, @), !.missed = FALSE,
                                   !.edited = TRUE, !.status = s]
  <2>1. k.i \in Ids /\ s \in Statuses
    <3>1. "absent" \in Statuses /\ DeriveStatus(in, out, k.p, k.leave) \in Statuses
      BY StatusDerived DEF Statuses
    <3>2. QED
      BY <1>k, <1>4, <3>1 DEF UpdateWrite, At, Argued
  <2>2. Missed(c) \/ (Live(k.i) /\ Write(c, k.i, r) /\ ThenAudit(c, k.i))
    BY <1>4 DEF UpdateWrite
  <2> HIDE DEF s
  <2>3. ASSUME Live(k.i) PROVE MayWrite(c, k.i, r)
    <3>1. row[k.i] \in RowRecord /\ k.in \in Times /\ k.out \in Times
      BY <1>k, <2>1 DEF CallRecord
    <3>2. r \in RowRecord /\ r.st = row[k.i].st /\ r.edited
      BY <2>1, <3>1 DEF RowRecord, Coalesce
    <3>3. QED
      BY <2>3, <3>2, LiveThere DEF MayWrite
  <2> HIDE DEF r
  <2>4. QED
    BY <1>w, <1>m, <2>1, <2>2, <2>3
<1>5. CASE DeleteWrite(c) \/ RestoreWrite(c)
  <2>1. k.i \in Ids
    BY <1>k, <1>5 DEF DeleteWrite, RestoreWrite, At, Argued
  <2>2. Missed(c) \/ (/\ row[k.i].st \in {"live", "deleted"}
                      /\ ThenAudit(c, k.i)
                      /\ \E st \in {"live", "deleted"} : Write(c, k.i, [row[k.i] EXCEPT !.st = st]))
    BY <1>5 DEF DeleteWrite, RestoreWrite, Live
  <2>3. ASSUME row[k.i].st \in {"live", "deleted"}, NEW st \in {"live", "deleted"}
        PROVE  MayWrite(c, k.i, [row[k.i] EXCEPT !.st = st])
    <3> DEFINE r == [row[k.i] EXCEPT !.st = st]
    <3>1. row[k.i] \in RowRecord
      BY <1>k, <2>1
    <3>2. /\ r \in RowRecord /\ r.st = st /\ r.out = row[k.i].out /\ r.auto = row[k.i].auto
          /\ r.in = row[k.i].in /\ r.snap = row[k.i].snap /\ r.date = row[k.i].date /\ r.edited = row[k.i].edited
      BY <3>1 DEF RowRecord
    <3> HIDE DEF r
    <3>3. MayWrite(c, k.i, r)
      BY <2>3, <3>2 DEF MayWrite, Exists
    <3>4. QED
      BY <3>3 DEF r
  <2>4. QED
    BY <1>w, <1>m, <2>1, <2>2, <2>3
<1>6. QED
  BY <1>1, <1>2, <1>3, <1>4, <1>5

\* The writes of the leave system.
LEMMA LeaveStatements ==
  ASSUME WellTyped, NEW c \in Calls, SyncWrite(c) \/ Unsync(c)
  PROVE  OnlyCall(c) /\ Moves(c) /\ Stays(c)
<1> DEFINE k == call[c]
<1>k. /\ k \in CallRecord /\ Argued(k) /\ row \in [Ids -> RowRecord]
      /\ audited \in [Ids -> Calls \cup {"yes", "other"}]
  BY DEF WellTyped, TypeOK
<1>l. k.pc \notin Logging
  BY DEF SyncWrite, Unsync, At, Logging
<1>r. OnlyCall(c) /\ Stays(c)
  <2>1. Return(c)
    BY DEF SyncWrite, Unsync
  <2>2. QED
    BY <2>1, CallReturns, NoCallFits DEF Stays, SweepLabels
<1>d. k.date \in Nat
  <2>1. k.date \in Dates
    BY <1>k DEF SyncWrite, Unsync, At, Argued
  <2>2. QED
    BY <2>1, AttendanceAssumption
<1>1. CASE SyncWrite(c)
  <2> DEFINE status == IF k.leave = "half" THEN "half_day" ELSE "absent"
             old == [row[k.i] EXCEPT !.status = status]
             new == [NoRow EXCEPT !.st = "live", !.date = k.date, !.status = status, !.byLeave = TRUE]
  <2>0. status \in Statuses
    BY DEF Statuses
  <2>1. \/ k.i # 0 /\ Exists(k.i) /\ row' = [row EXCEPT ![k.i] = old] /\ audited' = [audited EXCEPT ![k.i] = "other"]
        \/ NextId \in Ids /\ row' = [row EXCEPT ![NextId] = new] /\ audited' = [audited EXCEPT ![NextId] = "other"]
        \/ UNCHANGED <<row, audited>>
    BY <1>1 DEF SyncWrite
  <2> HIDE DEF status
  <2>w. ASSUME NEW i \in Ids, NEW r, MayWrite(c, i, r), row' = [row EXCEPT ![i] = r],
               audited' = [audited EXCEPT ![i] = "other"]
        PROVE  Moves(c)
    <3>1. "other" # c
      BY AttendanceAssumption
    <3>2. QED
      BY <1>l, <2>w, <3>1, WriteMoves
  <2>2. ASSUME k.i # 0, Exists(k.i) PROVE k.i \in Ids /\ MayWrite(c, k.i, old)
    <3>1. k.i \in Ids /\ row[k.i] \in RowRecord
      BY <1>k, <2>2 DEF CallRecord
    <3>2. /\ old \in RowRecord /\ old.st = row[k.i].st /\ old.out = row[k.i].out /\ old.auto = row[k.i].auto
          /\ old.in = row[k.i].in /\ old.snap = row[k.i].snap /\ old.date = row[k.i].date /\ old.edited = row[k.i].edited
      BY <2>0, <3>1 DEF RowRecord
    <3>3. QED
      BY <2>2, <3>1, <3>2 DEF MayWrite, Exists
  <2>3. ASSUME NextId \in Ids PROVE MayWrite(c, NextId, new)
    <3>1. new \in RowRecord /\ new.st = "live"
      BY <1>d, <2>0, NoRowFits DEF RowRecord
    <3>2. new.in = None /\ ~new.auto
      BY DEF NoRow
    <3>3. QED
      BY <3>1, <3>2 DEF MayWrite
  <2>4. UNCHANGED <<row, audited>> => Moves(c)
    BY <1>l, ReadMoves
  <2> HIDE DEF old, new
  <2>5. QED
    BY <1>r, <2>1, <2>2, <2>3, <2>4, <2>w
<1>2. CASE Unsync(c)
  <2> DEFINE gone == {i \in Ids : Exists(i) /\ row[i].date = k.date /\ row[i].in = None /\ row[i].byLeave}
             none == [NoRow EXCEPT !.st = "gone"]
  <2>1. /\ row' = [i \in Ids |-> IF i \in gone THEN none ELSE row[i]]
        /\ audited' = [i \in Ids |-> IF i \in gone THEN "yes" ELSE audited[i]]
    BY <1>2 DEF Unsync
  <2>2. none \in RowRecord /\ none.st = "gone"
    BY NoRowFits DEF RowRecord
  <2>3. \A i \in gone : row[i].st # "none"
    BY DEF Exists
  <2> HIDE DEF gone, none
  <2>4. row' \in [Ids -> RowRecord] /\ audited' \in [Ids -> Calls \cup {"yes", "other"}]
    BY <1>k, <2>1, <2>2
  <2>5. \A i \in Ids : row'[i].st # "none" <=> row[i].st # "none"
    BY <2>1, <2>2, <2>3
  <2>6. InOrder'
    BY <2>5 DEF WellTyped, InOrder
  <2>7. ASSUME NEW i \in Ids PROVE RowMove(c, i) /\ LogMove(c, i)
    <3>1. CASE i \in gone
      <4>1. row'[i].st = "gone" /\ audited'[i] = "yes"
        BY <2>1, <2>2, <3>1
      <4>2. "yes" \notin Calls
        BY AttendanceAssumption
      <4>3. QED
        BY <2>5, <4>1, <4>2 DEF RowMove, LogMove, Untouched, Exists
    <3>2. CASE i \notin gone
      <4>1. row'[i] = row[i] /\ audited'[i] = audited[i]
        BY <2>1, <3>2
      <4>2. QED
        BY <1>l, <4>1 DEF RowMove, LogMove, Untouched, Exists, At, Logging
    <3>3. QED
      BY <3>1, <3>2
  <2>8. QED
    BY <1>r, <2>4, <2>6, <2>7 DEF Moves, TablesTyped
<1>3. QED
  BY <1>1, <1>2

\* What a step of c leaves of its sweep.
SweepMove(c) ==
  call'[c].pc \in SweepLabels =>
    /\ call[c].pc \in SweepLabels /\ call'[c].rows \subseteq call[c].rows
    /\ call'[c].pc \in {"sweepBefore", "sweepUpdate"} =>
         \/ At(c, "sweepBefore") /\ call'[c].i = call[c].i /\ call'[c].out = call[c].out
         \/ \E r \in call[c].rows : call'[c].i = r.i /\ call'[c].out = WindowEnd(r.date, r.p)

\* An audit that is written.
LEMMA AuditMoves ==
  ASSUME WellTyped, NEW c \in Calls, Audit(c) \/ SweepAudit(c)
  PROVE  Moves(c)
<1>t. /\ row \in [Ids -> RowRecord] /\ audited \in [Ids -> Calls \cup {"yes", "other"}]
      /\ call[c].i \in Ids
  BY DEF WellTyped, TypeOK, Argued, Audit, SweepAudit, At
<1>1. UNCHANGED row /\ AuditOf(c, call[c].i)
  BY DEF Audit, SweepAudit
<1>2. TablesTyped
  BY <1>t, <1>1 DEF TablesTyped, WellTyped, InOrder, AuditOf
<1>3. \A i \in Ids : RowMove(c, i)
  BY <1>1 DEF RowMove, Untouched, Exists
<1>4. ASSUME NEW i \in Ids PROVE LogMove(c, i)
  <2>1. "yes" \notin Calls
    BY AttendanceAssumption
  <2>2. CASE i = call[c].i
    BY <1>t, <1>1, <2>1, <2>2 DEF AuditOf, LogMove
  <2>3. CASE i # call[c].i
    BY <1>t, <1>1, <2>3 DEF AuditOf, LogMove
  <2>4. QED
    BY <2>2, <2>3
<1>5. QED
  BY <1>2, <1>3, <1>4 DEF Moves

\* On to the next row of a sweep.
LEMMA NextOfSweep ==
  ASSUME WellTyped, NEW c \in Calls, call[c].pc \in SweepLabels, SweepNext(c)
  PROVE  OnlyCall(c) /\ SweepMove(c)
<1> DEFINE x == [NoCall EXCEPT !.pc = "sweep", !.t = call[c].t, !.rows = call[c].rows]
<1>k. call[c] \in CallRecord /\ call \in [Calls -> CallRecord]
  BY DEF WellTyped, TypeOK
<1>1. x \in CallRecord /\ x.pc = "sweep" /\ x.rows = call[c].rows
  BY <1>k, NoCallFits DEF CallRecord, Labels
<1>2. Argued(x)
  BY <1>1 DEF Argued
<1>3. Return(c) \/ call' = [call EXCEPT ![c] = x]
  BY <1>k DEF SweepNext, Return
<1> HIDE DEF x
<1>4. CASE Return(c)
  BY <1>4, CallReturns, NoCallFits DEF SweepMove, SweepLabels
<1>5. CASE call' = [call EXCEPT ![c] = x]
  BY <1>1, <1>2, <1>5, CallBecomes DEF SweepMove
<1>6. QED
  BY <1>3, <1>4, <1>5

\* The statements of a sweep.
LEMMA SweepStatements ==
  ASSUME WellTyped, NEW c \in Calls, SweepRow(c) \/ SweepBefore(c) \/ SweepUpdate(c) \/ SweepAudit(c)
  PROVE  OnlyCall(c) /\ Moves(c) /\ SweepMove(c)
<1> DEFINE k == call[c]
<1>k. k \in CallRecord /\ Argued(k) /\ row \in [Ids -> RowRecord] /\ leave \in [Dates -> Leaves]
      /\ call \in [Calls -> CallRecord]
  BY DEF WellTyped, TypeOK
<1>1. CASE SweepRow(c)
  <2>0. k.pc = "sweep" /\ UNCHANGED <<row, audited>>
    BY <1>1 DEF SweepRow, At
  <2>1. Moves(c)
    BY <2>0, ReadMoves DEF Logging
  <2>2. PICK r \in k.rows :
          IF ~asText THEN Return(c) ELSE call' = [call EXCEPT ![c] =
            IF k.t > WindowEnd(r.date, r.p) + Buffer
              THEN [k EXCEPT !.pc = "sweepBefore", !.i = r.i, !.in = r.in, !.out = WindowEnd(r.date, r.p),
                             !.p = r.p, !.leave = LeaveOn(r.date), !.rows = k.rows \ {r}]
              ELSE IF k.rows \ {r} = {} THEN NoCall ELSE [k EXCEPT !.rows = k.rows \ {r}]]
    BY <1>1 DEF SweepRow
  <2> DEFINE rest == k.rows \ {r}
             end == WindowEnd(r.date, r.p)
             l == LeaveOn(r.date)
             x == [k EXCEPT !.pc = "sweepBefore", !.i = r.i, !.in = r.in, !.out = end,
                            !.p = r.p, !.leave = l, !.rows = rest]
             y == [k EXCEPT !.rows = rest]
  <2>3. call' = [call EXCEPT ![c] = x] \/ Return(c) \/ call' = [call EXCEPT ![c] = y]
    BY <2>2 DEF Return
  <2>4. r \in Snapshots /\ rest \subseteq Snapshots /\ l \in Leaves
    BY <1>k DEF CallRecord, LeaveOn, Leaves
  <2>5. r.i \in Ids /\ r.in \in Times /\ r.p \in Policies /\ r.date \in Nat
    BY <2>4 DEF Snapshots
  <2>6. end \in Times
    BY <2>5, ShiftEnds DEF Times
  <2> HIDE DEF end, l, rest
  <2>7. x \in CallRecord /\ x.pc = "sweepBefore" /\ x.i = r.i /\ x.out = end /\ x.rows = rest
    BY <1>k, <2>4, <2>5, <2>6 DEF CallRecord, Labels
  <2>8. y \in CallRecord /\ y.pc = "sweep" /\ y.rows = rest
    BY <1>k, <2>0, <2>4 DEF CallRecord
  <2> HIDE DEF x, y
  <2>9. Argued(x) /\ Argued(y)
    BY <2>5, <2>7, <2>8 DEF Argued
  <2>10. CASE call' = [call EXCEPT ![c] = x]
    BY <2>0, <2>1, <2>5, <2>7, <2>9, <2>10, CallBecomes DEF SweepMove, SweepLabels, rest, end
  <2>11. CASE call' = [call EXCEPT ![c] = y]
    BY <2>0, <2>1, <2>8, <2>9, <2>11, CallBecomes DEF SweepMove, SweepLabels, rest
  <2>12. CASE Return(c)
    BY <2>1, <2>12, CallReturns, NoCallFits DEF SweepMove, SweepLabels
  <2>13. QED
    BY <2>3, <2>10, <2>11, <2>12
<1>2. CASE SweepBefore(c)
  <2> DEFINE x == [k EXCEPT !.pc = "sweepUpdate", !.found = Live(k.i)]
  <2>0. k.pc = "sweepBefore" /\ k.i \in Ids /\ UNCHANGED <<row, audited>>
    BY <1>k, <1>2 DEF SweepBefore, At, Argued
  <2>1. Moves(c)
    BY <2>0, ReadMoves DEF Logging
  <2>2. call' = [call EXCEPT ![c] = x]
    BY <1>k, <1>2 DEF SweepBefore
  <2>3. Live(k.i) \in BOOLEAN
    BY DEF Live
  <2>4. x \in CallRecord /\ x.pc = "sweepUpdate" /\ x.i = k.i /\ x.out = k.out /\ x.rows = k.rows
    BY <1>k, <2>3 DEF CallRecord, Labels
  <2> HIDE DEF x
  <2>5. Argued(x)
    BY <2>0, <2>4 DEF Argued
  <2>6. QED
    BY <2>0, <2>1, <2>2, <2>4, <2>5, CallBecomes DEF SweepMove, SweepLabels, At
<1>3. CASE SweepUpdate(c)
  <2> DEFINE s == DeriveAutoCheckoutClosingStatus(k.in, k.out, k.p, k.leave)
             r == Closed(k.i, k.out, s, TRUE)
             w == IF k.found THEN c ELSE "other"
  <2>0. k.pc = "sweepUpdate" /\ k.i \in Ids /\ k.pc \in SweepLabels /\ k.pc \notin Logging
    BY <1>k, <1>3 DEF SweepUpdate, At, Argued, SweepLabels, Logging
  <2>1. CASE Live(k.i)
    <3>1. row' = [row EXCEPT ![k.i] = r] /\ audited' = [audited EXCEPT ![k.i] = w]
          /\ IF k.found THEN Goto(c, "sweepAudit") ELSE SweepNext(c)
      BY <1>3, <2>1 DEF SweepUpdate
    <3>2. s \in Statuses /\ row[k.i] \in RowRecord /\ k.out \in Times
      BY <1>k, <2>0, StatusDerived DEF CallRecord
    <3> HIDE DEF s
    <3>3. /\ r \in RowRecord /\ r.st = row[k.i].st /\ r.out = k.out
          /\ r.in = row[k.i].in /\ r.snap = row[k.i].snap /\ r.date = row[k.i].date /\ r.edited = row[k.i].edited
      BY <2>0, <3>2 DEF RowRecord, Closed
    <3> HIDE DEF r
    <3>4. MayWrite(c, k.i, r)
      BY <2>0, <2>1, <3>3, LiveThere DEF MayWrite, At
    <3>5. CASE k.found
      <4> DEFINE x == [k EXCEPT !.pc = "sweepAudit"]
      <4>1. x \in CallRecord /\ x.pc = "sweepAudit" /\ x.i = k.i /\ x.rows = k.rows
        BY <1>k DEF CallRecord, Labels
      <4>2. call' = [call EXCEPT ![c] = x]
        BY <1>k, <3>1, <3>5 DEF Goto
      <4> HIDE DEF x
      <4>3. Argued(x)
        BY <2>0, <4>1 DEF Argued
      <4>4. OnlyCall(c) /\ call'[c] = x
        BY <4>1, <4>2, <4>3, CallBecomes
      <4>5. Moves(c)
        BY <2>0, <3>1, <3>4, <3>5, <4>1, <4>4, WriteMoves DEF Logging
      <4>6. QED
        BY <2>0, <4>1, <4>4, <4>5 DEF SweepMove
    <3>6. CASE ~k.found
      <4>1. OnlyCall(c) /\ SweepMove(c)
        BY <2>0, <3>1, <3>6, NextOfSweep
      <4>2. "other" # c
        BY AttendanceAssumption
      <4>3. Moves(c)
        BY <2>0, <3>1, <3>4, <3>6, <4>2, WriteMoves
      <4>4. QED
        BY <4>1, <4>3
    <3>7. QED
      BY <3>5, <3>6
  <2>2. CASE ~Live(k.i)
    BY <1>3, <2>0, <2>2, NextOfSweep, ReadMoves DEF SweepUpdate
  <2>3. QED
    BY <2>1, <2>2
<1>4. CASE SweepAudit(c)
  <2>1. k.pc \in SweepLabels /\ SweepNext(c)
    BY <1>4 DEF SweepAudit, At, SweepLabels
  <2>2. QED
    BY <1>4, <2>1, NextOfSweep, AuditMoves
<1>5. QED
  BY <1>1, <1>2, <1>3, <1>4

\* A sweep that breaks off: a row it has just closed has no log entry to come.
LEMMA ThrowMoves ==
  ASSUME WellTyped, NEW c \in Calls, SweepThrows(c)
  PROVE  OnlyCall(c) /\ Moves(c) /\ SweepMove(c)
<1>t. /\ row \in [Ids -> RowRecord] /\ audited \in [Ids -> Calls \cup {"yes", "other"}]
      /\ "other" \notin Calls
  BY AttendanceAssumption DEF WellTyped, TypeOK
<1>1. OnlyCall(c) /\ SweepMove(c)
  BY CallReturns, NoCallFits DEF SweepThrows, SweepMove, SweepLabels
<1>2. CASE At(c, "sweepAudit")
  <2>1. UNCHANGED row /\ call[c].i \in Ids
        /\ audited' = [audited EXCEPT ![call[c].i] = IF @ = c THEN "other" ELSE @]
    BY <1>2 DEF SweepThrows, WellTyped, Argued, At
  <2>2. TablesTyped
    BY <1>t, <2>1 DEF TablesTyped, WellTyped, InOrder
  <2>3. \A i \in Ids : RowMove(c, i)
    BY <2>1 DEF RowMove, Untouched, Exists
  <2>4. ASSUME NEW i \in Ids PROVE LogMove(c, i)
    <3>1. CASE i = call[c].i
      BY <1>2, <1>t, <2>1, <3>1 DEF LogMove, At
    <3>2. CASE i # call[c].i
      BY <1>t, <2>1, <3>2 DEF LogMove
    <3>3. QED
      BY <3>1, <3>2
  <2>5. QED
    BY <1>1, <2>2, <2>3, <2>4 DEF Moves
<1>3. CASE ~At(c, "sweepAudit")
  <2>1. UNCHANGED <<row, audited>> /\ call[c].pc \notin Logging
    BY <1>3 DEF SweepThrows, At, Logging
  <2>2. QED
    BY <1>1, <2>1, ReadMoves
<1>4. QED
  BY <1>2, <1>3

\* A call in progress goes on, or its sweep throws.
GoesOn(c) == Continue(c) \/ SweepThrows(c)

\* Every statement of a call that is in progress.
LEMMA ContinueMoves ==
  ASSUME WellTyped, NEW c \in Calls, GoesOn(c)
  PROVE  OnlyCall(c) /\ Moves(c) /\ SweepMove(c) /\ UNCHANGED <<now, live, leave>>
<1>s. Stays(c) => SweepMove(c)
  BY DEF Stays, SweepMove
<1>1. CASE Audit(c)
  <2>1. Return(c)
    BY <1>1 DEF Audit
  <2>2. OnlyCall(c) /\ SweepMove(c)
    BY <2>1, CallReturns, NoCallFits DEF SweepMove, SweepLabels
  <2>3. QED
    BY <1>1, <2>2, AuditMoves DEF Audit
<1>2. CASE \/ CheckInLeave(c) \/ CheckOutPrevious(c) \/ CheckOutBefore(c) \/ ManualFind(c)
           \/ UpdateLeave(c) \/ SyncFind(c)
  BY <1>2, <1>s, ReadStatements
     DEF CheckInLeave, CheckOutPrevious, CheckOutBefore, ManualFind, UpdateLeave, SyncFind
<1>3. CASE \/ CheckInInsert(c) \/ CheckOutUpdate(c) \/ ManualWrite(c) \/ UpdateWrite(c)
           \/ DeleteWrite(c) \/ RestoreWrite(c)
  BY <1>3, <1>s, WriteStatements
     DEF CheckInInsert, CheckOutUpdate, ManualWrite, UpdateWrite, DeleteWrite, RestoreWrite
<1>4. CASE SyncWrite(c) \/ Unsync(c)
  BY <1>4, <1>s, LeaveStatements DEF SyncWrite, Unsync
<1>5. CASE SweepRow(c) \/ SweepBefore(c) \/ SweepUpdate(c) \/ SweepAudit(c)
  BY <1>5, SweepStatements DEF SweepRow, SweepBefore, SweepUpdate, SweepAudit
<1>6. CASE SweepThrows(c)
  BY <1>6, ThrowMoves DEF SweepThrows
<1>7. QED
  BY <1>1, <1>2, <1>3, <1>4, <1>5, <1>6 DEF Continue, GoesOn

\* A call that starts.
LEMMA BeginFits ==
  ASSUME WellTyped, NEW c \in Calls, NEW x, x \in CallRecord, Argued(x), Begin(c, x)
  PROVE  OnlyCall(c) /\ call'[c] = x /\ call[c].pc = "idle"
BY CallBecomes DEF Begin, At

LEMMA StartMoves ==
  ASSUME WellTyped, NEW c \in Calls, Start(c)
  PROVE  /\ OnlyCall(c) /\ Stays(c) /\ At(c, "idle")
         /\ UNCHANGED <<now, live, row, audited>> /\ leave' \in [Dates -> Leaves]
<1>t. /\ live \in Policies /\ now \in Nat /\ leave \in [Dates -> Leaves] /\ row \in [Ids -> RowRecord]
      /\ NoCall \in CallRecord /\ Dates \subseteq Int /\ LeaveKinds \subseteq Leaves /\ 0 \in Int
  BY NoCallFits, AttendanceAssumption DEF WellTyped, TypeOK, Leaves
<1> DEFINE Fresh(x) == x \in CallRecord /\ Argued(x) /\ x.pc \notin SweepLabels
           Goal == /\ OnlyCall(c) /\ Stays(c) /\ At(c, "idle")
                   /\ UNCHANGED <<now, live, row, audited>> /\ leave' \in [Dates -> Leaves]
<1>0. ASSUME NEW x, Fresh(x), Begin(c, x), UNCHANGED <<now, live, row, audited>>, leave' \in [Dates -> Leaves]
      PROVE  Goal
  BY <1>0, BeginFits DEF Stays, At
<1>u. UNCHANGED leave => leave' \in [Dates -> Leaves]
  BY <1>t
<1>m. \A i \in Ids : Merged(row[i].snap, live) \in Policies
  BY <1>t DEF Merged, RowRecord
<1> SUFFICES Goal
  OBVIOUS
<1> HIDE DEF Goal
<1>1. CASE CheckInStart(c)
  <2> DEFINE x == [NoCall EXCEPT !.pc = "inLeave", !.t = now, !.date = WorkDate(now), !.p = live]
  <2>1. WorkDate(now) \in Dates /\ CheckInWithinAllowedWindow(now, WorkDate(now), live) /\ Begin(c, x)
        /\ UNCHANGED <<now, live, leave, row, audited>>
    BY <1>1 DEF CheckInStart
  <2>2. x \in CallRecord /\ x.pc = "inLeave" /\ x.t = now /\ x.date = WorkDate(now) /\ x.p = live
    BY <1>t, <2>1 DEF CallRecord, Labels
  <2> HIDE DEF x
  <2>3. Fresh(x)
    BY <1>t, <2>1, <2>2 DEF Argued, SweepLabels
  <2>4. QED
    BY <1>0, <1>u, <2>1, <2>3
<1>2. CASE CheckOutStart(c)
  <2> DEFINE d == WorkDate(now)
             i == Today(d)
             e == d - 1
             rec == [NoCall EXCEPT !.pc = "outPrev", !.t = now, !.date = e, !.p = live]
             x == [rec EXCEPT !.date = 0, !.pc = "outBefore", !.i = i, !.in = row[i].in,
                              !.p = Merged(row[i].snap, live)]
  <2>1. At(c, "idle") /\ UNCHANGED <<now, live, leave, row, audited>>
    BY <1>2 DEF CheckOutStart
  <2>2. call' = [call EXCEPT ![c] = rec] \/ (i # 0 /\ Open(i) /\ call' = [call EXCEPT ![c] = x])
    <3>1. i # 0 /\ Open(i) /\ CheckOutOf(c, i, [rec EXCEPT !.date = 0]) => call' = [call EXCEPT ![c] = x]
      BY <1>t DEF CheckOutOf, CallRecord
    <3> HIDE DEF x
    <3>2. QED
      BY <1>2, <3>1 DEF CheckOutStart, HasCheckIn
  <2>3. e \in Int
    BY <1>t, PolicyAssumption DEF WorkDate
  <2>4. i \in Ids \cup {0}
    BY DEF Today, LiveOn
  <2> HIDE DEF d, i, e
  <2>5. rec \in CallRecord /\ rec.pc = "outPrev"
    BY <1>t, <2>3 DEF CallRecord, Labels
  <2>6. ASSUME i # 0, Open(i) PROVE Fresh(x)
    <3>1. i \in Ids /\ row[i].in \in Times
      BY <1>t, <2>4, <2>6 DEF RowRecord
    <3>2. x \in CallRecord /\ x.pc = "outBefore" /\ x.i = i
      BY <1>t, <1>m, <2>5, <3>1 DEF CallRecord, Labels
    <3> HIDE DEF x
    <3>3. QED
      BY <3>1, <3>2 DEF Argued, SweepLabels
  <2> HIDE DEF rec, x
  <2>7. Fresh(rec)
    BY <2>5 DEF Argued, SweepLabels
  <2>8. QED
    BY <1>0, <1>u, <2>1, <2>2, <2>6, <2>7 DEF Begin
<1>3. ASSUME NEW d \in Dates, NEW typed \in Typed, ManualStart(c, d, typed[1], typed[2])
      PROVE  Goal
  <2> DEFINE x == [NoCall EXCEPT !.pc = "manFind", !.date = d, !.in = typed[1], !.out = typed[2], !.p = live,
                                 !.leave = leave[d]]
  <2>1. typed[1] \in Times /\ typed[2] \in Times
    BY AttendanceAssumption
  <2>2. x \in CallRecord /\ x.pc = "manFind" /\ x.date = d
    BY <1>t, <2>1 DEF CallRecord, Labels
  <2>3. Begin(c, x) /\ UNCHANGED <<now, live, leave, row, audited>>
    BY <1>3 DEF ManualStart
  <2> HIDE DEF x
  <2>4. Fresh(x)
    BY <2>2 DEF Argued, SweepLabels
  <2>5. QED
    BY <1>0, <1>u, <2>3, <2>4
<1>4. ASSUME NEW i \in Ids, NEW typed \in Corrected, UpdateStart(c, i, typed[1], typed[2])
      PROVE  Goal
  <2> DEFINE old == [in |-> row[i].in, out |-> row[i].out]
             x == [NoCall EXCEPT !.pc = "updLeave", !.i = i, !.in = typed[1], !.out = typed[2],
                                 !.p = Merged(row[i].snap, live), !.old = old, !.date = row[i].date]
  <2>1. typed[1] \in Times /\ typed[2] \in Times /\ old \in [in : Times, out : Times] /\ row[i].date \in Int
    BY <1>t, AttendanceAssumption DEF RowRecord
  <2>2. Begin(c, x) /\ UNCHANGED <<now, live, leave, row, audited>>
    BY <1>4 DEF UpdateStart
  <2> HIDE DEF old
  <2>3. x \in CallRecord /\ x.pc = "updLeave" /\ x.i = i
    BY <1>t, <1>m, <2>1 DEF CallRecord, Labels
  <2> HIDE DEF x
  <2>4. Fresh(x)
    BY <2>3 DEF Argued, SweepLabels
  <2>5. QED
    BY <1>0, <1>u, <2>2, <2>4
<1>5. ASSUME NEW i \in Ids, DeleteStart(c, i) \/ RestoreStart(c, i)
      PROVE  Goal
  <2>1. ASSUME NEW l \in {"delWrite", "restWrite"} PROVE Fresh([NoCall EXCEPT !.pc = l, !.i = i])
    BY <1>t DEF CallRecord, Labels, Argued, SweepLabels
  <2>2. QED
    BY <1>0, <1>5, <1>u, <2>1 DEF DeleteStart, RestoreStart
<1>6. ASSUME NEW d \in Dates, NEW l \in LeaveKinds, LeaveApproved(c, d, l)
      PROVE  Goal
  <2>1. Fresh([NoCall EXCEPT !.pc = "syncFind", !.date = d, !.leave = l])
    BY <1>t DEF CallRecord, Labels, Argued, SweepLabels
  <2>2. leave' \in [Dates -> Leaves]
    BY <1>t, <1>6 DEF LeaveApproved
  <2>3. QED
    BY <1>0, <1>6, <2>1, <2>2 DEF LeaveApproved
<1>7. ASSUME NEW d \in Dates, LeaveReversed(c, d)
      PROVE  Goal
  <2>1. Fresh([NoCall EXCEPT !.pc = "unsync", !.date = d])
    BY <1>t DEF CallRecord, Labels, Argued, SweepLabels
  <2>2. leave' \in [Dates -> Leaves]
    BY <1>t, <1>7 DEF LeaveReversed, Leaves
  <2>3. QED
    BY <1>0, <1>7, <2>1, <2>2 DEF LeaveReversed
<1>8. QED
  BY <1>1, <1>2, <1>3, <1>4, <1>5, <1>6, <1>7 DEF Start

\* What a sweep lists.
Item(i) == [i |-> i, in |-> row[i].in, p |-> Merged(row[i].snap, live), date |-> row[i].date]

LEMMA SweepStartMoves ==
  ASSUME WellTyped, NEW c \in Calls, SweepStart(c)
  PROVE  /\ OnlyCall(c) /\ At(c, "idle") /\ UNCHANGED <<now, live, leave, row, audited>>
         /\ call'[c].pc = "sweep"
         /\ \A r \in call'[c].rows : \E i \in Ids : Open(i) /\ r = Item(i)
<1>1. PICK I \in SUBSET Ids :
        /\ Listed(I)
        /\ Begin(c, [NoCall EXCEPT !.pc = "sweep", !.t = now, !.rows = {Item(i) : i \in I}])
        /\ UNCHANGED <<now, live, leave, row, audited>>
  BY DEF SweepStart, Item
<1> DEFINE rows == {Item(i) : i \in I}
           x == [NoCall EXCEPT !.pc = "sweep", !.t = now, !.rows = rows]
<1>2. \A r \in rows : \E i \in Ids : Open(i) /\ r = Item(i)
  BY <1>1 DEF Listed
<1>3. \A i \in Ids : Item(i) \in Snapshots
  BY DEF WellTyped, TypeOK, RowRecord, Snapshots, Item, Merged
<1>4. rows \subseteq Snapshots
  BY <1>3
<1>5. Begin(c, x)
  BY <1>1
<1> HIDE DEF rows
<1>6. x \in CallRecord /\ x.pc = "sweep" /\ x.rows = rows
  BY <1>4, NoCallFits DEF WellTyped, TypeOK, CallRecord, Labels
<1> HIDE DEF x
<1>7. Argued(x)
  BY <1>6 DEF Argued
<1>8. QED
  BY <1>1, <1>2, <1>5, <1>6, <1>7, BeginFits DEF At

\* The kinds of steps there are.
LEMMA Steps ==
  ASSUME Next
  PROVE  \/ Tick \/ \E p \in Policies : PolicyChanges(p)
         \/ \E c \in Calls : /\ Start(c) \/ SweepStart(c) \/ GoesOn(c)
                            /\ started' \in {started, started + 1} /\ UNCHANGED asText
BY DEF Next, GoesOn

-----------------------------------------------------------------------------
(* The types.                                                              *)

LEMMA InitTyped == Init => WellTyped
<1> SUFFICES ASSUME Init PROVE WellTyped
  OBVIOUS
<1>1. 0 \in 0..MaxRows
  BY AttendanceAssumption
<1>2. \A i \in Ids : row[i].st = "none" /\ ~(i <= 0)
  BY AttendanceAssumption DEF Init, NoRow, Ids
<1>3. InOrder
  BY <1>1, <1>2 DEF InOrder
<1>4. TypeOK
  BY NoRowFits, NoCallFits DEF Init, TypeOK, Leaves
<1>5. QED
  BY <1>3, <1>4, NoCallFits DEF Init, WellTyped

LEMMA TypedStep == WellTyped /\ [Next]_vars => WellTyped'
<1> SUFFICES ASSUME WellTyped, [Next]_vars PROVE WellTyped'
  OBVIOUS
<1>t. TypeOK /\ InOrder /\ \A c \in Calls : Argued(call[c])
  BY DEF WellTyped
<1>o. UNCHANGED row => InOrder'
  BY <1>t DEF InOrder
<1>c. ASSUME NEW c \in Calls, OnlyCall(c), row' \in [Ids -> RowRecord], InOrder',
             audited' \in [Ids -> Calls \cup {"yes", "other"}],
             UNCHANGED <<now, live, asText>>, leave' \in [Dates -> Leaves], started' \in Nat
      PROVE  WellTyped'
  <2>1. TypeOK'
    BY <1>t, <1>c DEF TypeOK, OnlyCall
  <2>2. \A d \in Calls : Argued(call'[d])
    BY <1>t, <1>c DEF OnlyCall
  <2>3. QED
    BY <1>c, <2>1, <2>2 DEF WellTyped, Argued
<1>1. CASE UNCHANGED vars
  BY <1>1, <1>t DEF vars, WellTyped, TypeOK, InOrder, Argued
<1>2. CASE Tick \/ \E p \in Policies : PolicyChanges(p)
  <2>1. UNCHANGED <<row, audited, call, leave, asText>> /\ live' \in Policies /\ now' \in Nat /\ started' \in Nat
    BY <1>2, <1>t DEF Tick, PolicyChanges, TypeOK
  <2>2. QED
    BY <1>o, <1>t, <2>1 DEF WellTyped, TypeOK, Argued
<1>3. ASSUME NEW c \in Calls, Start(c) \/ SweepStart(c) \/ GoesOn(c), started' \in {started, started + 1},
             UNCHANGED asText
      PROVE  WellTyped'
  <2>1. started' \in Nat
    BY <1>3, <1>t DEF TypeOK
  <2>2. CASE Start(c)
    BY <1>3, <1>c, <1>o, <1>t, <2>1, <2>2, StartMoves DEF TypeOK
  <2>3. CASE SweepStart(c)
    BY <1>3, <1>c, <1>o, <1>t, <2>1, <2>3, SweepStartMoves DEF TypeOK
  <2>4. CASE GoesOn(c)
    BY <1>3, <1>c, <1>t, <2>1, <2>4, ContinueMoves DEF TypeOK, Moves, TablesTyped
  <2>5. QED
    BY <1>3, <2>2, <2>3, <2>4
<1>4. QED
  BY <1>1, <1>2, <1>3, Steps

LEMMA AlwaysTyped == Spec => []WellTyped
BY InitTyped, TypedStep, PTL DEF Spec

\* The tables and the calls keep their types: numbers of rows are never used
\* twice, whatever rows are deleted, and every statement has what it needs.
THEOREM TypesHold == Spec => []TypeOK
<1>1. WellTyped => TypeOK
  BY DEF WellTyped
<1>2. QED
  BY <1>1, AlwaysTyped, PTL

-----------------------------------------------------------------------------
(* The legal audit.                                                        *)

LEMMA AuditStep == WellTyped /\ AuditCovers /\ [Next]_vars => AuditCovers'
<1> SUFFICES ASSUME WellTyped, AuditCovers, [Next]_vars PROVE AuditCovers'
  OBVIOUS
<1>1. CASE UNCHANGED vars \/ Tick \/ \E p \in Policies : PolicyChanges(p)
  BY <1>1 DEF vars, Tick, PolicyChanges, AuditCovers
<1>2. ASSUME NEW c \in Calls, Start(c) \/ SweepStart(c)
      PROVE  AuditCovers'
  <2>1. At(c, "idle") /\ UNCHANGED audited /\ \A d \in Calls : d # c => call'[d] = call[d]
    BY <1>2, StartMoves, SweepStartMoves DEF OnlyCall
  <2>2. QED
    BY <2>1 DEF AuditCovers, At
<1>3. ASSUME NEW c \in Calls, GoesOn(c)
      PROVE  AuditCovers'
  <2>1. ASSUME NEW i \in Ids, audited'[i] \in Calls
        PROVE  call'[audited'[i]].pc \in Logging /\ call'[audited'[i]].i = i
    <3>1. LogMove(c, i) /\ \A d \in Calls : d # c => call'[d] = call[d]
      BY <1>3, ContinueMoves DEF Moves, OnlyCall
    <3>2. CASE audited'[i] = c /\ call'[c].pc \in Logging /\ call'[c].i = i
      BY <3>2
    <3>3. CASE /\ audited'[i] = audited[i]
               /\ ~(audited[i] = c /\ At(c, "audit") /\ call[c].i = i)
               /\ ~(audited[i] = c /\ At(c, "sweepAudit") /\ call[c].i = i)
      <4>1. call[audited[i]].pc \in Logging /\ call[audited[i]].i = i
        BY <2>1, <3>3 DEF AuditCovers, Logging
      <4>2. audited[i] # c
        BY <3>3, <4>1 DEF At, Logging
      <4>3. QED
        BY <2>1, <3>1, <3>3, <4>1, <4>2
    <3>4. QED
      BY <2>1, <3>1, <3>2, <3>3 DEF LogMove
  <2>2. QED
    BY <2>1 DEF AuditCovers, Logging
<1>4. QED
  BY <1>1, <1>2, <1>3, Steps

\* The legal audit is complete: whoever wrote a row last among check-ins,
\* check-outs, HR and the sweep has logged it or is about to, however many of
\* them race.
THEOREM EveryChangeLogged == Spec => []AuditCovers
<1>1. Init => AuditCovers
  <2>1. "yes" \notin Calls
    BY AttendanceAssumption
  <2>2. QED
    BY <2>1 DEF Init, AuditCovers
<1>2. QED
  BY <1>1, AuditStep, AlwaysTyped, PTL DEF Spec

-----------------------------------------------------------------------------
(* Shifts and the rows that the sweep closes.                              *)

\* A shift lasts as long as its policy says, over midnight too, and no longer
\* than a day (attendancePolicy.ts getExpectedShiftHours).
THEOREM ShiftLasts ==
  ASSUME NEW d \in Int, NEW p \in Policies
  PROVE  Expected(d, p) = ShiftLength(p) /\ ShiftLength(p) \in 1..DayLength
<1> DEFINE S == WorkDayStart[p]
           E == WorkDayEnd[p]
           L == DayLength
           dl == d * L
           from == WindowStart(d, p)
           to == WindowEnd(d, p)
<1>1. S \in 0..(L - 1) /\ E \in 0..(L - 1) /\ L \in Nat \ {0}
  BY PolicyAssumption
<1>2. dl \in Int /\ (d + 1) * L = dl + L
  BY <1>1
<1>3. from = dl + S
  BY DEF WindowStart
<1>4. E <= S => to = (d + 1) * L + E
  BY DEF WindowEnd, IsOvernightShift
<1>5. ~(E <= S) => to = dl + E
  BY DEF WindowEnd, IsOvernightShift
<1>6. Expected(d, p) = to - from
  BY DEF Expected
<1>7. /\ E > S => ShiftLength(p) = E - S
      /\ ~(E > S) => ShiftLength(p) = L - (S - E)
  BY DEF ShiftLength
<1> HIDE DEF S, E, dl, from, to
<1>8. ShiftLength(p) \in 1..L
  BY <1>1, <1>7
<1>9. to - from = ShiftLength(p)
  BY <1>1, <1>2, <1>3, <1>4, <1>5, <1>7
<1>10. QED
  BY <1>6, <1>8, <1>9

\* A check-in that is let in comes before the end of its shift.
LEMMA CheckInBeforeEnd ==
  ASSUME NEW t \in Int, NEW d \in Int, NEW p \in Policies, ShiftsCover, CheckInWithinAllowedWindow(t, d, p)
  PROVE  t <= WindowEnd(d, p)
<1> DEFINE a == WindowStart(d, p)
           b == WindowEnd(d, p)
<1>1. a \in Int /\ b \in Int /\ EndOffset \in Int
  <2>1. WorkDayStart[p] \in Int /\ WorkDayEnd[p] \in Int /\ d * DayLength \in Int /\ (d + 1) * DayLength \in Int
    BY PolicyAssumption
  <2>2. QED
    BY <2>1, PolicyAssumption DEF WindowStart, WindowEnd
<1>2. b - a = ShiftLength(p) /\ ShiftLength(p) \in Int
  BY ShiftLasts, PolicyAssumption DEF Expected
<1>3. t <= a + EndOffset /\ EndOffset <= ShiftLength(p)
  BY DEF CheckInWithinAllowedWindow, ShiftsCover
<1> HIDE DEF a, b
<1>4. t <= b
  BY <1>1, <1>2, <1>3
<1>5. QED
  BY <1>4 DEF b

\* The same of the next state, of a row or an item that a step may change itself.
UntouchedNext(i) == row'[i].st \in {"live", "deleted"} /\ ~row'[i].edited
EndNext(i) == WindowEnd(row'[i].date, row'[i].snap)
FaithfulNext(r) ==
  /\ row'[r.i].st # "none"
  /\ UntouchedNext(r.i) => /\ r.in = row'[r.i].in /\ r.in # None
                           /\ r.date = row'[r.i].date /\ r.p = row'[r.i].snap
ClosingNext(i, out) == row'[i].st # "none" /\ (UntouchedNext(i) => row'[i].in # None /\ out = EndNext(i))

LEMMA NextForeseen ==
  ASSUME \A d \in Calls :
           /\ call'[d].pc \in SweepLabels => \A r \in call'[d].rows : FaithfulNext(r)
           /\ call'[d].pc \in {"sweepBefore", "sweepUpdate"} => ClosingNext(call'[d].i, call'[d].out)
  PROVE  Foreseen'
BY DEF Foreseen, Faithful, Closing, FaithfulNext, ClosingNext, UntouchedNext, EndNext,
       Untouched, Exists, ShiftEnd, SweepLabels

\* What becomes of a row that HR has not edited after a step.
LEMMA StillUntouched ==
  ASSUME NEW c \in Calls, \A i \in Ids : RowMove(c, i)
  PROVE  \A i \in Ids : row[i].st # "none" /\ UntouchedNext(i) =>
           /\ Untouched(i) /\ row'[i].in = row[i].in /\ row'[i].snap = row[i].snap /\ row'[i].date = row[i].date
           /\ EndNext(i) = ShiftEnd(i)
<1>1. \A i \in Ids : row[i].st # "none" /\ UntouchedNext(i) =>
        Untouched(i) /\ row'[i].in = row[i].in /\ row'[i].snap = row[i].snap /\ row'[i].date = row[i].date
  BY DEF RowMove, Untouched, Exists, UntouchedNext
<1>2. QED
  BY <1>1 DEF EndNext, ShiftEnd

\* What was listed, or is about to be closed, stays so while rows move.
LEMMA StaysForeseen ==
  ASSUME WellTyped, Foreseen, NEW c \in Calls, \A i \in Ids : RowMove(c, i)
  PROVE  \A d \in Calls :
           /\ call[d].pc \in SweepLabels => \A r \in call[d].rows : FaithfulNext(r)
           /\ call[d].pc \in {"sweepBefore", "sweepUpdate"} => ClosingNext(call[d].i, call[d].out)
<1>1. \A i \in Ids : row[i].st # "none" => row'[i].st # "none"
  BY DEF RowMove
<1> SUFFICES ASSUME NEW d \in Calls
             PROVE  /\ call[d].pc \in SweepLabels => \A r \in call[d].rows : FaithfulNext(r)
                    /\ call[d].pc \in {"sweepBefore", "sweepUpdate"} => ClosingNext(call[d].i, call[d].out)
  OBVIOUS
<1>2. ASSUME call[d].pc \in SweepLabels, NEW r \in call[d].rows
      PROVE  FaithfulNext(r)
  <2>1. r.i \in Ids /\ Faithful(r)
    BY <1>2 DEF WellTyped, TypeOK, CallRecord, Snapshots, Foreseen
  <2>2. QED
    BY <1>1, <2>1, StillUntouched DEF Faithful, FaithfulNext
<1>3. ASSUME call[d].pc \in {"sweepBefore", "sweepUpdate"}
      PROVE  ClosingNext(call[d].i, call[d].out)
  <2>1. call[d].i \in Ids /\ Closing(call[d])
    BY <1>3 DEF WellTyped, Argued, Foreseen
  <2>2. QED
    BY <1>1, <2>1, StillUntouched DEF Closing, ClosingNext
<1>4. QED
  BY <1>2, <1>3

\* The step of a call that is in progress.
LEMMA InTimeContinues ==
  ASSUME WellTyped, ShiftsCover, Punched, Foreseen, ClosedLate, NEW c \in Calls, GoesOn(c)
  PROVE  Punched' /\ Foreseen' /\ ClosedLate'
<1>m. OnlyCall(c) /\ SweepMove(c) /\ \A i \in Ids : RowMove(c, i)
  BY ContinueMoves DEF Moves
<1>u. \A i \in Ids : row[i].st # "none" /\ UntouchedNext(i) =>
        /\ Untouched(i) /\ row'[i].in = row[i].in /\ row'[i].snap = row[i].snap /\ row'[i].date = row[i].date
        /\ EndNext(i) = ShiftEnd(i)
  BY <1>m, StillUntouched
<1>1. Punched'
  <2>1. ASSUME NEW i \in Ids, UntouchedNext(i), row'[i].in # None
        PROVE  row'[i].snap \in Policies /\ row'[i].in <= EndNext(i)
    <3>1. CASE row[i].st # "none"
      BY <1>u, <2>1, <3>1 DEF Punched
    <3>2. CASE row[i].st = "none"
      <4>1. /\ At(c, "inInsert")
            /\ row'[i].in = call[c].t /\ row'[i].snap = call[c].p /\ row'[i].date = call[c].date
        BY <1>m, <2>1, <3>2 DEF RowMove, Untouched, Exists, UntouchedNext
      <4>2. /\ call[c].p \in Policies /\ call[c].date \in Int /\ call[c].t \in Int
            /\ CheckInWithinAllowedWindow(call[c].t, call[c].date, call[c].p)
        BY <4>1 DEF WellTyped, TypeOK, Argued, At, CallRecord
      <4>3. call[c].t <= WindowEnd(call[c].date, call[c].p)
        BY <4>2, CheckInBeforeEnd
      <4>4. QED
        BY <4>1, <4>2, <4>3 DEF EndNext
    <3>3. QED
      BY <3>1, <3>2
  <2>2. QED
    BY <2>1 DEF Punched, Untouched, Exists, ShiftEnd, UntouchedNext, EndNext
<1>2. Foreseen'
  <2>s. \A d \in Calls :
          /\ call[d].pc \in SweepLabels => \A r \in call[d].rows : FaithfulNext(r)
          /\ call[d].pc \in {"sweepBefore", "sweepUpdate"} => ClosingNext(call[d].i, call[d].out)
    BY <1>m, StaysForeseen
  <2>1. ASSUME NEW d \in Calls, d # c
        PROVE  call'[d] = call[d]
    BY <1>m, <2>1 DEF OnlyCall
  <2>2. call'[c].pc \in SweepLabels => \A r \in call'[c].rows : FaithfulNext(r)
    BY <1>m, <2>s DEF SweepMove
  <2>3. ASSUME call'[c].pc \in {"sweepBefore", "sweepUpdate"}
        PROVE  ClosingNext(call'[c].i, call'[c].out)
    <3>1. /\ call[c].pc \in SweepLabels
          /\ \/ At(c, "sweepBefore") /\ call'[c].i = call[c].i /\ call'[c].out = call[c].out
             \/ \E r \in call[c].rows : call'[c].i = r.i /\ call'[c].out = WindowEnd(r.date, r.p)
      BY <1>m, <2>3 DEF SweepMove, SweepLabels
    <3>2. CASE At(c, "sweepBefore") /\ call'[c].i = call[c].i /\ call'[c].out = call[c].out
      BY <2>s, <3>2 DEF At
    <3>3. ASSUME NEW r \in call[c].rows, call'[c].i = r.i, call'[c].out = WindowEnd(r.date, r.p)
          PROVE  ClosingNext(call'[c].i, call'[c].out)
      BY <2>s, <3>1, <3>3 DEF FaithfulNext, ClosingNext, EndNext
    <3>4. QED
      BY <3>1, <3>2, <3>3
  <2>4. QED
    BY <2>s, <2>1, <2>2, <2>3, NextForeseen
<1>3. ClosedLate'
  <2>1. ASSUME NEW i \in Ids, UntouchedNext(i), row'[i].auto
        PROVE  row'[i].in <= row'[i].out
    <3>1. /\ Untouched(i) /\ row'[i].in = row[i].in
          /\ \/ row'[i].out = row[i].out /\ row'[i].auto = row[i].auto
             \/ At(c, "sweepUpdate") /\ i = call[c].i /\ row'[i].out = call[c].out
      BY <1>m, <2>1 DEF RowMove, Untouched, Exists, UntouchedNext
    <3>2. CASE row'[i].out = row[i].out /\ row'[i].auto = row[i].auto
      BY <2>1, <3>1, <3>2 DEF ClosedLate
    <3>3. CASE At(c, "sweepUpdate") /\ i = call[c].i /\ row'[i].out = call[c].out
      <4>1. Closing(call[c])
        BY <3>3 DEF Foreseen, At
      <4>2. row[i].in # None /\ call[c].out = ShiftEnd(i)
        BY <3>1, <3>3, <4>1 DEF Closing
      <4>3. QED
        BY <3>1, <3>3, <4>2 DEF Punched
    <3>4. QED
      BY <3>1, <3>2, <3>3
  <2>2. QED
    BY <2>1 DEF ClosedLate, Untouched, Exists, UntouchedNext
<1>4. QED
  BY <1>1, <1>2, <1>3

\* A call, or a sweep, that starts: the rows stay.
LEMMA InTimeStarts ==
  ASSUME WellTyped, Punched, Foreseen, ClosedLate, NEW c \in Calls, Start(c) \/ SweepStart(c)
  PROVE  Punched' /\ Foreseen' /\ ClosedLate'
<1>1. OnlyCall(c) /\ UNCHANGED row
  BY StartMoves, SweepStartMoves
<1>2. Punched' /\ ClosedLate'
  BY <1>1 DEF Punched, ClosedLate, Untouched, Exists, ShiftEnd
<1>3. /\ call'[c].pc \in SweepLabels => \A r \in call'[c].rows : Faithful(r)
      /\ call'[c].pc \notin {"sweepBefore", "sweepUpdate"}
  <2>1. CASE Start(c)
    BY <2>1, StartMoves DEF Stays, At, SweepLabels
  <2>2. CASE SweepStart(c)
    <3>1. call'[c].pc = "sweep" /\ \A r \in call'[c].rows : \E i \in Ids : Open(i) /\ r = Item(i)
      BY <2>2, SweepStartMoves
    <3>2. ASSUME NEW i \in Ids, Open(i) PROVE Faithful(Item(i))
      <4>1. row[i].st = "live" /\ row[i].in # None
        BY <3>2 DEF Open, Live
      <4>2. Untouched(i) => Merged(row[i].snap, live) = row[i].snap
        BY <4>1, AttendanceAssumption DEF Punched, Merged
      <4>3. QED
        BY <4>1, <4>2 DEF Faithful, Item
    <3>3. QED
      BY <3>1, <3>2
  <2>3. QED
    BY <2>1, <2>2
<1>4. Foreseen'
  BY <1>1, <1>3 DEF Foreseen, OnlyCall, Faithful, Closing, Untouched, Exists, ShiftEnd, SweepLabels
<1>5. QED
  BY <1>2, <1>4

LEMMA InTimeStep == WellTyped /\ InTime /\ [Next]_vars => InTime'
<1> SUFFICES ASSUME WellTyped, InTime, [Next]_vars, ShiftsCover PROVE Punched' /\ Foreseen' /\ ClosedLate'
  BY DEF InTime, ShiftsCover
<1>0. Punched /\ Foreseen /\ ClosedLate
  BY DEF InTime
<1>1. CASE UNCHANGED vars \/ Tick \/ \E p \in Policies : PolicyChanges(p)
  <2>1. UNCHANGED <<row, call>>
    BY <1>1 DEF vars, Tick, PolicyChanges
  <2>2. QED
    BY <1>0, <2>1 DEF Punched, Foreseen, ClosedLate, Faithful, Closing, Untouched, Exists, ShiftEnd
<1>2. QED
  BY <1>0, <1>1, Steps, InTimeStarts, InTimeContinues

\* A row the sweep closed, and HR did not edit, ends after it began: of day and
\* overnight shifts, under any change of the policy in effect and any deletion
\* or restoration in between, if nobody may check in after the shift is over.
THEOREM AutoClosesAfterCheckIn == Spec => []AutoCloseAfterCheckIn
<1>1. Init => InTime
  <2>1. ASSUME Init PROVE Punched /\ Foreseen /\ ClosedLate
    <3>1. \A i \in Ids : ~Untouched(i)
      BY <2>1 DEF Init, NoRow, Untouched, Exists
    <3>2. \A c \in Calls : call[c].pc \notin SweepLabels
      BY <2>1, NoCallFits DEF Init, SweepLabels
    <3>3. QED
      BY <3>1, <3>2 DEF Punched, Foreseen, ClosedLate, SweepLabels
  <2>2. QED
    BY <2>1 DEF InTime
<1>2. InTime => AutoCloseAfterCheckIn
  BY DEF InTime, AutoCloseAfterCheckIn, ShiftsCover, ClosedLate, Untouched
<1>3. QED
  BY <1>1, <1>2, InTimeStep, AlwaysTyped, PTL DEF Spec

\* The punch of a row is HR's alone to change: nothing else moves the check-in,
\* the date or the frozen policy of a row, and once made its number is never
\* given to another (attendance_records is written by six handlers and the
\* leave system).
THEOREM PunchesStay ==
  Spec => [][\A i \in Ids :
               /\ row[i].st # "none" => row'[i].st # "none"
               /\ row[i].st # "none" /\ Untouched(i)' =>
                    /\ Untouched(i)
                    /\ row'[i].in = row[i].in /\ row'[i].date = row[i].date /\ row'[i].snap = row[i].snap]_vars
<1> DEFINE Kept == \A i \in Ids :
                     /\ row[i].st # "none" => row'[i].st # "none"
                     /\ row[i].st # "none" /\ Untouched(i)' =>
                          /\ Untouched(i)
                          /\ row'[i].in = row[i].in /\ row'[i].date = row[i].date /\ row'[i].snap = row[i].snap
<1>1. WellTyped /\ [Next]_vars => [Kept]_vars
  <2> SUFFICES ASSUME WellTyped, Next PROVE Kept
    OBVIOUS
  <2>1. CASE UNCHANGED row
    BY <2>1 DEF Untouched, Exists
  <2>2. ASSUME NEW c \in Calls, GoesOn(c)
        PROVE  Kept
    <3>1. \A i \in Ids : RowMove(c, i)
      BY <2>2, ContinueMoves DEF Moves
    <3>2. QED
      BY <3>1 DEF RowMove
  <2>3. QED
    BY <2>1, <2>2, Steps, StartMoves, SweepStartMoves DEF Tick, PolicyChanges
<1>2. QED
  BY <1>1, AlwaysTyped, PTL DEF Spec

-----------------------------------------------------------------------------
(* The status and the overtime of a day.                                   *)

\* The sweep judges a day like a check-out at the same moment would, but for a
\* short day begun in time, which it calls a half day (attendancePolicy.ts
\* deriveStatus and deriveAutoCheckoutClosingStatus).
THEOREM SweepJudgesAlike ==
  ASSUME NEW in, NEW out, out # None, NEW p, NEW l
  PROVE  DeriveAutoCheckoutClosingStatus(in, out, p, l) =
           IF DeriveStatus(in, out, p, l) = "short_hours" THEN "half_day" ELSE DeriveStatus(in, out, p, l)
BY DEF DeriveStatus, DeriveAutoCheckoutClosingStatus, DayOff

\* No day earns overtime and is reckoned short, whatever the percentage that
\* makes a half day, the length of the shift and the leave (attendancePolicy.ts
\* overtimeHours, isShortDay).
THEOREM OvertimeIsNoShortDay ==
  ASSUME NEW in \in Times, NEW out \in Times, NEW p \in Policies, NEW l, NEW minimum \in Nat,
         Overtime(in, out, p, l, minimum) # 0
  PROVE  ~IsShortDay(in, out, p, l)
<1> DEFINE H == HoursWorked(in, out)
           X == Expected(WorkDate(in), p)
           Y == HalfDayPercent[p]
           P == Parts(l)
<1>1. H \in Nat
  BY DEF HoursWorked, Times, None
<1>2. X \in Nat
  <2>1. WorkDate(in) \in Int /\ DayLength \in Nat
    BY PolicyAssumption DEF WorkDate, Times, None
  <2>2. QED
    BY <2>1, ShiftLasts
<1>3. Y \in 1..100
  BY PolicyAssumption
<1>4. P \in {1, 2}
  BY DEF Parts
<1>5. H * P - X > 0
  <2> DEFINE raw == H * P - X
  <2>1. ~(raw <= 0)
    BY DEF Overtime
  <2>2. raw \in Int
    BY <1>1, <1>2, <1>4
  <2> HIDE DEF raw
  <2>3. raw > 0
    BY <2>1, <2>2
  <2>4. QED
    BY <2>3 DEF raw
<1>6. IsShortDay(in, out, p, l) <=> H * 100 * P < Y * X
  BY DEF IsShortDay
<1> HIDE DEF H, X, Y, P
<1>7. Y * X <= 100 * X
  <2>1. (100 - Y) * X >= 0
    BY <1>2, <1>3
  <2>2. (100 - Y) * X = 100 * X - Y * X
    BY <1>2, <1>3
  <2>3. QED
    BY <1>2, <1>3, <2>1, <2>2
<1>8. H * 100 * P = 100 * (H * P)
  BY <1>1, <1>4
<1>9. H * P \in Nat /\ Y * X \in Nat
  BY <1>1, <1>2, <1>3, <1>4
<1>10. QED
  BY <1>2, <1>5, <1>6, <1>7, <1>8, <1>9
=============================================================================
