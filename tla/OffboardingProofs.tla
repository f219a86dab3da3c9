-------------------------- MODULE OffboardingProofs --------------------------
(* Theorems about Offboarding composed with AssetCustody, for every set of  *)
(* employees, stock items and calls, any quantities, and any number of rows *)
(* and records.                                                             *)
EXTENDS Offboarding, FiniteSetTheorems, TLAPS

AssignLabels == {"assignStock", "assignTag", "assignInsert", "assignDecrement"}
RecordLabels == {"standardTask", "readAssets", "assetTask", "readTasks", "completeRecord",
                 "offboardEmployee", "auditComplete", "cancelRecord", "setExitDate", "setTask",
                 "deleteTasks", "deleteRecord"}
CompletionLabels == {"readTasks", "completeRecord", "offboardEmployee", "auditComplete",
                     "listByUser", "listByMail"}
Over == Closed \cup {"deleted"}

\* What the record of a call holds at each of its statements.
Argued(k) ==
  /\ k.pc = "idle" => k = NoCall
  /\ k.pc \in AssignLabels => k.s \in StockItems
  /\ k.pc \in AssignLabels \cup CompletionLabels \cup {"checkActive", "createRecord"} => k.e \in Employees
  /\ k.pc \in RecordLabels \cup CompletionLabels \/ k.then = "linked" => k.r \in Records
  /\ k.pc = "setTask" => k.st \in TaskStatuses \ {"none"}
  /\ k.pc \in {"returnDelete", "returnIncrement"} => k.i \in Rows

\* What a call knows of the tables: that the rows and the record it works on
\* exist, whose record it is, and that one it deletes is closed.
Knows(k) ==
  /\ \A i \in k.todo : asg[i].st # "none"
  /\ k.pc \in {"returnDelete", "setTask"} /\ k.i \in Rows => asg[k.i].st # "none"
  /\ k.pc = "returnIncrement" => asg[k.i].st = "gone"
  /\ k.pc = "assignInsert" => k.tag \in 1..NextRow
  /\ k.r \in Records => orec[k.r].st # "none"
  /\ k.pc \in CompletionLabels => orec[k.r].e = k.e
  /\ k.pc \in {"deleteTasks", "deleteRecord"} => orec[k.r].st \in Over

RecordType == [st : RecordStatuses, e : Employees \cup {Nobody}, ahead : BOOLEAN]

\* Rows and records are inserted one after the other, under growing tags.
RowsInOrder ==
  /\ \E n \in 0..MaxRows : \A i \in Rows : asg[i].st # "none" <=> i <= n
  /\ \A i \in Rows : asg[i].st # "none" => asg[i].tag \in 1..i /\ asg[i].item \in StockItems
RecordsInOrder ==
  /\ \E n \in 0..MaxRecords : \A r \in Records : orec[r].st # "none" <=> r <= n
  /\ \A r \in Records : orec[r].st # "none" => orec[r].e \in Employees

\* Tasks are about records and rows that exist.
TasksKnown ==
  \A r \in Records, t \in Tasks :
    tsk[r][t] # "none" => orec[r].st # "none" /\ (t \in Rows => asg[t].st # "none")

WellTyped ==
  /\ TypeOK /\ RowsInOrder /\ RecordsInOrder /\ TasksKnown
  /\ \A c \in Calls : Argued(call[c]) /\ Knows(call[c])

-----------------------------------------------------------------------------
(* Numbers given out in order.                                             *)

\* A set of numbers up to n that has an element has a largest one.
LEMMA LargestThere ==
  ASSUME NEW n \in Nat, NEW T \in SUBSET (0..n), T # {}
  PROVE  Max(T) \in T /\ \A t \in T : t <= Max(T)
<1> DEFINE U == {n - t : t \in T}
<1>1. U \subseteq Nat /\ U # {}
  <2>1. \A t \in T : t \in 0..n /\ n - t \in Nat
    OBVIOUS
  <2>2. PICK t \in T : TRUE
    OBVIOUS
  <2>3. n - t \in U
    BY <2>2
  <2>4. QED
    BY <2>1, <2>3
<1>2. \E u \in U : \A v \in U : ~(<<v, u>> \in OpToRel(<, Nat))
  BY <1>1, WFMin, NatLessThanWellFounded
<1>3. PICK u \in U : \A v \in U : ~(v < u)
  BY <1>1, <1>2 DEF OpToRel
<1>4. PICK t \in T : u = n - t
  BY <1>3
<1>5. \A v \in T : t >= v
  <2> SUFFICES ASSUME NEW v \in T PROVE t >= v
    OBVIOUS
  <2>1. n - v \in U /\ ~(n - v < n - t)
    BY <1>3, <1>4
  <2>2. QED
    BY <2>1
<1>6. \E m \in T : \A v \in T : m >= v
  BY <1>5
<1>7. Max(T) \in T /\ \A v \in T : Max(T) >= v
  BY <1>6 DEF Max
<1>8. QED
  BY <1>7

\* The next row is one nobody has inserted.
LEMMA NextRowFresh ==
  ASSUME WellTyped
  PROVE  /\ NextRow \in 1..(MaxRows + 1)
         /\ \A i \in Rows : asg[i].st # "none" <=> i < NextRow
<1>1. PICK n \in 0..MaxRows : \A i \in Rows : asg[i].st # "none" <=> i <= n
  BY DEF WellTyped, RowsInOrder
<1>2. n \in Nat /\ 1 \in Int /\ MaxRows \in Nat
  BY CustodyAssumption
<1>3. {i \in Rows : asg[i].st # "none"} = 1..n
  BY <1>1, <1>2 DEF Rows
<1>4. Cardinality(1..n) = n
  BY <1>2, FS_Interval
<1>5. NextRow = 1 + n
  BY <1>3, <1>4 DEF NextRow
<1>6. QED
  BY <1>1, <1>2, <1>5 DEF Rows

\* The next record is one nobody has inserted.
LEMMA NextRecordFresh ==
  ASSUME WellTyped
  PROVE  /\ NextRecord \in 1..(MaxRecords + 1)
         /\ \A r \in Records : orec[r].st # "none" <=> r < NextRecord
<1>1. PICK n \in 0..MaxRecords : \A r \in Records : orec[r].st # "none" <=> r <= n
  BY DEF WellTyped, RecordsInOrder
<1>2. n \in Nat /\ 1 \in Int /\ MaxRecords \in Nat
  BY CustodyAssumption
<1>3. {r \in Records : orec[r].st # "none"} = 1..n
  BY <1>1, <1>2 DEF Records
<1>4. Cardinality(1..n) = n
  BY <1>2, FS_Interval
<1>5. NextRecord = 1 + n
  BY <1>3, <1>4 DEF NextRecord
<1>6. QED
  BY <1>1, <1>2, <1>5 DEF Records

LEMMA Types ==
  ASSUME WellTyped
  PROVE  /\ avail \in [StockItems -> Int] /\ asg \in [Rows -> Row] /\ late \subseteq Rows
         /\ listed \subseteq Employees /\ call \in [Calls -> CallRecord] /\ departed \subseteq Employees
         /\ orec \in [Records -> RecordType] /\ tsk \in [Records -> [Tasks -> TaskStatuses]]
         /\ MaxRows \in Nat /\ MaxRecords \in Nat
BY CustodyAssumption DEF WellTyped, TypeOK, AssetTypes, RecordType

\* The next tag is at most the number of the next row.
LEMMA NextTagBounded ==
  ASSUME WellTyped
  PROVE  NextTag \in 1..NextRow
<1> DEFINE T == {asg[i].tag : i \in Live}
<1>1. NextRow \in 1..(MaxRows + 1)
  BY NextRowFresh
<1>2. \A i \in Live : asg[i].tag \in 1..i /\ i \in Rows /\ i < NextRow
  BY NextRowFresh DEF Live, WellTyped, RowsInOrder
<1>3. \A i \in Live : asg[i].tag \in 1..(NextRow - 1)
  BY <1>1, <1>2, Types DEF Rows
<1>4. CASE Live = {}
  BY <1>1, <1>4 DEF NextTag
<1>5. CASE Live # {}
  <2>1. NextRow - 1 \in Nat /\ T # {} /\ T \in SUBSET (0..(NextRow - 1)) /\ T \in SUBSET (1..(NextRow - 1))
    BY <1>1, <1>3, <1>5
  <2>2. Max(T) \in T
    BY <2>1, LargestThere
  <2>3. Max(T) \in 1..(NextRow - 1) /\ NextTag = 1 + Max(T)
    BY <1>5, <2>1, <2>2 DEF NextTag
  <2>4. QED
    BY <1>1, <2>3
<1>6. QED
  BY <1>4, <1>5

-----------------------------------------------------------------------------
(* What a step does to the calls and the tables.                           *)

\* The only call that changes is c.
OnlyCall(c) ==
  /\ call' \in [Calls -> CallRecord]
  /\ \A d \in Calls : d # c => call'[d] = call[d]
  /\ Argued(call'[c])

\* Rows and records go on existing, a row keeps its item and a record its
\* employee; a row that is gone and a record that is over stay so.
Lasting ==
  /\ \A i \in Rows : asg[i].st # "none" =>
       /\ asg'[i].st # "none" /\ asg'[i].item = asg[i].item
       /\ asg[i].st = "gone" => asg'[i].st = "gone"
  /\ \A r \in Records : orec[r].st # "none" =>
       /\ orec'[r].st # "none" /\ orec'[r].e = orec[r].e
       /\ orec[r].st \in Over => orec'[r].st \in Over
  /\ NextRow' >= NextRow

\* Rows that are there stay as they are, and at most one is added.
LEMMA RowsLast ==
  ASSUME orec' = orec, NextRow \in Int, NextRow' = NextRow \/ NextRow' = NextRow + 1,
         \A i \in Rows : asg[i].st # "none" => asg'[i] = asg[i]
  PROVE  Lasting
<1>1. NextRow' >= NextRow
  <2>1. PICK n \in Int : n = NextRow
    OBVIOUS
  <2>2. PICK m : m = NextRow'
    OBVIOUS
  <2>3. m >= n
    BY <2>1, <2>2
  <2>4. QED
    BY <2>1, <2>2, <2>3
<1>2. \A i \in Rows : asg[i].st # "none" =>
        /\ asg'[i].st # "none" /\ asg'[i].item = asg[i].item
        /\ asg[i].st = "gone" => asg'[i].st = "gone"
  OBVIOUS
<1>3. \A r \in Records : orec[r].st # "none" =>
        /\ orec'[r].st # "none" /\ orec'[r].e = orec[r].e
        /\ orec[r].st \in Over => orec'[r].st \in Over
  OBVIOUS
<1>4. QED
  BY <1>1, <1>2, <1>3 DEF Lasting

TablesTyped ==
  /\ avail' \in [StockItems -> Int] /\ asg' \in [Rows -> Row] /\ late' \subseteq Rows
  /\ listed' \subseteq Employees /\ departed' \subseteq Employees
  /\ orec' \in [Records -> RecordType] /\ tsk' \in [Records -> [Tasks -> TaskStatuses]]
  /\ RowsInOrder' /\ RecordsInOrder' /\ TasksKnown'

\* What a call knows goes on being true.
LEMMA KnowsKept ==
  ASSUME WellTyped, Lasting, NextRow' \in Int, NEW d \in Calls, call'[d] = call[d]
  PROVE  Knows(call[d])'
<1>1. call[d] \in CallRecord /\ Argued(call[d]) /\ Knows(call[d])
  BY Types DEF WellTyped
<1>2. NextRow \in Int
  BY NextRowFresh
<1>3. call[d].pc \in CompletionLabels \cup {"deleteTasks", "deleteRecord"} => call[d].r \in Records
  BY <1>1 DEF Argued, RecordLabels
<1>4. call[d].todo \subseteq Rows /\ (call[d].pc = "returnIncrement" => call[d].i \in Rows)
  BY <1>1 DEF CallRecord, Argued
<1>5. \A i \in call[d].todo : asg'[i].st # "none"
  BY <1>1, <1>4 DEF Knows, Lasting
<1>6. call[d].pc = "assignInsert" => call[d].tag \in 1..NextRow'
  BY <1>1, <1>2 DEF Knows, Lasting
<1>7. QED
  BY <1>1, <1>3, <1>4, <1>5, <1>6 DEF Knows, Lasting

\* A step of c keeps all well formed if its tables and its own call do.
LEMMA StepKeeps ==
  ASSUME WellTyped, NEW c \in Calls, OnlyCall(c), Lasting, TablesTyped, Knows(call[c])', NextRow' \in Int
  PROVE  WellTyped'
<1>1. \A d \in Calls : Argued(call[d])' /\ Knows(call[d])'
  BY KnowsKept DEF WellTyped, OnlyCall
<1>2. \A i \in Rows : asg'[i].st # "none" => asg'[i].tag \in 1..MaxRows
  BY Types DEF TablesTyped, RowsInOrder, Rows
<1>3. TypeOK'
  BY <1>2 DEF TypeOK, AssetTypes, TablesTyped, OnlyCall, RecordType, Live
<1>4. QED
  BY <1>1, <1>3 DEF WellTyped, TablesTyped

\* The tables a step leaves alone.
LEMMA TablesQuiet ==
  ASSUME WellTyped, UNCHANGED <<assetVars, offVars>>
  PROVE  TablesTyped /\ Lasting /\ NextRow' = NextRow /\ NextRow \in Int
<1>1. UNCHANGED <<avail, asg, late, listed, departed, orec, tsk>>
  BY DEF assetVars, offVars
<1>2. TablesTyped
  BY <1>1, Types DEF WellTyped, TablesTyped, RowsInOrder, RecordsInOrder, TasksKnown
<1>3. NextRow' = NextRow /\ NextRow \in Int
  BY <1>1, NextRowFresh DEF NextRow
<1>4. QED
  BY <1>1, <1>2, <1>3 DEF Lasting

\* A call whose record becomes x.
LEMMA CallBecomes ==
  ASSUME WellTyped, NEW c \in Calls, NEW x \in CallRecord, Argued(x), call' = [call EXCEPT ![c] = x]
  PROVE  OnlyCall(c) /\ call'[c] = x
BY Types DEF OnlyCall

\* The same, in a step that does nothing else.
LEMMA QuietStep ==
  ASSUME WellTyped, NEW c \in Calls, NEW x \in CallRecord, Argued(x), Knows(x),
         call' = [call EXCEPT ![c] = x], UNCHANGED <<assetVars, offVars>>
  PROVE  OnlyCall(c) /\ call'[c] = x /\ WellTyped'
<1>1. OnlyCall(c) /\ call'[c] = x
  BY CallBecomes
<1>2. NextRow' = NextRow /\ UNCHANGED <<asg, orec>>
  BY TablesQuiet DEF assetVars, offVars
<1>3. Knows(call[c])'
  BY <1>1, <1>2 DEF Knows
<1>4. QED
  BY <1>1, <1>3, TablesQuiet, StepKeeps

\* A call that is over.
LEMMA NoCallFits == NoCall \in CallRecord /\ Argued(NoCall) /\ Knows(NoCall) /\ NoCall.pc = "idle"
                    /\ NoCall.r \notin Records /\ NoCall.todo = {} /\ NoCall.then = "return"
BY CustodyAssumption
   DEF NoCall, CallRecord, Argued, Knows, Labels, AssetLabels, TaskStatuses, AssignLabels, RecordLabels,
       CompletionLabels, Records

LEMMA ReturnCall ==
  ASSUME WellTyped, NEW c \in Calls, Return(c)
  PROVE  OnlyCall(c) /\ call'[c] = NoCall
BY NoCallFits, CallBecomes DEF Return

LEMMA GotoCall ==
  ASSUME WellTyped, NEW c \in Calls, NEW l \in Labels, Goto(c, l), Argued([call[c] EXCEPT !.pc = l])
  PROVE  OnlyCall(c) /\ call'[c] = [call[c] EXCEPT !.pc = l]
<1>1. [call[c] EXCEPT !.pc = l] \in CallRecord
  BY Types DEF CallRecord
<1>2. call' = [call EXCEPT ![c] = [call[c] EXCEPT !.pc = l]]
  BY Types DEF Goto
<1>3. QED
  BY <1>1, <1>2, CallBecomes

\* A call that ends without a write.
LEMMA ReturnQuiet ==
  ASSUME WellTyped, NEW c \in Calls, Return(c), UNCHANGED <<assetVars, offVars>>
  PROVE  OnlyCall(c) /\ call'[c] = NoCall /\ WellTyped'
BY NoCallFits, QuietStep DEF Return

\* A call that begins, without a write.
LEMMA BeginQuiet ==
  ASSUME WellTyped, NEW c \in Calls, NEW x \in CallRecord, Argued(x), Knows(x), Begin(c, x),
         UNCHANGED <<assetVars, offVars>>
  PROVE  OnlyCall(c) /\ call'[c] = x /\ WellTyped'
BY QuietStep DEF Begin

\* The INSERT of a row.
LEMMA InsertTyped ==
  ASSUME WellTyped, NEW s \in StockItems, NEW e \in Employees, NEW tag \in 1..NextRow, Insert(s, e, tag)
  PROVE  /\ NextRow \in Rows /\ asg[NextRow].st = "none"
         /\ asg'[NextRow] = [st |-> "live", item |-> s, user |-> e, mail |-> e, tag |-> tag]
         /\ \A i \in Rows : i # NextRow => asg'[i] = asg[i]
         /\ asg' \in [Rows -> Row] /\ late' \subseteq Rows /\ RowsInOrder'
         /\ NextRow' = NextRow + 1 /\ NextRow \in Int
<1> DEFINE n == NextRow
           x == [st |-> "live", item |-> s, user |-> e, mail |-> e, tag |-> tag]
<1>1. n \in Rows /\ n \in 1..MaxRows /\ (\A i \in Rows : asg[i].st # "none" <=> i < n) /\ MaxRows \in Nat
  BY NextRowFresh, Types DEF Insert, Rows
<1>2. x \in Row /\ x.st = "live" /\ x.item = s /\ x.tag = tag
  BY <1>1 DEF Row
<1>3. asg' = [asg EXCEPT ![n] = x]
  BY DEF Insert
<1>4. late' \subseteq Rows
  BY <1>1, Types DEF Insert, HandOver
<1> HIDE DEF n, x
<1>5. asg'[n] = x /\ (\A i \in Rows : i # n => asg'[i] = asg[i]) /\ asg' \in [Rows -> Row]
  BY <1>1, <1>2, <1>3, Types
<1>6. \A i \in Rows : asg'[i].st # "none" <=> i <= n
  <2>1. \A i \in Rows : i <= n <=> (i < n \/ i = n)
    BY <1>1 DEF Rows
  <2>2. QED
    BY <1>1, <1>2, <1>5, <2>1
<1>7. \A i \in Rows : asg'[i].st # "none" => asg'[i].tag \in 1..i /\ asg'[i].item \in StockItems
  BY <1>1, <1>2, <1>5 DEF WellTyped, RowsInOrder, n
<1>8. RowsInOrder'
  <2>1. n \in 0..MaxRows
    BY <1>1
  <2>2. QED
    BY <1>6, <1>7, <2>1 DEF RowsInOrder
<1>9. NextRow' = n + 1
  <2>1. {i \in Rows : asg'[i].st # "none"} = 1..n
    BY <1>1, <1>6 DEF Rows
  <2>2. Cardinality(1..n) = n
    BY <1>1, FS_Interval
  <2>3. NextRow' = 1 + Cardinality({i \in Rows : asg'[i].st # "none"})
    BY DEF NextRow
  <2>4. NextRow' = 1 + n
    BY <2>1, <2>2, <2>3
  <2>5. QED
    BY <1>1, <2>4
<1>10. QED
  BY <1>1, <1>4, <1>5, <1>8, <1>9 DEF n, x

\* A write of rows that exist.
LEMMA RowWritten ==
  ASSUME WellTyped, asg' \in [Rows -> Row],
         \A i \in Rows : (asg'[i].st = "none" <=> asg[i].st = "none")
                         /\ asg'[i].tag = asg[i].tag /\ asg'[i].item = asg[i].item
  PROVE  RowsInOrder' /\ NextRow' = NextRow /\ NextRow \in Int
<1>1. {i \in Rows : asg'[i].st # "none"} = {i \in Rows : asg[i].st # "none"}
  OBVIOUS
<1>2. NextRow' = NextRow
  BY <1>1 DEF NextRow
<1>3. PICK n \in 0..MaxRows : \A i \in Rows : asg[i].st # "none" <=> i <= n
  BY DEF WellTyped, RowsInOrder
<1>4. \A i \in Rows : asg'[i].st # "none" <=> i <= n
  BY <1>3
<1>5. RowsInOrder'
  BY <1>4 DEF WellTyped, RowsInOrder
<1>6. QED
  BY <1>2, <1>5, NextRowFresh

\* Steps that write assets only: the records and the tasks stay as they are.
LEMMA OffboardingQuiet ==
  ASSUME WellTyped, UNCHANGED offVars, \A i \in Rows : asg[i].st # "none" => asg'[i].st # "none"
  PROVE  /\ departed' \subseteq Employees /\ orec' \in [Records -> RecordType]
         /\ tsk' \in [Records -> [Tasks -> TaskStatuses]] /\ RecordsInOrder' /\ TasksKnown'
BY Types DEF WellTyped, offVars, RecordsInOrder, TasksKnown

\* Steps that write records and tasks only.
LEMMA AssetsQuiet ==
  ASSUME WellTyped, UNCHANGED assetVars
  PROVE  /\ avail' \in [StockItems -> Int] /\ asg' \in [Rows -> Row] /\ late' \subseteq Rows
         /\ listed' \subseteq Employees /\ RowsInOrder' /\ NextRow' = NextRow /\ NextRow \in Int
         /\ UNCHANGED asg
BY Types, NextRowFresh DEF WellTyped, assetVars, RowsInOrder, NextRow

-----------------------------------------------------------------------------
(* The steps of AssetCustody keep all well formed.                         *)

\* Calls of the assets begin, or are a single statement.
LEMMA StartAssetsTyped ==
  ASSUME WellTyped, NEW c \in Calls, StartAssets(c), UNCHANGED offVars
  PROVE  WellTyped' /\ Lasting
<1> USE DEF assetVars
<1>1. ASSUME NEW s \in StockItems, NEW e \in Employees, AssignStart(c, s, e) \/ LaptopStart(c, s, e)
      PROVE  WellTyped' /\ Lasting
  <2>1. PICK l \in {"assignTag", "assignStock"} : Begin(c, [NoCall EXCEPT !.pc = l, !.s = s, !.e = e])
    BY <1>1 DEF AssignStart, LaptopStart
  <2> DEFINE x == [NoCall EXCEPT !.pc = l, !.s = s, !.e = e]
  <2>2. x \in CallRecord /\ Argued(x) /\ Knows(x)
    BY NoCallFits DEF NoCall, CallRecord, Argued, Knows, Labels, AssetLabels, AssignLabels, RecordLabels,
                      CompletionLabels
  <2>3. UNCHANGED <<assetVars, offVars>>
    BY <1>1 DEF AssignStart, LaptopStart
  <2> HIDE DEF x
  <2>4. Begin(c, x)
    BY <2>1 DEF x
  <2>5. QED
    BY <2>2, <2>3, <2>4, BeginQuiet, TablesQuiet
<1>2. ASSUME NEW s \in StockItems, NEW e \in Employees, CreateSystem(c, s, e)
      PROVE  WellTyped' /\ Lasting
  <2>1. Insert(s, e, NextTag) /\ NextTag \in 1..NextRow /\ UNCHANGED <<avail, listed, call>>
    BY <1>2, NextTagBounded DEF CreateSystem
  <2>2. /\ NextRow \in Rows /\ asg[NextRow].st = "none"
        /\ \A i \in Rows : i # NextRow => asg'[i] = asg[i]
        /\ asg' \in [Rows -> Row] /\ late' \subseteq Rows /\ RowsInOrder'
        /\ NextRow' = NextRow + 1 /\ NextRow \in Int
    BY <2>1, InsertTyped
  <2>3. \A i \in Rows : asg[i].st # "none" => asg'[i] = asg[i]
    BY <2>2
  <2>4. TablesTyped
    BY <2>1, <2>2, <2>3, OffboardingQuiet, Types DEF TablesTyped
  <2>5. Lasting
    BY <2>2, <2>3, RowsLast DEF offVars
  <2>6. OnlyCall(c) /\ call'[c] = call[c]
    BY <2>1, Types DEF OnlyCall, WellTyped
  <2>7. QED
    BY <2>2, <2>4, <2>5, <2>6, KnowsKept, StepKeeps
<1>3. ASSUME NEW i \in Rows, NEW e \in Employees, NEW mail \in BOOLEAN, UpdateSystem(c, i, e, mail)
      PROVE  WellTyped' /\ Lasting
  <2>1. /\ asg' = [asg EXCEPT ![i].user = e, ![i].mail = IF mail THEN e ELSE @]
        /\ HandOver(i, e) /\ UNCHANGED <<avail, listed, call>>
    BY <1>3 DEF UpdateSystem
  <2>2. /\ asg' \in [Rows -> Row]
        /\ \A j \in Rows : asg'[j].st = asg[j].st /\ asg'[j].item = asg[j].item /\ asg'[j].tag = asg[j].tag
    BY <2>1, Types DEF Row
  <2>3. RowsInOrder' /\ NextRow' = NextRow /\ NextRow \in Int
    BY <2>2, RowWritten
  <2>4. late' \subseteq Rows
    BY <2>1, Types DEF HandOver
  <2>5. TablesTyped
    BY <2>1, <2>2, <2>3, <2>4, OffboardingQuiet, Types DEF TablesTyped
  <2>6. Lasting
    BY <2>2, <2>3 DEF Lasting, offVars
  <2>7. OnlyCall(c) /\ call'[c] = call[c]
    BY <2>1, Types DEF OnlyCall, WellTyped
  <2>8. QED
    BY <2>3, <2>5, <2>6, <2>7, KnowsKept, StepKeeps
<1>4. ASSUME NEW i \in Rows, DeleteSystem(c, i)
      PROVE  WellTyped' /\ Lasting
  <2> DEFINE x == [NoCall EXCEPT !.pc = "returnSelect", !.todo = {i}]
  <2>1. asg[i].st # "none"
    BY <1>4 DEF DeleteSystem, Live
  <2>2. x \in CallRecord /\ Argued(x) /\ Knows(x)
    BY <2>1, NoCallFits DEF NoCall, CallRecord, Argued, Knows, Labels, AssetLabels, AssignLabels, RecordLabels,
                            CompletionLabels
  <2>3. Begin(c, x)
    BY <1>4 DEF DeleteSystem
  <2> HIDE DEF x
  <2>4. QED
    BY <1>4, <2>2, <2>3, BeginQuiet, TablesQuiet DEF DeleteSystem
<1>5. QED
  BY <1>1, <1>2, <1>3, <1>4 DEF StartAssets

\* The statements of an assignment.
LEMMA AssignTyped ==
  ASSUME WellTyped, NEW c \in Calls, Assign(c), UNCHANGED offVars
  PROVE  WellTyped' /\ Lasting
<1> USE DEF assetVars
<1>t. call[c] \in CallRecord /\ Argued(call[c]) /\ Knows(call[c])
  BY Types DEF WellTyped
<1>l. {"assignTag", "assignInsert", "assignDecrement"} \subseteq Labels
  BY DEF Labels, AssetLabels
<1>1. CASE AssignStock(c)
  <2>1. CASE Goto(c, "assignTag")
    <3> DEFINE x == [call[c] EXCEPT !.pc = "assignTag"]
    <3>1. x \in CallRecord /\ Argued(x) /\ Knows(x)
      BY <1>t, <1>1, <1>l
         DEF AssignStock, At, CallRecord, Argued, Knows, AssignLabels, RecordLabels, CompletionLabels
    <3>2. call' = [call EXCEPT ![c] = x]
      BY <2>1, Types DEF Goto
    <3> HIDE DEF x
    <3>3. QED
      BY <1>1, <3>1, <3>2, QuietStep, TablesQuiet DEF AssignStock
  <2>2. CASE Return(c)
    BY <1>1, <2>2, ReturnQuiet, TablesQuiet DEF AssignStock
  <2>3. QED
    BY <1>1, <2>1, <2>2 DEF AssignStock
<1>2. CASE AssignTag(c)
  <2> DEFINE x == [call[c] EXCEPT !.tag = NextTag, !.pc = "assignInsert"]
  <2>1. NextTag \in 1..NextRow /\ NextTag \in 0..(MaxRows + 1)
    BY NextTagBounded, NextRowFresh, Types
  <2>2. x \in CallRecord /\ Argued(x) /\ Knows(x)
    BY <1>t, <1>2, <1>l, <2>1
       DEF AssignTag, At, CallRecord, Argued, Knows, AssignLabels, RecordLabels, CompletionLabels
  <2>3. call' = [call EXCEPT ![c] = x]
    BY <1>2, Types DEF AssignTag
  <2> HIDE DEF x
  <2>4. QED
    BY <1>2, <2>2, <2>3, QuietStep, TablesQuiet DEF AssignTag
<1>3. CASE AssignInsert(c)
  <2>1. CASE Return(c) /\ UNCHANGED assetVars
    BY <2>1, ReturnQuiet, TablesQuiet
  <2>2. CASE /\ Insert(call[c].s, call[c].e, call[c].tag) /\ Goto(c, "assignDecrement")
             /\ UNCHANGED <<avail, listed>>
    <3>1. call[c].s \in StockItems /\ call[c].e \in Employees /\ call[c].tag \in 1..NextRow /\ At(c, "assignInsert")
      BY <1>t, <1>3 DEF AssignInsert, At, Argued, Knows, AssignLabels
    <3>2. /\ NextRow \in Rows /\ asg[NextRow].st = "none"
          /\ \A i \in Rows : i # NextRow => asg'[i] = asg[i]
          /\ asg' \in [Rows -> Row] /\ late' \subseteq Rows /\ RowsInOrder'
          /\ NextRow' = NextRow + 1 /\ NextRow \in Int
      BY <2>2, <3>1, InsertTyped
    <3>3. \A i \in Rows : asg[i].st # "none" => asg'[i] = asg[i]
      BY <3>2
    <3>4. TablesTyped
      BY <2>2, <3>2, <3>3, OffboardingQuiet, Types DEF TablesTyped
    <3>5. Lasting
      BY <3>2, <3>3, RowsLast DEF offVars
    <3>6. Argued([call[c] EXCEPT !.pc = "assignDecrement"])
      BY <1>t, <3>1 DEF At, CallRecord, Argued, AssignLabels, RecordLabels, CompletionLabels
    <3>7. OnlyCall(c) /\ call'[c] = [call[c] EXCEPT !.pc = "assignDecrement"]
      BY <1>l, <2>2, <3>6, GotoCall
    <3>8. Knows(call[c])'
      BY <1>t, <3>3, <3>7 DEF Knows, CallRecord, CompletionLabels, offVars
    <3>9. QED
      BY <3>2, <3>4, <3>5, <3>7, <3>8, StepKeeps
  <2>3. QED
    BY <1>3, <2>1, <2>2 DEF AssignInsert
<1>4. CASE AssignDecrement(c)
  <2>1. avail' \in [StockItems -> Int] /\ UNCHANGED <<asg, late, listed>>
    <3>1. call[c].s \in StockItems /\ avail \in [StockItems -> Int]
      BY <1>t, <1>4, Types DEF AssignDecrement, At, Argued, AssignLabels
    <3>2. avail' = [avail EXCEPT ![call[c].s] = @ - 1]
      BY <1>4 DEF AssignDecrement
    <3>3. avail' \in [StockItems -> Int]
      BY <3>1, <3>2
    <3>4. QED
      BY <1>4, <3>3 DEF AssignDecrement
  <2>2. TablesTyped /\ Lasting /\ NextRow' = NextRow /\ NextRow \in Int
    <3>1. RowsInOrder' /\ NextRow' = NextRow /\ NextRow \in Int
      BY <2>1, RowWritten, Types
    <3>2. TablesTyped
      BY <2>1, <3>1, OffboardingQuiet, Types DEF TablesTyped
    <3>3. QED
      BY <2>1, <3>1, <3>2 DEF Lasting, offVars
  <2>3. OnlyCall(c) /\ call'[c] = NoCall
    BY <1>4, ReturnCall DEF AssignDecrement
  <2>4. Knows(call[c])'
    BY <2>3, NoCallFits DEF Knows, NoCall, CompletionLabels
  <2>5. QED
    BY <2>2, <2>3, <2>4, StepKeeps
<1>5. QED
  BY <1>1, <1>2, <1>3, <1>4 DEF Assign

\* The statements of a release.
LEMMA ReleaseTyped ==
  ASSUME WellTyped, NEW c \in Calls, Release(c), UNCHANGED offVars
  PROVE  WellTyped' /\ Lasting
<1> USE DEF assetVars
<1>t. call[c] \in CallRecord /\ Argued(call[c]) /\ Knows(call[c])
  BY Types DEF WellTyped
<1>l. {"listByMail", "returnSelect", "returnDelete", "returnIncrement"} \subseteq Labels
  BY DEF Labels, AssetLabels
<1>r. \A i \in Live : i \in Rows /\ asg[i].st # "none"
  BY DEF Live
<1>1. CASE ListByUser(c)
  <2> DEFINE x == [call[c] EXCEPT !.todo = HeldBy(call[c].e), !.pc = "listByMail"]
  <2>1. call[c].pc = "listByUser" /\ call[c].e \in Employees
    BY <1>t, <1>1 DEF ListByUser, At, Argued, CompletionLabels
  <2>2. x \in CallRecord /\ Argued(x) /\ Knows(x)
    BY <1>t, <1>l, <1>r, <2>1 DEF CallRecord, Argued, Knows, AssignLabels, RecordLabels, CompletionLabels, HeldBy
  <2>3. call' = [call EXCEPT ![c] = x]
    BY <1>1, Types DEF ListByUser
  <2> HIDE DEF x
  <2>4. OnlyCall(c) /\ call'[c] = x
    BY <2>2, <2>3, CallBecomes
  <2>5. UNCHANGED <<avail, asg, late>> /\ listed' \subseteq Employees
    BY <1>1, <2>1, Types DEF ListByUser
  <2>6. RowsInOrder' /\ NextRow' = NextRow /\ NextRow \in Int
    BY <2>5, RowWritten, Types
  <2>7. TablesTyped
    BY <2>5, <2>6, OffboardingQuiet, Types DEF TablesTyped
  <2>8. Lasting
    BY <2>5, <2>6 DEF Lasting, offVars
  <2>9. Knows(call[c])'
    BY <2>2, <2>4, <2>5, <2>6 DEF Knows, offVars
  <2>10. QED
    BY <2>4, <2>6, <2>7, <2>8, <2>9, StepKeeps
<1>2. CASE ListByMail(c)
  <2> DEFINE x == [call[c] EXCEPT !.todo = @ \cup {i \in Live : asg[i].mail = call[c].e}, !.pc = "returnSelect"]
  <2>1. x \in CallRecord /\ Argued(x) /\ Knows(x)
    BY <1>t, <1>l, <1>r, <1>2
       DEF ListByMail, At, CallRecord, Argued, Knows, AssignLabels, RecordLabels, CompletionLabels
  <2>2. call' = [call EXCEPT ![c] = x]
    BY <1>2, Types DEF ListByMail
  <2> HIDE DEF x
  <2>3. QED
    BY <1>2, <2>1, <2>2, QuietStep, TablesQuiet DEF ListByMail
<1>3. CASE ReturnSelect(c)
  <2>1. PICK i \in call[c].todo :
          call' = [call EXCEPT ![c].todo = @ \ {i},
                               ![c].i = IF i \in Live THEN i ELSE 0,
                               ![c].pc = IF i \in Live THEN "returnDelete" ELSE @]
    BY <1>3 DEF ReturnSelect
  <2> DEFINE x == [call[c] EXCEPT !.todo = @ \ {i}, !.i = IF i \in Live THEN i ELSE 0,
                                  !.pc = IF i \in Live THEN "returnDelete" ELSE @]
  <2>2. call[c].pc = "returnSelect" /\ 0 \in 0..MaxRows /\ Live \subseteq 0..MaxRows
    BY <1>3, <1>r, Types DEF ReturnSelect, At, Rows
  <2>3. x \in CallRecord /\ Argued(x) /\ Knows(x)
    BY <1>t, <1>l, <1>r, <2>2
       DEF CallRecord, Argued, Knows, AssignLabels, RecordLabels, CompletionLabels
  <2>4. call' = [call EXCEPT ![c] = x]
    BY <2>1, Types DEF CallRecord
  <2> HIDE DEF x
  <2>5. QED
    BY <1>3, <2>3, <2>4, QuietStep, TablesQuiet DEF ReturnSelect
<1>4. CASE ReturnDelete(c)
  <2>1. call[c].pc = "returnDelete" /\ call[c].i \in Rows /\ asg[call[c].i].st # "none"
    BY <1>t, <1>4 DEF ReturnDelete, At, Argued, Knows
  <2>2. asg' = [asg EXCEPT ![call[c].i].st = "gone"] /\ UNCHANGED <<avail, late, listed>>
    BY <1>4 DEF ReturnDelete
  <2>3. /\ asg' \in [Rows -> Row] /\ asg'[call[c].i].st = "gone"
        /\ \A j \in Rows : (asg'[j].st = "none" <=> asg[j].st = "none")
                           /\ asg'[j].item = asg[j].item /\ asg'[j].tag = asg[j].tag
                           /\ (asg[j].st = "gone" => asg'[j].st = "gone")
    <3> DEFINE k == call[c].i
               y == [asg[k] EXCEPT !.st = "gone"]
    <3>1. asg[k] \in Row
      BY <2>1, Types
    <3>2. y \in Row /\ y.st = "gone" /\ y.item = asg[k].item /\ y.tag = asg[k].tag
      BY <3>1 DEF Row
    <3>3. asg' = [asg EXCEPT ![k] = y]
      BY <2>1, <2>2, Types
    <3> HIDE DEF y
    <3>4. asg' \in [Rows -> Row] /\ asg'[k] = y /\ \A j \in Rows : j # k => asg'[j] = asg[j]
      BY <2>1, <3>2, <3>3, Types
    <3>5. y.st # "none"
      BY <3>2
    <3>6. ASSUME NEW j \in Rows
          PROVE  /\ asg'[j].st = "none" <=> asg[j].st = "none"
                 /\ asg'[j].item = asg[j].item /\ asg'[j].tag = asg[j].tag
                 /\ asg[j].st = "gone" => asg'[j].st = "gone"
      BY <2>1, <3>2, <3>4, <3>5
    <3>7. QED
      BY <3>2, <3>4, <3>6
  <2>4. RowsInOrder' /\ NextRow' = NextRow /\ NextRow \in Int
    BY <2>3, RowWritten
  <2>5. TablesTyped
    BY <2>2, <2>3, <2>4, OffboardingQuiet, Types DEF TablesTyped
  <2>6. Lasting
    BY <2>3, <2>4 DEF Lasting, offVars
  <2>7. Argued([call[c] EXCEPT !.pc = "returnIncrement"])
    BY <1>t, <2>1 DEF CallRecord, Argued, AssignLabels, RecordLabels, CompletionLabels
  <2>8. OnlyCall(c) /\ call'[c] = [call[c] EXCEPT !.pc = "returnIncrement"]
    BY <1>l, <1>4, <2>7, GotoCall DEF ReturnDelete
  <2>9. call[c].todo \subseteq Rows
    BY <1>t DEF CallRecord
  <2>10. Knows(call[c])'
    BY <1>t, <2>3, <2>8, <2>9 DEF Knows, CallRecord, CompletionLabels, offVars
  <2>11. QED
    BY <2>4, <2>5, <2>6, <2>8, <2>10, StepKeeps
<1>5. CASE ReturnIncrement(c)
  <2> DEFINE s == asg[call[c].i].item
  <2>1. call[c].pc = "returnIncrement" /\ call[c].i \in Rows /\ s \in StockItems
    BY <1>t, <1>5 DEF ReturnIncrement, At, Argued, Knows, WellTyped, RowsInOrder
  <2>2. UNCHANGED <<asg, late, listed>> /\ avail' \in [StockItems -> Int]
    <3>1. avail' = avail \/ avail' = [avail EXCEPT ![s] = @ + 1]
      BY <1>5 DEF ReturnIncrement
    <3> HIDE DEF s
    <3>2. avail' \in [StockItems -> Int]
      BY <2>1, <3>1, Types
    <3>3. QED
      BY <1>5, <3>2 DEF ReturnIncrement
  <2>3. RowsInOrder' /\ NextRow' = NextRow /\ NextRow \in Int
    BY <2>2, RowWritten, Types
  <2>4. TablesTyped
    BY <2>2, <2>3, OffboardingQuiet, Types DEF TablesTyped
  <2>5. Lasting
    BY <2>2, <2>3 DEF Lasting, offVars
  <2>6. Argued([call[c] EXCEPT !.pc = "returnSelect"])
    BY <1>t, <2>1 DEF CallRecord, Argued, AssignLabels, RecordLabels, CompletionLabels
  <2>7. OnlyCall(c) /\ call'[c] = [call[c] EXCEPT !.pc = "returnSelect"]
    BY <1>l, <1>5, <2>6, GotoCall DEF ReturnIncrement
  <2>8. Knows(call[c])'
    BY <1>t, <2>2, <2>7 DEF Knows, CallRecord, CompletionLabels, offVars
  <2>9. QED
    BY <2>3, <2>4, <2>5, <2>7, <2>8, StepKeeps
<1>6. CASE ReturnDone(c)
  BY <1>6, ReturnQuiet, TablesQuiet DEF ReturnDone
<1>7. QED
  BY <1>1, <1>2, <1>3, <1>4, <1>5, <1>6 DEF Release
-----------------------------------------------------------------------------
(* The steps of Offboarding keep all well formed.                          *)

\* A step that only moves its own call on.
LEMMA MoveQuiet ==
  ASSUME WellTyped, NEW c \in Calls, NEW l \in Labels, Goto(c, l), UNCHANGED <<assetVars, offVars>>,
         Argued([call[c] EXCEPT !.pc = l]), Knows([call[c] EXCEPT !.pc = l])
  PROVE  WellTyped' /\ Lasting
<1> DEFINE x == [call[c] EXCEPT !.pc = l]
<1>1. x \in CallRecord /\ call' = [call EXCEPT ![c] = x]
  BY Types DEF CallRecord, Goto
<1>2. Argued(x) /\ Knows(x)
  OBVIOUS
<1> HIDE DEF x
<1>3. QED
  BY <1>1, <1>2, QuietStep, TablesQuiet

\* Records that exist are written: they keep their employee, and those that
\* are over stay so.
LEMMA RecordsWritten ==
  ASSUME WellTyped, NEW r \in Records, NEW y \in RecordType, UNCHANGED <<assetVars, departed>>,
         orec[r].st # "none", y.st # "none", y.e = orec[r].e, orec[r].st \in Over => y.st \in Over,
         orec' = [orec EXCEPT ![r] = y], tsk' \in [Records -> [Tasks -> TaskStatuses]],
         \A q \in Records, t \in Tasks : tsk'[q][t] # "none" => tsk[q][t] # "none"
  PROVE  /\ TablesTyped /\ Lasting /\ NextRow' = NextRow /\ NextRow \in Int
         /\ orec'[r] = y /\ \A q \in Records : q # r => orec'[q] = orec[q]
<1>1. orec' \in [Records -> RecordType] /\ orec'[r] = y /\ \A q \in Records : q # r => orec'[q] = orec[q]
  BY Types
<1>2. \A q \in Records : (orec'[q].st = "none" <=> orec[q].st = "none") /\ orec'[q].e = orec[q].e
                         /\ (orec[q].st \in Over => orec'[q].st \in Over)
  BY <1>1
<1>3. RecordsInOrder'
  <2>1. PICK n \in 0..MaxRecords : \A q \in Records : orec[q].st # "none" <=> q <= n
    BY DEF WellTyped, RecordsInOrder
  <2>2. \A q \in Records : orec'[q].st # "none" <=> q <= n
    BY <1>2, <2>1
  <2>3. \A q \in Records : orec'[q].st # "none" => orec'[q].e \in Employees
    BY <1>2 DEF WellTyped, RecordsInOrder
  <2>4. QED
    BY <2>2, <2>3 DEF RecordsInOrder
<1>4. UNCHANGED asg /\ NextRow' = NextRow /\ NextRow \in Int
  BY AssetsQuiet
<1>5. TasksKnown'
  BY <1>2, <1>4 DEF WellTyped, TasksKnown
<1>6. TablesTyped
  BY <1>1, <1>3, <1>5, AssetsQuiet, Types DEF TablesTyped
<1>7. Lasting
  BY <1>2, <1>4 DEF Lasting
<1>8. QED
  BY <1>1, <1>4, <1>6, <1>7

\* Tasks of a record are written.
LEMMA TasksWritten ==
  ASSUME WellTyped, UNCHANGED <<assetVars, departed, orec>>, tsk' \in [Records -> [Tasks -> TaskStatuses]],
         \A q \in Records, t \in Tasks :
           tsk'[q][t] # "none" =>
             tsk[q][t] # "none" \/ (orec[q].st # "none" /\ (t \in Rows => asg[t].st # "none"))
  PROVE  TablesTyped /\ Lasting /\ NextRow' = NextRow /\ NextRow \in Int
<1>1. UNCHANGED asg /\ NextRow' = NextRow /\ NextRow \in Int
  BY AssetsQuiet
<1>2. TasksKnown'
  BY <1>1 DEF WellTyped, TasksKnown
<1>3. RecordsInOrder'
  BY DEF WellTyped, RecordsInOrder
<1>4. TablesTyped
  BY <1>2, <1>3, AssetsQuiet, Types DEF TablesTyped
<1>5. Lasting
  BY <1>1 DEF Lasting
<1>6. QED
  BY <1>1, <1>4, <1>5

\* The INSERT of an offboarding record.
LEMMA RecordInserted ==
  ASSUME WellTyped, UNCHANGED <<assetVars, departed, tsk>>, NextRecord \in Records, NEW e \in Employees,
         NEW ahead \in BOOLEAN, orec' = [orec EXCEPT ![NextRecord] = [st |-> "active", e |-> e, ahead |-> ahead]]
  PROVE  /\ TablesTyped /\ Lasting /\ NextRow' = NextRow /\ NextRow \in Int
         /\ orec[NextRecord].st = "none" /\ orec'[NextRecord].st = "active"
         /\ \A q \in Records : q # NextRecord => orec'[q] = orec[q]
<1> DEFINE n == NextRecord
           x == [st |-> "active", e |-> e, ahead |-> ahead]
<1>1. n \in Records /\ n \in 1..MaxRecords /\ (\A r \in Records : orec[r].st # "none" <=> r < n) /\ MaxRecords \in Nat
  BY NextRecordFresh, Types DEF Records
<1>2. x \in RecordType /\ x.st = "active" /\ x.e = e
  BY DEF RecordType, RecordStatuses
<1> HIDE DEF n, x
<1>3. orec' = [orec EXCEPT ![n] = x]
  BY DEF n, x
<1>4. orec' \in [Records -> RecordType] /\ orec'[n] = x /\ \A q \in Records : q # n => orec'[q] = orec[q]
  BY <1>1, <1>2, <1>3, Types
<1>5. orec[n].st = "none"
  BY <1>1 DEF Records
<1>6. \A q \in Records : orec[q].st # "none" => orec'[q] = orec[q]
  BY <1>4, <1>5
<1>7. RecordsInOrder'
  <2>1. \A q \in Records : q <= n <=> (q < n \/ q = n)
    BY <1>1 DEF Records
  <2>2. \A q \in Records : orec'[q].st # "none" <=> q <= n
    BY <1>1, <1>2, <1>4, <2>1
  <2>3. \A q \in Records : orec'[q].st # "none" => orec'[q].e \in Employees
    BY <1>2, <1>4 DEF WellTyped, RecordsInOrder
  <2>4. n \in 0..MaxRecords
    BY <1>1
  <2>5. QED
    BY <2>2, <2>3, <2>4 DEF RecordsInOrder
<1>8. UNCHANGED asg /\ NextRow' = NextRow /\ NextRow \in Int
  BY AssetsQuiet
<1>9. TasksKnown'
  BY <1>6, <1>8 DEF WellTyped, TasksKnown
<1>10. TablesTyped
  BY <1>4, <1>7, <1>9, AssetsQuiet, Types DEF TablesTyped
<1>11. Lasting
  BY <1>6, <1>8 DEF Lasting
<1>12. QED
  BY <1>2, <1>4, <1>5, <1>8, <1>10, <1>11 DEF n

\* The handlers of StartOffboarding begin with a record that holds what they need.
LEMMA StartOffboardingTyped ==
  ASSUME WellTyped, NEW c \in Calls, StartOffboarding(c)
  PROVE  WellTyped' /\ Lasting
<1>1. ASSUME NEW e \in Employees, InitiateStart(c, e)
      PROVE  WellTyped' /\ Lasting
  <2> DEFINE x == [NoCall EXCEPT !.pc = "checkActive", !.e = e]
  <2>1. x \in CallRecord /\ Argued(x) /\ Knows(x)
    BY NoCallFits DEF NoCall, CallRecord, Argued, Knows, Labels, AssetLabels, AssignLabels, RecordLabels,
                      CompletionLabels
  <2>2. Begin(c, x) /\ UNCHANGED <<assetVars, offVars>>
    BY <1>1 DEF InitiateStart
  <2> HIDE DEF x
  <2>3. QED
    BY <2>1, <2>2, BeginQuiet, TablesQuiet
<1>2. ASSUME NEW r \in Records, CompleteStart(c, r)
      PROVE  WellTyped' /\ Lasting
  <2>1. PICK l \in {"readTasks", "completeRecord"} : Begin(c, [NoCall EXCEPT !.pc = l, !.r = r, !.e = orec[r].e])
    BY <1>2 DEF CompleteStart
  <2> DEFINE x == [NoCall EXCEPT !.pc = l, !.r = r, !.e = orec[r].e]
  <2>2. orec[r].st = "active" /\ orec[r].e \in Employees /\ r \in 0..MaxRecords
    BY <1>2, Types DEF CompleteStart, WellTyped, RecordsInOrder, Records
  <2>3. x \in CallRecord /\ Argued(x) /\ Knows(x)
    BY <2>2, NoCallFits DEF NoCall, CallRecord, Argued, Knows, Labels, AssetLabels, AssignLabels, RecordLabels,
                            CompletionLabels
  <2>4. UNCHANGED <<assetVars, offVars>>
    BY <1>2 DEF CompleteStart
  <2> HIDE DEF x
  <2>5. Begin(c, x)
    BY <2>1 DEF x
  <2>6. QED
    BY <2>3, <2>4, <2>5, BeginQuiet, TablesQuiet
<1>3. ASSUME NEW r \in Records, CancelStart(c, r)
      PROVE  WellTyped' /\ Lasting
  <2> DEFINE x == [NoCall EXCEPT !.pc = "cancelRecord", !.r = r, !.e = orec[r].e]
  <2>1. orec[r].st = "active" /\ orec[r].e \in Employees /\ r \in 0..MaxRecords
    BY <1>3, Types DEF CancelStart, WellTyped, RecordsInOrder, Records
  <2>2. x \in CallRecord /\ Argued(x) /\ Knows(x)
    BY <2>1, NoCallFits DEF NoCall, CallRecord, Argued, Knows, Labels, AssetLabels, AssignLabels, RecordLabels,
                            CompletionLabels
  <2>3. Begin(c, x) /\ UNCHANGED <<assetVars, offVars>>
    BY <1>3 DEF CancelStart
  <2> HIDE DEF x
  <2>4. QED
    BY <2>2, <2>3, BeginQuiet, TablesQuiet
<1>4. ASSUME NEW r \in Records, DeleteStart(c, r)
      PROVE  WellTyped' /\ Lasting
  <2> DEFINE x == [NoCall EXCEPT !.pc = "deleteTasks", !.r = r]
  <2>1. orec[r].st \in Closed /\ r \in 0..MaxRecords
    BY <1>4, Types DEF DeleteStart, Records
  <2>2. x \in CallRecord /\ Argued(x) /\ Knows(x)
    BY <2>1, NoCallFits DEF NoCall, CallRecord, Argued, Knows, Labels, AssetLabels, AssignLabels, RecordLabels,
                            CompletionLabels, Closed, Over
  <2>3. Begin(c, x) /\ UNCHANGED <<assetVars, offVars>>
    BY <1>4 DEF DeleteStart
  <2> HIDE DEF x
  <2>4. QED
    BY <2>2, <2>3, BeginQuiet, TablesQuiet
<1>5. ASSUME NEW r \in Records, NEW st \in {"ahead", "reached"}, ExitDateStart(c, r, st)
      PROVE  WellTyped' /\ Lasting
  <2> DEFINE x == [NoCall EXCEPT !.pc = "setExitDate", !.r = r, !.st = st]
  <2>1. orec[r].st = "active" /\ r \in 0..MaxRecords
    BY <1>5, Types DEF ExitDateStart, Records
  <2>2. x \in CallRecord /\ Argued(x) /\ Knows(x)
    BY <2>1, NoCallFits DEF NoCall, CallRecord, Argued, Knows, Labels, AssetLabels, AssignLabels, RecordLabels,
                            CompletionLabels
  <2>3. Begin(c, x) /\ UNCHANGED <<assetVars, offVars>>
    BY <1>5 DEF ExitDateStart
  <2> HIDE DEF x
  <2>4. QED
    BY <2>2, <2>3, BeginQuiet, TablesQuiet
<1>6. ASSUME NEW r \in Records, NEW t \in Tasks, NEW st \in TaskStatuses \ {"none"}, TaskStart(c, r, t, st)
      PROVE  WellTyped' /\ Lasting
  <2> DEFINE x == [NoCall EXCEPT !.pc = "setTask", !.r = r, !.i = t, !.st = st]
  <2>1. orec[r].st # "none" /\ (t \in Rows => asg[t].st # "none") /\ r \in 0..MaxRecords /\ t \in 0..MaxRows
    BY <1>6, Types DEF TaskStart, WellTyped, TasksKnown, Records, Tasks, Standard, Rows
  <2>2. x \in CallRecord /\ Argued(x) /\ Knows(x)
    BY <2>1, NoCallFits DEF NoCall, CallRecord, Argued, Knows, Labels, AssetLabels, AssignLabels, RecordLabels,
                            CompletionLabels
  <2>3. Begin(c, x) /\ UNCHANGED <<assetVars, offVars>>
    BY <1>6 DEF TaskStart
  <2> HIDE DEF x
  <2>4. QED
    BY <2>2, <2>3, BeginQuiet, TablesQuiet
<1>7. QED
  BY <1>1, <1>2, <1>3, <1>4, <1>5, <1>6 DEF StartOffboarding
\* The statements of initiate.
LEMMA InsertTaskTyped ==
  ASSUME WellTyped, NEW c \in Calls, NEW t \in Tasks, NEW l \in {"readAssets", "assetTask"},
         InsertTask(c, t, l), UNCHANGED <<assetVars, departed, orec>>, call[c].r \in Records,
         t \in Rows => asg[t].st # "none"
  PROVE  WellTyped' /\ Lasting
<1> DEFINE r == call[c].r
           x == [call[c] EXCEPT !.pc = l, !.todo = @ \ {t}]
<1>t. call[c] \in CallRecord /\ Argued(call[c]) /\ Knows(call[c])
  BY Types DEF WellTyped
<1>1. CASE InTable(r)
  <2>1. tsk' = [tsk EXCEPT ![r][t] = "pending"] /\ call' = [call EXCEPT ![c] = x]
    BY <1>1, Types DEF InsertTask, CallRecord
  <2>2. orec[r].st # "none"
    BY <1>1 DEF InTable, Closed
  <2>3. /\ tsk' \in [Records -> [Tasks -> TaskStatuses]]
        /\ \A q \in Records, u \in Tasks : tsk'[q][u] # tsk[q][u] => q = r /\ u = t
    BY <2>1, Types DEF TaskStatuses
  <2>a. \A q \in Records, u \in Tasks :
          tsk'[q][u] # "none" =>
            tsk[q][u] # "none" \/ (orec[q].st # "none" /\ (u \in Rows => asg[u].st # "none"))
    <3> SUFFICES ASSUME NEW q \in Records, NEW u \in Tasks, tsk'[q][u] # "none", tsk[q][u] = "none"
                 PROVE  orec[q].st # "none" /\ (u \in Rows => asg[u].st # "none")
      OBVIOUS
    <3>1. q = r /\ u = t
      BY <2>3
    <3>2. QED
      BY <2>2, <3>1
  <2>4. TablesTyped /\ Lasting /\ NextRow' = NextRow /\ NextRow \in Int
    <3> HIDE DEF r, x
    <3>1. QED
      BY <2>3, <2>a, TasksWritten
  <2>5. x \in CallRecord /\ Argued(x)
    BY <1>t DEF CallRecord, Argued, Labels, AssetLabels, AssignLabels, RecordLabels, CompletionLabels
  <2> HIDE DEF x
  <2>6. OnlyCall(c) /\ call'[c] = x
    BY <2>1, <2>5, CallBecomes
  <2>7. Knows(call[c])'
    BY <1>t, <2>4, <2>6, AssetsQuiet DEF x, Knows, CallRecord, CompletionLabels
  <2>8. QED
    BY <2>4, <2>6, <2>7, StepKeeps
<1>2. CASE ~InTable(r)
  BY <1>2, ReturnQuiet, TablesQuiet DEF InsertTask, assetVars, offVars
<1>3. QED
  BY <1>1, <1>2

LEMMA InitiateTyped ==
  ASSUME WellTyped, NEW c \in Calls, Initiate(c)
  PROVE  WellTyped' /\ Lasting
<1>t. call[c] \in CallRecord /\ Argued(call[c]) /\ Knows(call[c])
  BY Types DEF WellTyped
<1>l. {"createRecord", "standardTask", "readAssets", "assetTask"} \subseteq Labels
  BY DEF Labels
<1>1. CASE CheckActive(c)
  <2>1. CASE Goto(c, "createRecord")
    <3>1. Argued([call[c] EXCEPT !.pc = "createRecord"]) /\ Knows([call[c] EXCEPT !.pc = "createRecord"])
      BY <1>t, <1>1 DEF CheckActive, At, CallRecord, Argued, Knows, AssignLabels, RecordLabels, CompletionLabels
    <3>2. QED
      BY <1>1, <1>l, <2>1, <3>1, MoveQuiet DEF CheckActive
  <2>2. CASE Return(c)
    BY <1>1, <2>2, ReturnQuiet, TablesQuiet DEF CheckActive
  <2>3. QED
    BY <1>1, <2>1, <2>2 DEF CheckActive
<1>2. CASE CreateRecord(c)
  <2> DEFINE x == [call[c] EXCEPT !.r = NextRecord, !.pc = "standardTask"]
  <2>1. call[c].pc = "createRecord" /\ call[c].e \in Employees /\ NextRecord \in Records
    BY <1>t, <1>2 DEF CreateRecord, At, Argued
  <2>2. PICK ahead \in BOOLEAN :
          orec' = [orec EXCEPT ![NextRecord] = [st |-> "active", e |-> call[c].e, ahead |-> ahead]]
    BY <1>2 DEF CreateRecord
  <2>3. /\ TablesTyped /\ Lasting /\ NextRow' = NextRow /\ NextRow \in Int
        /\ orec'[NextRecord].st = "active"
    BY <1>2, <2>1, <2>2, RecordInserted DEF CreateRecord
  <2>4. x \in CallRecord /\ Argued(x)
    <3>1. NextRecord \in 0..MaxRecords
      BY <2>1, Types DEF Records
    <3>2. QED
      BY <1>t, <1>l, <2>1, <3>1 DEF CallRecord, Argued, AssignLabels, RecordLabels, CompletionLabels
  <2>5. call' = [call EXCEPT ![c] = x]
    BY <1>2, Types DEF CreateRecord, CallRecord
  <2> DEFINE n == NextRecord
  <2>6. x.r = n /\ x.pc = "standardTask" /\ x.todo = call[c].todo /\ n \in Records /\ orec'[n].st = "active"
    BY <1>t, <2>1, <2>3 DEF CallRecord
  <2> HIDE DEF x, n
  <2>7. OnlyCall(c) /\ call'[c] = x
    BY <2>4, <2>5, CallBecomes
  <2>8. UNCHANGED asg
    BY <1>2, AssetsQuiet DEF CreateRecord
  <2>9. Knows(call[c])'
    BY <1>t, <2>6, <2>7, <2>8 DEF Knows, CompletionLabels
  <2>10. QED
    BY <2>3, <2>7, <2>9, StepKeeps
<1>3. CASE InsertStandardTask(c)
  <2>1. call[c].r \in Records /\ Standard \in Tasks /\ Standard \notin Rows
    BY <1>t, <1>3 DEF InsertStandardTask, At, Argued, RecordLabels, Tasks, Standard, Rows
  <2>2. QED
    BY <1>3, <2>1, InsertTaskTyped DEF InsertStandardTask
<1>4. CASE ReadAssets(c)
  <2> DEFINE x == [call[c] EXCEPT !.todo = HeldBy(call[c].e), !.pc = "assetTask"]
  <2>1. HeldBy(call[c].e) \subseteq Rows /\ \A i \in HeldBy(call[c].e) : asg[i].st # "none"
    BY DEF HeldBy, Live
  <2>2. x \in CallRecord /\ Argued(x) /\ Knows(x)
    BY <1>t, <1>l, <1>4, <2>1
       DEF ReadAssets, At, CallRecord, Argued, Knows, AssignLabels, RecordLabels, CompletionLabels
  <2>3. call' = [call EXCEPT ![c] = x]
    BY <1>4, Types DEF ReadAssets
  <2> HIDE DEF x
  <2>4. QED
    BY <1>4, <2>2, <2>3, QuietStep, TablesQuiet DEF ReadAssets
<1>5. CASE InsertAssetTask(c)
  <2>1. call[c].r \in Records
    BY <1>t, <1>5 DEF InsertAssetTask, At, Argued, RecordLabels
  <2>2. ASSUME NEW i \in call[c].todo, InsertTask(c, i, "assetTask")
        PROVE  WellTyped' /\ Lasting
    <3>1. i \in Tasks /\ asg[i].st # "none"
      BY <1>t DEF CallRecord, Knows, Tasks
    <3>2. QED
      BY <1>5, <2>1, <2>2, <3>1, InsertTaskTyped DEF InsertAssetTask
  <2>3. CASE Return(c) /\ UNCHANGED tsk
    BY <1>5, <2>3, ReturnQuiet, TablesQuiet DEF InsertAssetTask, assetVars, offVars
  <2>4. QED
    BY <1>5, <2>2, <2>3 DEF InsertAssetTask
<1>6. QED
  BY <1>1, <1>2, <1>3, <1>4, <1>5 DEF Initiate

\* The UPDATE of a record's status.
LEMMA SetStatusTyped ==
  ASSUME WellTyped, NEW r \in Records, orec[r].st # "none", NEW st \in {"completed", "cancelled", "deleted"},
         SetStatus(r, st), UNCHANGED <<assetVars, departed>>, tsk' \in [Records -> [Tasks -> TaskStatuses]],
         \A q \in Records, t \in Tasks : tsk'[q][t] # "none" => tsk[q][t] # "none"
  PROVE  TablesTyped /\ Lasting /\ NextRow' = NextRow /\ NextRow \in Int
<1>1. CASE InTable(r)
  <2> DEFINE y == [orec[r] EXCEPT !.st = st]
  <2>1. orec' = [orec EXCEPT ![r] = y]
    BY <1>1, Types DEF SetStatus
  <2>2. y \in RecordType /\ y.st # "none" /\ y.e = orec[r].e /\ y.st \in Over
    BY Types DEF RecordType, RecordStatuses, Over, Closed
  <2> HIDE DEF y
  <2>3. QED
    BY <2>1, <2>2, RecordsWritten
<1>2. CASE ~InTable(r)
  <2>1. orec' = [orec EXCEPT ![r] = orec[r]]
    BY <1>2, Types DEF SetStatus
  <2>2. QED
    BY <2>1, RecordsWritten, Types
<1>3. QED
  BY <1>1, <1>2

\* The statements of complete.
LEMMA CompleteTyped ==
  ASSUME WellTyped, NEW c \in Calls, Complete(c)
  PROVE  WellTyped' /\ Lasting
<1>t. call[c] \in CallRecord /\ Argued(call[c]) /\ Knows(call[c])
  BY Types DEF WellTyped
<1>l. {"completeRecord", "offboardEmployee", "auditComplete", "listByUser"} \subseteq Labels
  BY DEF Labels, AssetLabels
<1>1. CASE ReadTasks(c)
  <2>1. CASE Goto(c, "completeRecord")
    <3>1. Argued([call[c] EXCEPT !.pc = "completeRecord"]) /\ Knows([call[c] EXCEPT !.pc = "completeRecord"])
      BY <1>t, <1>1 DEF ReadTasks, At, CallRecord, Argued, Knows, AssignLabels, RecordLabels, CompletionLabels
    <3>2. QED
      BY <1>1, <1>l, <2>1, <3>1, MoveQuiet DEF ReadTasks
  <2>2. CASE Return(c)
    BY <1>1, <2>2, ReturnQuiet, TablesQuiet DEF ReadTasks
  <2>3. QED
    BY <1>1, <2>1, <2>2 DEF ReadTasks
<1>2. CASE CompleteRecord(c)
  <2> DEFINE x == [call[c] EXCEPT !.pc = "offboardEmployee"]
  <2>1. call[c].pc = "completeRecord" /\ call[c].r \in Records /\ orec[call[c].r].st # "none"
    BY <1>t, <1>2 DEF CompleteRecord, At, Argued, Knows, RecordLabels
  <2>2. TablesTyped /\ Lasting /\ NextRow' = NextRow /\ NextRow \in Int
    BY <1>2, <2>1, SetStatusTyped, Types DEF CompleteRecord
  <2>3. x \in CallRecord /\ Argued(x)
    BY <1>t, <1>l, <2>1 DEF CallRecord, Argued, AssignLabels, RecordLabels, CompletionLabels
  <2>4. OnlyCall(c) /\ call'[c] = x
    BY <1>2, <1>l, <2>3, GotoCall DEF CompleteRecord
  <2>5. UNCHANGED asg
    BY <1>2, AssetsQuiet DEF CompleteRecord
  <2>6. Knows(call[c])'
    BY <1>t, <2>1, <2>2, <2>4, <2>5 DEF Knows, CallRecord, CompletionLabels, Lasting
  <2>7. QED
    BY <2>2, <2>4, <2>6, StepKeeps
<1>3. CASE OffboardEmployee(c)
  <2> DEFINE x == [call[c] EXCEPT !.pc = "auditComplete"]
  <2>1. call[c].pc = "offboardEmployee" /\ call[c].e \in Employees
    BY <1>t, <1>3 DEF OffboardEmployee, At, Argued, CompletionLabels
  <2>2. UNCHANGED <<assetVars, orec, tsk>> /\ departed' \subseteq Employees
    BY <1>3, <2>1, Types DEF OffboardEmployee
  <2>3. RecordsInOrder' /\ TasksKnown' /\ UNCHANGED asg /\ NextRow' = NextRow /\ NextRow \in Int
    BY <2>2, AssetsQuiet DEF WellTyped, RecordsInOrder, TasksKnown
  <2>4. TablesTyped /\ Lasting
    BY <2>2, <2>3, AssetsQuiet, Types DEF TablesTyped, Lasting
  <2>5. x \in CallRecord /\ Argued(x)
    BY <1>t, <1>l, <2>1 DEF CallRecord, Argued, AssignLabels, RecordLabels, CompletionLabels
  <2>6. OnlyCall(c) /\ call'[c] = x
    BY <1>3, <1>l, <2>5, GotoCall DEF OffboardEmployee
  <2>7. Knows(call[c])'
    BY <1>t, <2>1, <2>2, <2>3, <2>6 DEF Knows, CallRecord, CompletionLabels
  <2>8. QED
    BY <2>3, <2>4, <2>6, <2>7, StepKeeps
<1>4. CASE AuditComplete(c)
  <2>1. CASE call' = [call EXCEPT ![c].pc = "listByUser", ![c].then = "linked"]
    <3> DEFINE x == [call[c] EXCEPT !.pc = "listByUser", !.then = "linked"]
    <3>1. x \in CallRecord /\ Argued(x) /\ Knows(x)
      BY <1>t, <1>l, <1>4
         DEF AuditComplete, At, CallRecord, Argued, Knows, AssignLabels, RecordLabels, CompletionLabels
    <3>2. call' = [call EXCEPT ![c] = x]
      BY <2>1, Types DEF CallRecord
    <3> HIDE DEF x
    <3>3. QED
      BY <1>4, <3>1, <3>2, QuietStep, TablesQuiet DEF AuditComplete
  <2>2. CASE Return(c)
    BY <1>4, <2>2, ReturnQuiet, TablesQuiet DEF AuditComplete
  <2>3. QED
    BY <1>4, <2>1, <2>2 DEF AuditComplete
<1>5. CASE ListLinked(c)
  <2> DEFINE x == [call[c] EXCEPT !.todo = {i \in Live : tsk[call[c].r][i] # "none"}, !.then = "return"]
  <2>1. \A i \in Live : i \in Rows /\ asg[i].st # "none"
    BY DEF Live
  <2>2. x \in CallRecord /\ Argued(x) /\ Knows(x)
    BY <1>t, <1>5, <2>1
       DEF ListLinked, At, CallRecord, Argued, Knows, AssignLabels, RecordLabels, CompletionLabels
  <2>3. call' = [call EXCEPT ![c] = x]
    BY <1>5, Types DEF ListLinked, CallRecord
  <2> HIDE DEF x
  <2>4. QED
    BY <1>5, <2>2, <2>3, QuietStep, TablesQuiet DEF ListLinked
<1>6. QED
  BY <1>1, <1>2, <1>3, <1>4, <1>5 DEF Complete

\* A step after which its call is over.
LEMMA LastStep ==
  ASSUME WellTyped, NEW c \in Calls, Return(c), TablesTyped, Lasting, NextRow' \in Int
  PROVE  WellTyped'
<1>1. OnlyCall(c) /\ call'[c] = NoCall
  BY ReturnCall
<1>2. Knows(call[c])'
  BY <1>1, NoCallFits DEF Knows, NoCall, CompletionLabels
<1>3. QED
  BY <1>1, <1>2, StepKeeps

LEMMA UpdateRecordTyped ==
  ASSUME WellTyped, NEW c \in Calls, CancelRecord(c) \/ SetExitDate(c) \/ DeleteTasks(c) \/ DeleteRecord(c)
  PROVE  WellTyped' /\ Lasting
<1> DEFINE r == call[c].r
<1>t. call[c] \in CallRecord /\ Argued(call[c]) /\ Knows(call[c])
  BY Types DEF WellTyped
<1>r. r \in Records /\ orec[r].st # "none"
  BY <1>t DEF CancelRecord, SetExitDate, DeleteTasks, DeleteRecord, At, Argued, Knows, RecordLabels
<1>1. CASE CancelRecord(c)
  <2>1. TablesTyped /\ Lasting /\ NextRow' = NextRow /\ NextRow \in Int
    BY <1>1, <1>r, SetStatusTyped, Types DEF CancelRecord
  <2>2. QED
    BY <1>1, <2>1, LastStep DEF CancelRecord
<1>2. CASE SetExitDate(c)
  <2> DEFINE y == [orec[r] EXCEPT !.ahead = call[c].st = "ahead"]
  <2>1. orec' = orec \/ orec' = [orec EXCEPT ![r] = y]
    BY <1>2, <1>r, Types DEF SetExitDate
  <2>2. y \in RecordType /\ y.st = orec[r].st /\ y.e = orec[r].e
    BY <1>r, Types DEF RecordType
  <2> HIDE DEF y
  <2>3. orec' = [orec EXCEPT ![r] = orec[r]] \/ orec' = [orec EXCEPT ![r] = y]
    BY <2>1, Types
  <2>4. TablesTyped /\ Lasting /\ NextRow' = NextRow /\ NextRow \in Int
    BY <1>2, <1>r, <2>2, <2>3, RecordsWritten, Types DEF SetExitDate
  <2>5. QED
    BY <1>2, <2>4, LastStep DEF SetExitDate
<1>e. /\ tsk' = [tsk EXCEPT ![r] = NoTasks] => tsk' \in [Records -> [Tasks -> TaskStatuses]]
      /\ tsk' = [tsk EXCEPT ![r] = NoTasks] =>
           \A q \in Records, t \in Tasks : tsk'[q][t] # "none" => tsk[q][t] # "none"
  <2>1. NoTasks \in [Tasks -> TaskStatuses] /\ \A t \in Tasks : NoTasks[t] = "none"
    BY DEF NoTasks, TaskStatuses
  <2>2. QED
    BY <1>r, <2>1, Types
<1>3. CASE DeleteTasks(c)
  <2> DEFINE x == [call[c] EXCEPT !.pc = "deleteRecord"]
  <2>1. call[c].pc = "deleteTasks" /\ tsk' = [tsk EXCEPT ![r] = NoTasks]
    BY <1>3 DEF DeleteTasks, At
  <2>2. TablesTyped /\ Lasting /\ NextRow' = NextRow /\ NextRow \in Int
    <3>1. UNCHANGED <<assetVars, departed, orec>> /\ tsk' \in [Records -> [Tasks -> TaskStatuses]]
      BY <1>3, <1>e, <2>1 DEF DeleteTasks
    <3>2. \A q \in Records, u \in Tasks : tsk'[q][u] # "none" => tsk[q][u] # "none"
      BY <1>e, <2>1
    <3> HIDE DEF r
    <3>3. QED
      BY <3>1, <3>2, TasksWritten
  <2>3. x \in CallRecord /\ Argued(x) /\ "deleteRecord" \in Labels
    BY <1>t, <2>1 DEF CallRecord, Argued, Labels, AssignLabels, RecordLabels, CompletionLabels
  <2>4. OnlyCall(c) /\ call'[c] = x
    BY <1>3, <2>3, GotoCall DEF DeleteTasks
  <2>5. UNCHANGED <<asg, orec>>
    BY <1>3, AssetsQuiet DEF DeleteTasks
  <2>6. Knows(call[c])'
    BY <1>t, <2>1, <2>2, <2>4, <2>5 DEF Knows, CallRecord, CompletionLabels
  <2>7. QED
    BY <2>2, <2>4, <2>6, StepKeeps
<1>4. CASE DeleteRecord(c)
  <2>1. TablesTyped /\ Lasting /\ NextRow' = NextRow /\ NextRow \in Int
    BY <1>4, <1>r, <1>e, SetStatusTyped DEF DeleteRecord
  <2>2. QED
    BY <1>4, <2>1, LastStep DEF DeleteRecord
<1>5. QED
  BY <1>1, <1>2, <1>3, <1>4

\* The UPDATE of a task.
LEMMA SetTaskTyped ==
  ASSUME WellTyped, NEW c \in Calls, SetTask(c)
  PROVE  WellTyped' /\ Lasting
<1> DEFINE r == call[c].r
           t == call[c].i
           x == [call[c] EXCEPT !.todo = {t}, !.pc = "returnSelect"]
<1>t. call[c] \in CallRecord /\ Argued(call[c]) /\ Knows(call[c])
  BY Types DEF WellTyped
<1>1. /\ call[c].pc = "setTask" /\ r \in Records /\ call[c].st \in TaskStatuses \ {"none"}
      /\ t \in Rows => asg[t].st # "none"
  BY <1>t DEF SetTask, At, Argued, Knows, RecordLabels
<1>2. /\ tsk' \in [Records -> [Tasks -> TaskStatuses]]
      /\ \A q \in Records, u \in Tasks : tsk'[q][u] # "none" => tsk[q][u] # "none"
  <2>1. tsk' = tsk \/ (tsk[r][t] # "none" /\ tsk' = [tsk EXCEPT ![r][t] = call[c].st])
    <3>1. tsk' = IF tsk[r][t] = "none" THEN tsk ELSE [tsk EXCEPT ![r][t] = call[c].st]
      BY DEF SetTask, UpdateTask
    <3>2. QED
      BY <3>1
  <2>2. QED
    BY <1>1, <2>1, Types
<1>3. TablesTyped /\ Lasting /\ NextRow' = NextRow /\ NextRow \in Int
  <2>1. UNCHANGED <<assetVars, departed, orec>>
    BY DEF SetTask
  <2> HIDE DEF SetTask
  <2>2. QED
    BY <1>2, <2>1, TasksWritten
<1>4. CASE Return(c)
  BY <1>3, <1>4, LastStep
<1>5. CASE t \in Rows /\ call' = [call EXCEPT ![c].todo = {t}, ![c].pc = "returnSelect"]
  <2>1. x \in CallRecord /\ Argued(x)
    BY <1>t, <1>1, <1>5 DEF CallRecord, Argued, Labels, AssetLabels, AssignLabels, RecordLabels, CompletionLabels
  <2>2. call' = [call EXCEPT ![c] = x]
    BY <1>5, Types DEF CallRecord
  <2>3. x.r = r /\ x.todo = {t} /\ x.pc = "returnSelect"
    BY <1>t DEF CallRecord
  <2> HIDE DEF x
  <2>4. OnlyCall(c) /\ call'[c] = x
    BY <2>1, <2>2, CallBecomes
  <2>5. UNCHANGED <<asg, orec>>
    BY AssetsQuiet DEF SetTask
  <2>6. Knows(call[c])'
    BY <1>t, <1>1, <1>5, <2>3, <2>4, <2>5 DEF Knows, CompletionLabels
  <2>7. QED
    BY <1>3, <2>4, <2>6, StepKeeps
<1>6. QED
  BY <1>4, <1>5 DEF SetTask

\* The day of an exit date comes.
LEMMA DayTyped ==
  ASSUME WellTyped, NEW r \in Records, DayPasses(r)
  PROVE  WellTyped' /\ Lasting
<1> DEFINE y == [orec[r] EXCEPT !.ahead = FALSE]
<1>1. orec[r].st # "none" /\ y \in RecordType /\ y.st = orec[r].st /\ y.e = orec[r].e
  BY Types DEF DayPasses, InTable, Closed, RecordType
<1>2. orec' = [orec EXCEPT ![r] = y]
  BY Types DEF DayPasses
<1> HIDE DEF y
<1>3. TablesTyped /\ Lasting /\ NextRow' = NextRow /\ NextRow \in Int
  BY <1>1, <1>2, RecordsWritten, Types DEF DayPasses
<1>4. UNCHANGED call
  BY DEF DayPasses
<1>5. \A d \in Calls : Argued(call[d])' /\ Knows(call[d])'
  BY <1>3, <1>4, KnowsKept DEF WellTyped
<1>6. \A i \in Rows : asg'[i].st # "none" => asg'[i].tag \in 1..MaxRows
  BY <1>3, Types DEF TablesTyped, RowsInOrder, Rows
<1>7. TypeOK'
  BY <1>3, <1>4, <1>6, Types DEF TypeOK, AssetTypes, TablesTyped, RecordType, Live
<1>8. QED
  BY <1>3, <1>5, <1>7 DEF WellTyped, TablesTyped

LEMMA InitTyped == Init => WellTyped
<1> SUFFICES ASSUME Init PROVE WellTyped
  OBVIOUS
<1>1. avail = Quantity /\ asg = [i \in Rows |-> NoRow] /\ late = {} /\ listed = {}
      /\ call = [c \in Calls |-> NoCall] /\ departed = {} /\ orec = [r \in Records |-> NoRecord]
      /\ tsk = [r \in Records |-> NoTasks]
  BY DEF Init, AssetInit
<1>2. MaxRows \in Nat /\ MaxRecords \in Nat /\ avail \in [StockItems -> Int]
  BY <1>1, CustodyAssumption
<1>3. NoRow \in Row /\ NoRow.st = "none" /\ NoRecord \in RecordType /\ NoRecord.st = "none"
      /\ NoTasks \in [Tasks -> TaskStatuses] /\ \A t \in Tasks : NoTasks[t] = "none"
  BY <1>2 DEF NoRow, Row, NoRecord, RecordType, RecordStatuses, NoTasks, TaskStatuses
<1> HIDE DEF Init
<1>4. \A i \in Rows : asg[i] = NoRow /\ asg[i].st = "none"
  BY <1>1, <1>3
<1>5. \A r \in Records : orec[r] = NoRecord /\ orec[r].st = "none"
  BY <1>1, <1>3
<1>6. TypeOK
  <2>1. Live = {}
    BY <1>4 DEF Live
  <2>2. AssetTypes
    BY <1>1, <1>2, <1>3, <2>1 DEF AssetTypes
  <2>3. QED
    BY <1>1, <1>3, <2>2, NoCallFits DEF TypeOK, RecordType
<1>7. RowsInOrder
  <2>1. 0 \in 0..MaxRows /\ \A i \in Rows : ~(i <= 0)
    BY <1>2 DEF Rows
  <2>2. QED
    BY <1>4, <2>1 DEF RowsInOrder
<1>8. RecordsInOrder
  <2>1. 0 \in 0..MaxRecords /\ \A r \in Records : ~(r <= 0)
    BY <1>2 DEF Records
  <2>2. QED
    BY <1>5, <2>1 DEF RecordsInOrder
<1>9. TasksKnown
  BY <1>1, <1>3 DEF TasksKnown
<1>10. \A c \in Calls : Argued(call[c]) /\ Knows(call[c])
  BY <1>1, NoCallFits
<1>11. QED
  BY <1>6, <1>7, <1>8, <1>9, <1>10 DEF WellTyped

\* Every step keeps all well formed, and what is settled stays so.
LEMMA StepTyped ==
  ASSUME WellTyped, [Next]_vars
  PROVE  WellTyped' /\ Lasting
<1>1. ASSUME NEW c \in Calls, AssetStep(c), UNCHANGED offVars
      PROVE  WellTyped' /\ Lasting
  BY <1>1, StartAssetsTyped, AssignTyped, ReleaseTyped DEF AssetStep
<1>2. ASSUME NEW c \in Calls, OffboardingStep(c)
      PROVE  WellTyped' /\ Lasting
  BY <1>2, StartOffboardingTyped, InitiateTyped, CompleteTyped, SetTaskTyped, UpdateRecordTyped
     DEF OffboardingStep
<1>3. ASSUME NEW r \in Records, DayPasses(r)
      PROVE  WellTyped' /\ Lasting
  BY <1>3, DayTyped
<1>4. CASE UNCHANGED vars
  <2>1. UNCHANGED <<assetVars, offVars, call>>
    BY <1>4 DEF vars, assetVars, offVars
  <2>2. TablesTyped /\ Lasting /\ NextRow' = NextRow /\ NextRow \in Int
    BY <2>1, TablesQuiet
  <2>3. \A d \in Calls : Argued(call[d])' /\ Knows(call[d])'
    BY <2>1, <2>2, KnowsKept DEF WellTyped
  <2>4. TypeOK'
    BY <1>4 DEF vars, WellTyped, TypeOK, AssetTypes, Live
  <2>5. QED
    BY <2>2, <2>3, <2>4 DEF WellTyped, TablesTyped
<1>5. QED
  BY <1>1, <1>2, <1>3, <1>4 DEF Next

\* The tables and the calls in progress hold values of their types.
THEOREM TypesHold == Spec => []TypeOK
<1>1. Init => WellTyped
  BY InitTyped
<1>2. WellTyped /\ [Next]_vars => WellTyped'
  BY StepTyped
<1>3. WellTyped => TypeOK
  BY DEF WellTyped
<1>4. QED
  BY <1>1, <1>2, <1>3, PTL DEF Spec
\* No offboarding that was closed is reopened, and none is deleted that was
\* not closed: the handler that deletes one saw it closed, and the records
\* that are inserted are new ones.
LEMMA ClosedKept ==
  ASSUME WellTyped, [Next]_vars, NEW r \in Records
  PROVE  /\ orec[r].st \in Closed => orec'[r].st \in Over
         /\ orec'[r].st = "deleted" => orec[r].st \in Over
<1>1. orec[r].st \in Closed => orec'[r].st \in Over
  BY StepTyped DEF Lasting, Over, Closed
<1>2. CASE UNCHANGED orec
  BY <1>1, <1>2 DEF Over
<1>k. \A c \in Calls : Argued(call[c]) /\ Knows(call[c])
  BY DEF WellTyped
<1>3. ASSUME NEW c \in Calls, CreateRecord(c)
      PROVE  orec'[r].st = "deleted" => orec[r].st \in Over
  <2>1. PICK ahead \in BOOLEAN :
          orec' = [orec EXCEPT ![NextRecord] = [st |-> "active", e |-> call[c].e, ahead |-> ahead]]
    BY <1>3 DEF CreateRecord
  <2>2. orec'[r].st = "active" \/ orec'[r] = orec[r]
    BY <2>1, Types
  <2>3. QED
    BY <2>2 DEF Over
<1>4. ASSUME NEW c \in Calls, CompleteRecord(c) \/ CancelRecord(c)
      PROVE  orec'[r].st = "deleted" => orec[r].st \in Over
  <2>1. orec'[r].st \in {"completed", "cancelled"} \/ orec'[r] = orec[r]
    BY <1>4, Types DEF CompleteRecord, CancelRecord, SetStatus, RecordType
  <2>2. QED
    BY <2>1 DEF Over
<1>5. ASSUME NEW c \in Calls, SetExitDate(c)
      PROVE  orec'[r].st = "deleted" => orec[r].st \in Over
  <2>1. orec'[r].st = orec[r].st
    BY <1>5, Types DEF SetExitDate, RecordType
  <2>2. QED
    BY <2>1 DEF Over
<1>6. ASSUME NEW c \in Calls, DeleteRecord(c)
      PROVE  orec'[r].st = "deleted" => orec[r].st \in Over
  <2>1. call[c].r \in Records /\ orec[call[c].r].st \in Over
    BY <1>6, <1>k DEF DeleteRecord, At, Argued, Knows, RecordLabels
  <2>2. r = call[c].r \/ orec'[r] = orec[r]
    BY <1>6, Types DEF DeleteRecord, SetStatus
  <2>3. QED
    BY <2>1, <2>2 DEF Over
<1>7. ASSUME NEW q \in Records, DayPasses(q)
      PROVE  orec'[r].st = "deleted" => orec[r].st \in Over
  <2>1. orec'[r].st = orec[r].st
    BY <1>7, Types DEF DayPasses, RecordType
  <2>2. QED
    BY <2>1 DEF Over
<1>8. ASSUME NEW c \in Calls, OffboardingStep(c)
      PROVE  orec'[r].st = "deleted" => orec[r].st \in Over
  <2>1. CASE StartOffboarding(c)
    BY <1>2, <2>1 DEF StartOffboarding, InitiateStart, CompleteStart, CancelStart, DeleteStart, ExitDateStart,
                      TaskStart, offVars
  <2>2. CASE Initiate(c)
    BY <1>2, <1>3, <2>2 DEF Initiate, CheckActive, InsertStandardTask, ReadAssets, InsertAssetTask, offVars
  <2>3. CASE Complete(c)
    BY <1>2, <1>4, <2>3 DEF Complete, ReadTasks, OffboardEmployee, AuditComplete, ListLinked, offVars
  <2>4. QED
    BY <1>2, <1>4, <1>5, <1>6, <1>8, <2>1, <2>2, <2>3 DEF OffboardingStep, SetTask, DeleteTasks
<1>9. CASE Next
  <2>1. CASE UNCHANGED offVars
    BY <1>2, <2>1 DEF offVars
  <2>2. QED
    BY <1>1, <1>7, <1>8, <1>9, <2>1 DEF Next
<1>10. QED
  BY <1>1, <1>2, <1>9 DEF vars

\* An offboarding that was completed or cancelled never becomes active
\* again, and none that is active is ever deleted.
THEOREM ClosedForGood == Spec => ClosedStaysClosed
<1>1. Init => WellTyped
  BY InitTyped
<1>2. WellTyped /\ [Next]_vars => WellTyped'
  BY StepTyped
<1>3. WellTyped /\ [Next]_vars =>
        [\A r \in Records :
           /\ orec[r].st \in Closed => orec'[r].st \in Closed \cup {"deleted"}
           /\ orec'[r].st = "deleted" => orec[r].st \in Closed \cup {"deleted"}]_vars
  BY ClosedKept DEF Over
<1>4. QED
  BY <1>1, <1>2, <1>3, PTL DEF Spec, ClosedStaysClosed
-----------------------------------------------------------------------------
(* No unit is lost.                                                        *)

Collecting == {"listByMail", "returnSelect", "returnDelete", "returnIncrement"}
Carrying == {"returnIncrement", "assignDecrement"}

\* A step of c alone, which neither brings a unit back nor takes one.
Empty(c) ==
  /\ \A d \in Calls : d # c => call'[d] = call[d]
  /\ call[c].pc \notin Carrying /\ call'[c].pc \notin Carrying

LEMMA BeginMoves ==
  ASSUME WellTyped, NEW c \in Calls, NEW x \in CallRecord, Begin(c, x), x.pc \notin Carrying
  PROVE  Empty(c) /\ call[c].pc \notin Collecting
BY Types DEF Begin, At, Empty, Carrying, Collecting

LEMMA ReturnMoves ==
  ASSUME WellTyped, NEW c \in Calls, Return(c), call[c].pc \notin Carrying
  PROVE  Empty(c)
BY Types, NoCallFits DEF Return, Empty, Carrying

LEMMA GotoMoves ==
  ASSUME WellTyped, NEW c \in Calls, NEW l, Goto(c, l), call[c].pc \notin Carrying, l \notin Carrying
  PROVE  Empty(c)
<1>1. call[c] \in CallRecord /\ call \in [Calls -> CallRecord]
  BY Types
<1>2. call'[c] = [call[c] EXCEPT !.pc = l] /\ \A d \in Calls : d # c => call'[d] = call[d]
  BY <1>1 DEF Goto
<1>3. call'[c].pc = l
  BY <1>1, <1>2 DEF CallRecord
<1>4. QED
  BY <1>2, <1>3 DEF Empty

\* The handlers of the offboardings carry no unit and touch no asset.
LEMMA OffboardingMoves ==
  ASSUME WellTyped, NEW c \in Calls, OffboardingStep(c)
  PROVE  /\ Empty(c) /\ UNCHANGED assetVars
         /\ call[c].pc \in Collecting => ListLinked(c)
<1>t. call \in [Calls -> CallRecord] /\ call[c] \in CallRecord
  BY Types
<1> USE DEF At, Carrying, Collecting
<1>1. CASE StartOffboarding(c)
  <2> DEFINE Starts == {"checkActive", "readTasks", "completeRecord", "cancelRecord", "setExitDate", "deleteTasks",
                        "setTask"}
  <2>a. ASSUME NEW e \in Employees, InitiateStart(c, e)
        PROVE  call[c].pc = "idle" /\ call'[c].pc \in Starts /\ \A d \in Calls : d # c => call'[d] = call[d]
    BY <1>t, <2>a DEF Begin, InitiateStart, NoCall
  <2>b. ASSUME NEW r \in Records, CompleteStart(c, r)
        PROVE  call[c].pc = "idle" /\ call'[c].pc \in Starts /\ \A d \in Calls : d # c => call'[d] = call[d]
    BY <1>t, <2>b DEF Begin, CompleteStart, NoCall
  <2>c. ASSUME NEW r \in Records, CancelStart(c, r) \/ DeleteStart(c, r)
        PROVE  call[c].pc = "idle" /\ call'[c].pc \in Starts /\ \A d \in Calls : d # c => call'[d] = call[d]
    BY <1>t, <2>c DEF Begin, CancelStart, DeleteStart, NoCall
  <2>d. ASSUME NEW r \in Records, NEW st \in {"ahead", "reached"}, ExitDateStart(c, r, st)
        PROVE  call[c].pc = "idle" /\ call'[c].pc \in Starts /\ \A d \in Calls : d # c => call'[d] = call[d]
    BY <1>t, <2>d DEF Begin, ExitDateStart, NoCall
  <2>e. ASSUME NEW r \in Records, NEW t \in Tasks, NEW st \in TaskStatuses \ {"none"}, TaskStart(c, r, t, st)
        PROVE  call[c].pc = "idle" /\ call'[c].pc \in Starts /\ \A d \in Calls : d # c => call'[d] = call[d]
    BY <1>t, <2>e DEF Begin, TaskStart, NoCall
  <2>1. call[c].pc = "idle" /\ call'[c].pc \in Starts /\ \A d \in Calls : d # c => call'[d] = call[d]
    BY <1>1, <2>a, <2>b, <2>c, <2>d, <2>e DEF StartOffboarding
  <2>2. Empty(c) /\ call[c].pc \notin Collecting
    BY <2>1 DEF Empty
  <2>3. QED
    BY <1>1, <2>2 DEF StartOffboarding, InitiateStart, CompleteStart, CancelStart, ExitDateStart, DeleteStart, TaskStart
<1>2. CASE Initiate(c)
  <2>1. call[c].pc \in {"checkActive", "createRecord", "standardTask", "readAssets", "assetTask"}
    BY <1>2 DEF Initiate, CheckActive, CreateRecord, InsertStandardTask, ReadAssets, InsertAssetTask
  <2>2. UNCHANGED assetVars
    BY <1>2 DEF Initiate, CheckActive, CreateRecord, InsertStandardTask, ReadAssets, InsertAssetTask
  <2>3. CASE Return(c) \/ \E l \in {"createRecord", "readAssets"} : Goto(c, l)
    BY <2>1, <2>2, <2>3, ReturnMoves, GotoMoves
  <2>4. CASE CreateRecord(c)
    <3>1. call'[c].pc = "standardTask" /\ \A d \in Calls : d # c => call'[d] = call[d]
      BY <1>t, <2>4 DEF CreateRecord, CallRecord
    <3>2. QED
      BY <2>1, <2>2, <3>1 DEF Empty
  <2>5. ASSUME NEW t, NEW l \in {"readAssets", "assetTask"},
               call' = [call EXCEPT ![c].pc = l, ![c].todo = @ \ {t}]
        PROVE  Empty(c)
    <3>1. call'[c].pc = l /\ \A d \in Calls : d # c => call'[d] = call[d]
      BY <1>t, <2>5 DEF CallRecord
    <3>2. QED
      BY <2>1, <3>1 DEF Empty
  <2>6. CASE ReadAssets(c)
    <3>1. call'[c].pc = "assetTask" /\ \A d \in Calls : d # c => call'[d] = call[d]
      BY <1>t, <2>6 DEF ReadAssets, CallRecord
    <3>2. QED
      BY <2>1, <2>2, <3>1 DEF Empty
  <2>7. QED
    BY <1>2, <2>1, <2>2, <2>3, <2>4, <2>5, <2>6 DEF Initiate, CheckActive, InsertStandardTask, InsertAssetTask, InsertTask
<1>3. CASE Complete(c)
  <2>1. call[c].pc \in {"readTasks", "completeRecord", "offboardEmployee", "auditComplete"} \/ ListLinked(c)
    BY <1>3 DEF Complete, ReadTasks, CompleteRecord, OffboardEmployee, AuditComplete
  <2>s. ListLinked(c) => call[c].pc = "returnSelect"
    BY DEF ListLinked
  <2>2. UNCHANGED assetVars
    BY <1>3 DEF Complete, ReadTasks, CompleteRecord, OffboardEmployee, AuditComplete, ListLinked
  <2>3. ASSUME NEW l \in {"completeRecord", "offboardEmployee", "auditComplete"}, Goto(c, l)
        PROVE  Empty(c)
    BY <2>1, <2>s, <2>3, GotoMoves
  <2>4. ASSUME Return(c) PROVE Empty(c)
    BY <2>1, <2>s, <2>4, ReturnMoves
  <2>5. ASSUME call' = [call EXCEPT ![c].pc = "listByUser", ![c].then = "linked"]
        PROVE  Empty(c)
    <3>1. call'[c].pc = "listByUser" /\ \A d \in Calls : d # c => call'[d] = call[d]
      BY <1>t, <2>5 DEF CallRecord
    <3>2. QED
      BY <2>1, <2>s, <3>1 DEF Empty
  <2>6. ASSUME ListLinked(c) PROVE Empty(c)
    <3>1. call'[c].pc = call[c].pc /\ call[c].pc = "returnSelect" /\ \A d \in Calls : d # c => call'[d] = call[d]
      BY <1>t, <2>6 DEF ListLinked, CallRecord
    <3>2. QED
      BY <2>2, <2>6, <3>1 DEF Empty
  <2>7. Empty(c)
    BY <1>3, <2>3, <2>4, <2>5, <2>6 DEF Complete, ReadTasks, CompleteRecord, OffboardEmployee, AuditComplete
  <2>8. QED
    BY <2>1, <2>2, <2>7
<1>4. CASE SetTask(c)
  <2>1. call[c].pc = "setTask" /\ UNCHANGED assetVars
    BY <1>4 DEF SetTask
  <2>2. CASE Return(c)
    BY <2>1, <2>2, ReturnMoves
  <2>3. CASE call' = [call EXCEPT ![c].todo = {call[c].i}, ![c].pc = "returnSelect"]
    <3>1. call'[c].pc = "returnSelect" /\ \A d \in Calls : d # c => call'[d] = call[d]
      BY <1>t, <2>3 DEF CallRecord
    <3>2. QED
      BY <2>1, <3>1 DEF Empty
  <2>4. QED
    BY <1>4, <2>1, <2>2, <2>3 DEF SetTask
<1>5. CASE CancelRecord(c) \/ SetExitDate(c) \/ DeleteRecord(c) \/ DeleteTasks(c)
  <2>1. call[c].pc \in {"cancelRecord", "setExitDate", "deleteRecord", "deleteTasks"} /\ UNCHANGED assetVars
    BY <1>5 DEF CancelRecord, SetExitDate, DeleteRecord, DeleteTasks
  <2>2. Return(c) \/ Goto(c, "deleteRecord")
    BY <1>5 DEF CancelRecord, SetExitDate, DeleteRecord, DeleteTasks
  <2>3. QED
    BY <2>1, <2>2, ReturnMoves, GotoMoves
<1>6. QED
  BY <1>1, <1>2, <1>3, <1>4, <1>5 DEF OffboardingStep
\* The rows that account for a unit of s, the calls that are about to put
\* one back on the shelf, and those about to take one off it.
InUse(s) == {i \in Live : asg[i].item = s}
Returning(s) == {c \in Calls : call[c].pc = "returnIncrement" /\ asg[call[c].i].item = s}
Taking(s) == {c \in Calls : call[c].pc = "assignDecrement" /\ call[c].s = s}

\* Every unit of s is on the shelf, in use or on its way back.
StockedItem(s) ==
  avail[s] + Cardinality(InUse(s)) + Cardinality(Returning(s)) >= Quantity[s] + Cardinality(Taking(s))
Stocked == \A s \in StockItems : StockedItem(s)

\* A finite set that may gain or lose x.
LEMMA OneChanges ==
  ASSUME NEW S, NEW T, NEW x, IsFiniteSet(S), IsFiniteSet(T), S \ {x} = T \ {x}
  PROVE  /\ Cardinality(S) \in Nat /\ Cardinality(T) \in Nat
         /\ x \in S /\ x \notin T => Cardinality(T) = Cardinality(S) - 1
         /\ x \notin S /\ x \in T => Cardinality(T) = Cardinality(S) + 1
         /\ (x \in S <=> x \in T) => Cardinality(T) = Cardinality(S)
<1>1. Cardinality(S) \in Nat /\ Cardinality(T) \in Nat
  BY FS_CardinalityType
<1>2. Cardinality(S \ {x}) = IF x \in S THEN Cardinality(S) - 1 ELSE Cardinality(S)
  BY FS_RemoveElement
<1>3. Cardinality(T \ {x}) = IF x \in T THEN Cardinality(T) - 1 ELSE Cardinality(T)
  BY FS_RemoveElement
<1>4. QED
  BY <1>1, <1>2, <1>3

LEMMA Countable ==
  ASSUME WellTyped, NEW s \in StockItems
  PROVE  /\ IsFiniteSet(InUse(s)) /\ IsFiniteSet(Returning(s)) /\ IsFiniteSet(Taking(s))
         /\ avail[s] \in Int /\ Quantity[s] \in Nat
<1>1. IsFiniteSet(Rows) /\ IsFiniteSet(Calls)
  <2>1. 1 \in Int /\ MaxRows \in Int
    BY CustodyAssumption
  <2>2. IsFiniteSet(1..MaxRows)
    BY <2>1, FS_Interval
  <2>3. QED
    BY <2>2, CustodyAssumption DEF Rows
<1>2. InUse(s) \in SUBSET Rows /\ Returning(s) \in SUBSET Calls /\ Taking(s) \in SUBSET Calls
  BY DEF InUse, Live, Returning, Taking
<1>3. IsFiniteSet(InUse(s))
  BY <1>1, <1>2, FS_Subset
<1>4. IsFiniteSet(Returning(s))
  BY <1>1, <1>2, FS_Subset
<1>5. IsFiniteSet(Taking(s))
  BY <1>1, <1>2, FS_Subset
<1>6. QED
  BY <1>3, <1>4, <1>5, Types, CustodyAssumption

\* Only the call that steps starts or stops carrying a unit.
LEMMA OthersCarry ==
  ASSUME WellTyped, Lasting, NEW c \in Calls, \A d \in Calls : d # c => call'[d] = call[d], NEW s \in StockItems
  PROVE  Returning(s) \ {c} = Returning(s)' \ {c} /\ Taking(s) \ {c} = Taking(s)' \ {c}
<1>1. ASSUME NEW d \in Calls, d # c
      PROVE  (d \in Returning(s) <=> d \in Returning(s)') /\ (d \in Taking(s) <=> d \in Taking(s)')
  <2>1. call'[d] = call[d]
    BY <1>1
  <2>2. call[d].pc = "returnIncrement" => asg'[call[d].i].item = asg[call[d].i].item
    BY DEF WellTyped, Argued, Knows, Lasting
  <2>3. QED
    BY <2>1, <2>2 DEF Returning, Taking
<1>2. Returning(s) \subseteq Calls /\ Returning(s)' \subseteq Calls /\ Taking(s) \subseteq Calls /\ Taking(s)' \subseteq Calls
  BY DEF Returning, Taking
<1>3. QED
  BY <1>1, <1>2

\* How the counts move when c steps and at most row i changes.
LEMMA CountsMove ==
  ASSUME WellTyped, WellTyped', Lasting, NEW c \in Calls, \A d \in Calls : d # c => call'[d] = call[d],
         NEW i, \A j \in Rows : j # i => asg'[j] = asg[j], NEW s \in StockItems
  PROVE  /\ Cardinality(InUse(s)) \in Nat /\ Cardinality(InUse(s)') \in Nat
         /\ Cardinality(Returning(s)) \in Nat /\ Cardinality(Returning(s)') \in Nat
         /\ Cardinality(Taking(s)) \in Nat /\ Cardinality(Taking(s)') \in Nat
         /\ avail[s] \in Int /\ avail'[s] \in Int /\ Quantity[s] \in Nat
         /\ i \in InUse(s) /\ i \notin InUse(s)' => Cardinality(InUse(s)') = Cardinality(InUse(s)) - 1
         /\ i \notin InUse(s) /\ i \in InUse(s)' => Cardinality(InUse(s)') = Cardinality(InUse(s)) + 1
         /\ (i \in InUse(s) <=> i \in InUse(s)') => Cardinality(InUse(s)') = Cardinality(InUse(s))
         /\ c \in Returning(s) /\ c \notin Returning(s)' => Cardinality(Returning(s)') = Cardinality(Returning(s)) - 1
         /\ c \notin Returning(s) /\ c \in Returning(s)' => Cardinality(Returning(s)') = Cardinality(Returning(s)) + 1
         /\ (c \in Returning(s) <=> c \in Returning(s)') => Cardinality(Returning(s)') = Cardinality(Returning(s))
         /\ c \in Taking(s) /\ c \notin Taking(s)' => Cardinality(Taking(s)') = Cardinality(Taking(s)) - 1
         /\ c \notin Taking(s) /\ c \in Taking(s)' => Cardinality(Taking(s)') = Cardinality(Taking(s)) + 1
         /\ (c \in Taking(s) <=> c \in Taking(s)') => Cardinality(Taking(s)') = Cardinality(Taking(s))
<1>1. /\ IsFiniteSet(InUse(s)) /\ IsFiniteSet(Returning(s)) /\ IsFiniteSet(Taking(s))
      /\ avail[s] \in Int /\ Quantity[s] \in Nat
  BY Countable
<1>2. IsFiniteSet(InUse(s)') /\ IsFiniteSet(Returning(s)') /\ IsFiniteSet(Taking(s)') /\ avail'[s] \in Int
  <2>1. IsFiniteSet(Rows) /\ IsFiniteSet(Calls)
    <3>1. 1 \in Int /\ MaxRows \in Int
      BY CustodyAssumption
    <3>2. IsFiniteSet(1..MaxRows)
      BY <3>1, FS_Interval
    <3>3. QED
      BY <3>2, CustodyAssumption DEF Rows
  <2>2. InUse(s)' \in SUBSET Rows /\ Returning(s)' \in SUBSET Calls /\ Taking(s)' \in SUBSET Calls
    BY DEF InUse, Live, Returning, Taking
  <2>3. IsFiniteSet(InUse(s)')
    BY <2>1, <2>2, FS_Subset
  <2>4. IsFiniteSet(Returning(s)')
    BY <2>1, <2>2, FS_Subset
  <2>5. IsFiniteSet(Taking(s)')
    BY <2>1, <2>2, FS_Subset
  <2>6. QED
    BY <2>3, <2>4, <2>5 DEF WellTyped, TypeOK, AssetTypes
<1>3. InUse(s) \ {i} = InUse(s)' \ {i}
  BY DEF InUse, Live
<1>4. Returning(s) \ {c} = Returning(s)' \ {c} /\ Taking(s) \ {c} = Taking(s)' \ {c}
  BY OthersCarry
<1> DEFINE U == InUse(s)
           V == InUse(s)'
           A == Returning(s)
           B == Returning(s)'
           P == Taking(s)
           Q == Taking(s)'
<1> HIDE DEF U, V, A, B, P, Q
<1>5. /\ Cardinality(U) \in Nat /\ Cardinality(V) \in Nat
      /\ i \in U /\ i \notin V => Cardinality(V) = Cardinality(U) - 1
      /\ i \notin U /\ i \in V => Cardinality(V) = Cardinality(U) + 1
      /\ (i \in U <=> i \in V) => Cardinality(V) = Cardinality(U)
  BY <1>1, <1>2, <1>3, OneChanges DEF U, V
<1>6. /\ Cardinality(A) \in Nat /\ Cardinality(B) \in Nat
      /\ c \in A /\ c \notin B => Cardinality(B) = Cardinality(A) - 1
      /\ c \notin A /\ c \in B => Cardinality(B) = Cardinality(A) + 1
      /\ (c \in A <=> c \in B) => Cardinality(B) = Cardinality(A)
  BY <1>1, <1>2, <1>4, OneChanges DEF A, B
<1>7. /\ Cardinality(P) \in Nat /\ Cardinality(Q) \in Nat
      /\ c \in P /\ c \notin Q => Cardinality(Q) = Cardinality(P) - 1
      /\ c \notin P /\ c \in Q => Cardinality(Q) = Cardinality(P) + 1
      /\ (c \in P <=> c \in Q) => Cardinality(Q) = Cardinality(P)
  BY <1>1, <1>2, <1>4, OneChanges DEF P, Q
<1>8. QED
  BY <1>1, <1>2, <1>5, <1>6, <1>7 DEF U, V, A, B, P, Q
\* A step that carries no unit and leaves the rows where they are.
LEMMA EmptyStocked ==
  ASSUME WellTyped, Lasting, NEW c \in Calls, Empty(c), UNCHANGED avail, Stocked,
         \A i \in Rows : (asg'[i].st = "live" <=> asg[i].st = "live") /\ asg'[i].item = asg[i].item
  PROVE  Stocked'
<1> SUFFICES ASSUME NEW s \in StockItems PROVE StockedItem(s)'
  BY DEF Stocked
<1>1. InUse(s)' = InUse(s)
  BY DEF InUse, Live
<1>2. Returning(s) \ {c} = Returning(s)' \ {c} /\ Taking(s) \ {c} = Taking(s)' \ {c}
  BY OthersCarry DEF Empty
<1>3. c \notin Returning(s) /\ c \notin Returning(s)' /\ c \notin Taking(s) /\ c \notin Taking(s)'
  BY DEF Empty, Carrying, Returning, Taking
<1>4. Returning(s)' = Returning(s) /\ Taking(s)' = Taking(s)
  BY <1>2, <1>3
<1>5. StockedItem(s)
  BY DEF Stocked
<1>6. QED
  BY <1>1, <1>4, <1>5 DEF StockedItem

LEMMA StartAssetsStocked ==
  ASSUME WellTyped, WellTyped', Lasting, Stocked, NEW c \in Calls, StartAssets(c)
  PROVE  Stocked'
<1>t. call \in [Calls -> CallRecord] /\ call[c] \in CallRecord
  BY Types
<1>1. ASSUME NEW s \in StockItems, NEW e \in Employees, AssignStart(c, s, e) \/ LaptopStart(c, s, e)
      PROVE  Stocked'
  <2>1. Empty(c) /\ UNCHANGED assetVars
    BY <1>t, <1>1 DEF AssignStart, LaptopStart, Begin, At, NoCall, Empty, Carrying
  <2>2. QED
    BY <2>1, EmptyStocked DEF assetVars
<1>2. ASSUME NEW i \in Rows, DeleteSystem(c, i)
      PROVE  Stocked'
  <2>1. Empty(c) /\ UNCHANGED assetVars
    BY <1>t, <1>2 DEF DeleteSystem, Begin, At, NoCall, Empty, Carrying
  <2>2. QED
    BY <2>1, EmptyStocked DEF assetVars
<1>3. ASSUME NEW i \in Rows, NEW e \in Employees, NEW mail \in BOOLEAN, UpdateSystem(c, i, e, mail)
      PROVE  Stocked'
  <2>1. Empty(c) /\ UNCHANGED avail
    BY <1>3 DEF UpdateSystem, At, Empty, Carrying
  <2>2. asg' = [asg EXCEPT ![i].user = e, ![i].mail = IF mail THEN e ELSE @]
    BY <1>3 DEF UpdateSystem
  <2>3. \A j \in Rows : asg'[j].st = asg[j].st /\ asg'[j].item = asg[j].item
    BY <2>2, Types DEF Row
  <2>4. QED
    BY <2>1, <2>3, EmptyStocked
<1>4. ASSUME NEW s \in StockItems, NEW e \in Employees, CreateSystem(c, s, e)
      PROVE  Stocked'
  <2> SUFFICES ASSUME NEW u \in StockItems PROVE StockedItem(u)'
    BY DEF Stocked
  <2> DEFINE n == NextRow
  <2>1. call[c].pc = "idle" /\ call' = call /\ avail' = avail
    BY <1>4 DEF CreateSystem, At
  <2>2. NextTag \in 1..NextRow /\ Insert(s, e, NextTag)
    BY <1>4, NextTagBounded DEF CreateSystem
  <2>3. n \in Rows /\ asg[n].st = "none" /\ \A i \in Rows : i # n => asg'[i] = asg[i]
    BY <2>2, InsertTyped
  <2> HIDE DEF n
  <2>4. n \notin InUse(u)
    BY <2>3 DEF InUse, Live
  <2>5. c \notin Returning(u) /\ c \notin Returning(u)' /\ c \notin Taking(u) /\ c \notin Taking(u)'
    BY <2>1 DEF Returning, Taking
  <2>6. /\ Cardinality(InUse(u)) \in Nat /\ Cardinality(InUse(u)') \in Nat
        /\ Cardinality(InUse(u)') >= Cardinality(InUse(u))
        /\ Cardinality(Returning(u)) \in Nat /\ Cardinality(Taking(u)) \in Nat
        /\ Cardinality(Returning(u)') = Cardinality(Returning(u))
        /\ Cardinality(Taking(u)') = Cardinality(Taking(u))
        /\ avail[u] \in Int /\ Quantity[u] \in Nat
    BY <2>1, <2>3, <2>4, <2>5, CountsMove
  <2>7. StockedItem(u)
    BY DEF Stocked
  <2>8. QED
    BY <2>1, <2>6, <2>7 DEF StockedItem
<1>5. QED
  BY <1>1, <1>2, <1>3, <1>4 DEF StartAssets

LEMMA AssignStocked ==
  ASSUME WellTyped, WellTyped', Lasting, Stocked, NEW c \in Calls, Assign(c)
  PROVE  Stocked'
<1>t. call \in [Calls -> CallRecord] /\ call[c] \in CallRecord /\ Argued(call[c])
  BY Types DEF WellTyped
<1>1. CASE AssignStock(c)
  <2>1. Empty(c) /\ UNCHANGED assetVars
    BY <1>1, GotoMoves, ReturnMoves DEF AssignStock, At, Carrying
  <2>2. QED
    BY <2>1, EmptyStocked DEF assetVars
<1>2. CASE AssignTag(c)
  <2>1. Empty(c) /\ UNCHANGED assetVars
    BY <1>t, <1>2 DEF AssignTag, At, CallRecord, Empty, Carrying
  <2>2. QED
    BY <2>1, EmptyStocked DEF assetVars
<1>3. CASE AssignInsert(c)
  <2>1. CASE Return(c) /\ UNCHANGED assetVars
    <3>1. Empty(c)
      BY <1>3, <2>1, ReturnMoves DEF AssignInsert, At, Carrying
    <3>2. QED
      BY <2>1, <3>1, EmptyStocked DEF assetVars
  <2>2. CASE /\ Insert(call[c].s, call[c].e, call[c].tag) /\ Goto(c, "assignDecrement")
             /\ UNCHANGED <<avail, listed>>
    <3> SUFFICES ASSUME NEW u \in StockItems PROVE StockedItem(u)'
      BY DEF Stocked
    <3> DEFINE n == NextRow
    <3>1. call[c].pc = "assignInsert" /\ call[c].s \in StockItems /\ call[c].e \in Employees
          /\ call[c].tag \in 1..NextRow
      BY <1>t, <1>3 DEF AssignInsert, At, Argued, AssignLabels, WellTyped, Knows
    <3>2. /\ n \in Rows /\ asg[n].st = "none" /\ asg'[n].st = "live" /\ asg'[n].item = call[c].s
          /\ \A i \in Rows : i # n => asg'[i] = asg[i]
      <4>1. /\ n \in Rows /\ asg[n].st = "none"
            /\ asg'[n] = [st |-> "live", item |-> call[c].s, user |-> call[c].e, mail |-> call[c].e, tag |-> call[c].tag]
            /\ \A i \in Rows : i # n => asg'[i] = asg[i]
        BY <2>2, <3>1, InsertTyped
      <4> HIDE DEF n
      <4>2. QED
        BY <4>1
    <3> HIDE DEF n
    <3>3. call'[c].pc = "assignDecrement" /\ call'[c].s = call[c].s /\ \A d \in Calls : d # c => call'[d] = call[d]
      BY <1>t, <2>2 DEF Goto, CallRecord
    <3>4. n \notin InUse(u) /\ (n \in InUse(u)' <=> u = call[c].s)
      BY <3>2 DEF InUse, Live
    <3>5. c \notin Returning(u) /\ c \notin Returning(u)' /\ c \notin Taking(u) /\ (c \in Taking(u)' <=> u = call[c].s)
      BY <3>1, <3>3 DEF Returning, Taking
    <3>6. /\ Cardinality(InUse(u)) \in Nat /\ Cardinality(Taking(u)) \in Nat /\ Cardinality(Returning(u)) \in Nat
          /\ avail[u] \in Int /\ Quantity[u] \in Nat
          /\ Cardinality(InUse(u)') = Cardinality(InUse(u)) + (IF u = call[c].s THEN 1 ELSE 0)
          /\ Cardinality(Taking(u)') = Cardinality(Taking(u)) + (IF u = call[c].s THEN 1 ELSE 0)
          /\ Cardinality(Returning(u)') = Cardinality(Returning(u))
      BY <3>2, <3>3, <3>4, <3>5, CountsMove
    <3>7. StockedItem(u) /\ avail' = avail
      BY <2>2 DEF Stocked
    <3>8. QED
      BY <3>6, <3>7 DEF StockedItem
  <2>3. QED
    BY <1>3, <2>1, <2>2 DEF AssignInsert
<1>4. CASE AssignDecrement(c)
  <2> SUFFICES ASSUME NEW u \in StockItems PROVE StockedItem(u)'
    BY DEF Stocked
  <2>1. call[c].pc = "assignDecrement" /\ call[c].s \in StockItems /\ UNCHANGED asg
    BY <1>t, <1>4 DEF AssignDecrement, At, Argued, AssignLabels
  <2>2. call'[c].pc = "idle" /\ \A d \in Calls : d # c => call'[d] = call[d]
    BY <1>t, <1>4 DEF AssignDecrement, Return, NoCall
  <2>3. avail'[u] = IF u = call[c].s THEN avail[u] - 1 ELSE avail[u]
    BY <1>4, <2>1, Types DEF AssignDecrement
  <2>4. c \notin Returning(u) /\ c \notin Returning(u)' /\ (c \in Taking(u) <=> u = call[c].s) /\ c \notin Taking(u)'
    BY <2>1, <2>2 DEF Returning, Taking
  <2>5. 0 \notin InUse(u) /\ 0 \notin InUse(u)'
    BY DEF InUse, Live, Rows
  <2>6. /\ Cardinality(InUse(u)) \in Nat /\ Cardinality(Taking(u)) \in Nat /\ Cardinality(Returning(u)) \in Nat
        /\ avail[u] \in Int /\ Quantity[u] \in Nat
        /\ Cardinality(InUse(u)') = Cardinality(InUse(u))
        /\ Cardinality(Taking(u)') = Cardinality(Taking(u)) - (IF u = call[c].s THEN 1 ELSE 0)
        /\ Cardinality(Returning(u)') = Cardinality(Returning(u))
    BY <2>1, <2>2, <2>4, <2>5, CountsMove
  <2>7. StockedItem(u)
    BY DEF Stocked
  <2>8. QED
    BY <2>3, <2>6, <2>7 DEF StockedItem
<1>5. QED
  BY <1>1, <1>2, <1>3, <1>4 DEF Assign

LEMMA ReleaseStocked ==
  ASSUME WellTyped, WellTyped', Lasting, Stocked, NEW c \in Calls, Release(c)
  PROVE  Stocked'
<1>t. call \in [Calls -> CallRecord] /\ call[c] \in CallRecord /\ Argued(call[c]) /\ Knows(call[c])
  BY Types DEF WellTyped
<1>1. CASE ListByUser(c) \/ ListByMail(c) \/ ReturnSelect(c) \/ ReturnDone(c)
  <2>1. ASSUME NEW T, NEW l \in {"listByMail", "returnSelect"}, call' = [call EXCEPT ![c].todo = T, ![c].pc = l]
        PROVE  call'[c].pc = l /\ \A d \in Calls : d # c => call'[d] = call[d]
    BY <1>t, <2>1 DEF CallRecord
  <2>2. call[c].pc \notin Carrying /\ UNCHANGED <<avail, asg>>
    BY <1>1 DEF ListByUser, ListByMail, ReturnSelect, ReturnDone, At, Carrying, assetVars
  <2>3. CASE ListByUser(c)
    <3>1. Empty(c)
      BY <2>1, <2>2, <2>3 DEF ListByUser, Empty, Carrying
    <3>2. QED
      BY <2>2, <3>1, EmptyStocked
  <2>4. CASE ListByMail(c)
    <3>1. call' = [call EXCEPT ![c].todo = call[c].todo \cup {i \in Live : asg[i].mail = call[c].e}, ![c].pc = "returnSelect"]
      BY <1>t, <2>4 DEF ListByMail
    <3>2. Empty(c)
      BY <2>1, <2>2, <3>1 DEF Empty, Carrying
    <3>3. QED
      BY <2>2, <3>2, EmptyStocked
  <2>5. CASE ReturnSelect(c)
    <3>1. PICK i \in call[c].todo :
            call' = [call EXCEPT ![c].todo = @ \ {i},
                                 ![c].i = IF i \in Live THEN i ELSE 0,
                                 ![c].pc = IF i \in Live THEN "returnDelete" ELSE @]
      BY <2>5 DEF ReturnSelect
    <3>2. call'[c].pc \in {"returnDelete", call[c].pc} /\ \A d \in Calls : d # c => call'[d] = call[d]
      BY <1>t, <3>1 DEF CallRecord
    <3>3. Empty(c)
      BY <2>2, <3>2 DEF Empty, Carrying
    <3>4. QED
      BY <2>2, <3>3, EmptyStocked
  <2>6. CASE ReturnDone(c)
    BY <2>2, <2>6, ReturnMoves, EmptyStocked DEF ReturnDone
  <2>7. QED
    BY <1>1, <2>3, <2>4, <2>5, <2>6
<1>2. CASE ReturnDelete(c)
  <2> SUFFICES ASSUME NEW u \in StockItems PROVE StockedItem(u)'
    BY DEF Stocked
  <2> DEFINE k == call[c].i
  <2>1. call[c].pc = "returnDelete" /\ k \in Rows /\ asg[k].st # "none" /\ avail' = avail
    BY <1>t, <1>2 DEF ReturnDelete, At, Argued, Knows
  <2>2. asg' = [asg EXCEPT ![k].st = "gone"] /\ asg[k] \in Row
    BY <1>2, <2>1, Types DEF ReturnDelete
  <2>3. call'[c].pc = "returnIncrement" /\ call'[c].i = k /\ \A d \in Calls : d # c => call'[d] = call[d]
    BY <1>t, <1>2 DEF ReturnDelete, Goto, CallRecord
  <2> HIDE DEF k
  <2>4. asg'[k].st = "gone" /\ asg'[k].item = asg[k].item /\ \A j \in Rows : j # k => asg'[j] = asg[j]
    BY <2>1, <2>2, Types DEF Row
  <2>5. (k \in InUse(u) => asg[k].item = u) /\ k \notin InUse(u)'
    BY <2>4 DEF InUse, Live
  <2>6. /\ c \notin Returning(u) /\ (c \in Returning(u)' <=> asg[k].item = u)
        /\ c \notin Taking(u) /\ c \notin Taking(u)'
    BY <2>1, <2>3, <2>4 DEF Returning, Taking
  <2>7. /\ Cardinality(InUse(u)) \in Nat /\ Cardinality(Taking(u)) \in Nat /\ Cardinality(Returning(u)) \in Nat
        /\ avail[u] \in Int /\ Quantity[u] \in Nat
        /\ Cardinality(InUse(u)') = Cardinality(InUse(u)) - (IF k \in InUse(u) THEN 1 ELSE 0)
        /\ Cardinality(Taking(u)') = Cardinality(Taking(u))
        /\ Cardinality(Returning(u)') = Cardinality(Returning(u)) + (IF asg[k].item = u THEN 1 ELSE 0)
    BY <2>3, <2>4, <2>5, <2>6, CountsMove
  <2>8. StockedItem(u)
    BY DEF Stocked
  <2>9. QED
    BY <2>1, <2>5, <2>7, <2>8 DEF StockedItem
<1>3. CASE ReturnIncrement(c)
  <2> SUFFICES ASSUME NEW u \in StockItems PROVE StockedItem(u)'
    BY DEF Stocked
  <2> DEFINE x == asg[call[c].i].item
  <2>1. call[c].pc = "returnIncrement" /\ x \in StockItems /\ UNCHANGED asg
    BY <1>t, <1>3 DEF ReturnIncrement, At, Argued, Knows, WellTyped, RowsInOrder
  <2>2. call'[c].pc = "returnSelect" /\ \A d \in Calls : d # c => call'[d] = call[d]
    BY <1>t, <1>3 DEF ReturnIncrement, Goto, CallRecord
  <2>3. avail' = IF x = NoItem THEN avail ELSE [avail EXCEPT ![x] = @ + 1]
    BY <1>3 DEF ReturnIncrement
  <2>4. c \in Returning(u) <=> x = u
    BY <2>1 DEF Returning
  <2> HIDE DEF x
  <2>5. avail'[u] = IF u = x THEN avail[u] + 1 ELSE avail[u]
    BY <2>1, <2>3, Types, CustodyAssumption
  <2>6. c \notin Returning(u)' /\ c \notin Taking(u) /\ c \notin Taking(u)'
    BY <2>1, <2>2 DEF Returning, Taking
  <2>7. 0 \notin InUse(u) /\ 0 \notin InUse(u)'
    BY DEF InUse, Live, Rows
  <2>8. /\ Cardinality(InUse(u)) \in Nat /\ Cardinality(Taking(u)) \in Nat /\ Cardinality(Returning(u)) \in Nat
        /\ avail[u] \in Int /\ Quantity[u] \in Nat
        /\ Cardinality(InUse(u)') = Cardinality(InUse(u))
        /\ Cardinality(Taking(u)') = Cardinality(Taking(u))
        /\ Cardinality(Returning(u)') = Cardinality(Returning(u)) - (IF u = x THEN 1 ELSE 0)
    BY <2>1, <2>2, <2>4, <2>6, <2>7, CountsMove
  <2>9. StockedItem(u)
    BY DEF Stocked
  <2>10. QED
    BY <2>5, <2>8, <2>9 DEF StockedItem
<1>4. QED
  BY <1>1, <1>2, <1>3 DEF Release

LEMMA StepStocked ==
  ASSUME WellTyped, Stocked, [Next]_vars
  PROVE  Stocked'
<1>1. WellTyped' /\ Lasting
  BY StepTyped
<1>2. ASSUME NEW c \in Calls, AssetStep(c)
      PROVE  Stocked'
  BY <1>1, <1>2, StartAssetsStocked, AssignStocked, ReleaseStocked DEF AssetStep
<1>3. ASSUME NEW c \in Calls, OffboardingStep(c)
      PROVE  Stocked'
  BY <1>1, <1>3, OffboardingMoves, EmptyStocked DEF assetVars
<1>4. CASE UNCHANGED <<assetVars, call>>
  BY <1>4 DEF Stocked, StockedItem, InUse, Returning, Taking, Live, assetVars
<1>5. ASSUME NEW r \in Records, DayPasses(r)
      PROVE  Stocked'
  BY <1>4, <1>5 DEF DayPasses
<1>6. CASE UNCHANGED vars
  BY <1>4, <1>6 DEF vars, assetVars
<1>7. QED
  BY <1>2, <1>3, <1>5, <1>6 DEF Next

LEMMA InitStocked == Init => Stocked
<1> SUFFICES ASSUME Init, NEW s \in StockItems PROVE StockedItem(s)
  BY DEF Stocked
<1>1. avail = Quantity /\ \A c \in Calls : call[c].pc = "idle"
  BY DEF Init, AssetInit, NoCall
<1>2. Taking(s) = {} /\ Returning(s) = {}
  BY <1>1 DEF Taking, Returning
<1>3. Cardinality(InUse(s)) \in Nat /\ Quantity[s] \in Nat
  BY InitTyped, Countable, FS_CardinalityType
<1>4. Cardinality(Taking(s)) = 0 /\ Cardinality(Returning(s)) = 0
  BY <1>2, FS_EmptySet
<1>5. QED
  BY <1>1, <1>3, <1>4 DEF StockedItem

\* No unit is lost: once the calls are over, the shelf and the employees
\* hold at least as many units as there ever were, however assignments,
\* returns and refused INSERTs raced.
THEOREM NoUnitLost == Spec => []UnitsNotLost
<1>1. Init => WellTyped /\ Stocked
  BY InitTyped, InitStocked
<1>2. WellTyped /\ Stocked /\ [Next]_vars => WellTyped' /\ Stocked'
  BY StepTyped, StepStocked
<1>3. WellTyped /\ Stocked => UnitsNotLost
  <2> SUFFICES ASSUME WellTyped, Stocked, \A c \in Calls : call[c].pc = "idle", NEW s \in StockItems
               PROVE  avail[s] >= Quantity[s] - Held(s)
    BY DEF UnitsNotLost, At
  <2>1. Taking(s) = {} /\ Returning(s) = {}
    BY DEF Taking, Returning
  <2>2. Cardinality(Taking(s)) = 0 /\ Cardinality(Returning(s)) = 0
    BY <2>1, FS_EmptySet
  <2>3. Cardinality(InUse(s)) \in Nat /\ Quantity[s] \in Nat /\ avail[s] \in Int
    BY Countable, FS_CardinalityType
  <2>4. StockedItem(s) /\ Held(s) = Cardinality(InUse(s))
    BY DEF Stocked, Held, InUse
  <2>5. QED
    BY <2>2, <2>3, <2>4 DEF StockedItem
<1>4. QED
  BY <1>1, <1>2, <1>3, PTL DEF Spec
-----------------------------------------------------------------------------
(* What a completion collects is returned.                                 *)

\* Call c is going to return row i, or is about to delete it.
Collects(c, i) ==
  \/ call[c].pc \in Collecting /\ i \in call[c].todo
  \/ call[c].pc = "returnDelete" /\ call[c].i = i

\* A completed record whose completion has not listed the employee's rows
\* yet, or whose completion has rows it still collects; whatever the employee
\* holds beside these came later.
Unlisted == {"offboardEmployee", "auditComplete", "listByUser"}
Collected(r) ==
  orec[r].st = "completed" =>
    \/ \E c \in Calls : call[c].r = r /\ call[c].pc \in Unlisted
    \/ /\ orec[r].e \in listed
       /\ \A i \in HeldBy(orec[r].e) \ late : \E c \in Calls : call[c].r = r /\ Collects(c, i)

\* A row whose return task is completed is being returned, or it is gone.
Returned ==
  \A r \in Records, i \in Rows :
    tsk[r][i] = "completed" /\ i \in Live => \E c \in Calls : call[c].r = r /\ Collects(c, i)

\* Rows of c that stay live are collected on by it, for the same record.
CollectsOn(c) ==
  /\ \A d \in Calls : d # c => call'[d] = call[d]
  /\ \A i \in Rows : asg'[i].st = "live" /\ Collects(c, i) => Collects(c, i)' /\ call'[c].r = call[c].r

LEMMA ReleaseCollects ==
  ASSUME WellTyped, NEW c \in Calls, Release(c)
  PROVE  CollectsOn(c)
<1>t. call \in [Calls -> CallRecord] /\ call[c] \in CallRecord
  BY Types
<1> SUFFICES ASSUME NEW i \in Rows, asg'[i].st = "live", Collects(c, i)
             PROVE  /\ \A d \in Calls : d # c => call'[d] = call[d]
                    /\ Collects(c, i)' /\ call'[c].r = call[c].r
  <2>1. \A d \in Calls : d # c => call'[d] = call[d]
    BY <1>t DEF Release, ListByUser, ListByMail, ReturnSelect, ReturnDelete, ReturnIncrement, ReturnDone, Goto, Return
  <2>2. QED
    BY <2>1 DEF CollectsOn
<1>d. \A d \in Calls : d # c => call'[d] = call[d]
  BY <1>t DEF Release, ListByUser, ListByMail, ReturnSelect, ReturnDelete, ReturnIncrement, ReturnDone, Goto, Return
<1>1. CASE ListByUser(c)
  BY <1>1 DEF ListByUser, At, Collects, Collecting
<1>2. CASE ListByMail(c)
  <2>1. call[c].pc = "listByMail"
    BY <1>2 DEF ListByMail, At
  <2>2. call'[c].pc = "returnSelect" /\ call[c].todo \subseteq call'[c].todo /\ call'[c].r = call[c].r
    BY <1>t, <1>2 DEF ListByMail, CallRecord
  <2>3. QED
    BY <1>d, <2>1, <2>2 DEF Collects, Collecting
<1>3. CASE ReturnSelect(c)
  <2>1. PICK j \in call[c].todo :
          call' = [call EXCEPT ![c].todo = @ \ {j},
                               ![c].i = IF j \in Live THEN j ELSE 0,
                               ![c].pc = IF j \in Live THEN "returnDelete" ELSE @]
    BY <1>3 DEF ReturnSelect
  <2>2. call[c].pc = "returnSelect" /\ i \in Live /\ i \in call[c].todo
    BY <1>3 DEF ReturnSelect, At, Live, assetVars, Collects
  <2>3. /\ call'[c].todo = call[c].todo \ {j} /\ call'[c].i = IF j \in Live THEN j ELSE 0
        /\ call'[c].pc = IF j \in Live THEN "returnDelete" ELSE "returnSelect"
        /\ call'[c].r = call[c].r
    BY <1>t, <2>1, <2>2 DEF CallRecord
  <2>4. QED
    BY <1>d, <2>2, <2>3 DEF Collects, Collecting
<1>4. CASE ReturnDelete(c)
  <2>1. call[c].pc = "returnDelete" /\ asg' = [asg EXCEPT ![call[c].i].st = "gone"]
    BY <1>4 DEF ReturnDelete, At
  <2>2. i # call[c].i
    BY <2>1, Types DEF Row
  <2>3. i \in call[c].todo
    BY <2>1, <2>2 DEF Collects
  <2>4. call'[c].pc = "returnIncrement" /\ call'[c].todo = call[c].todo /\ call'[c].r = call[c].r
    BY <1>t, <1>4 DEF ReturnDelete, Goto, CallRecord
  <2>5. QED
    BY <1>d, <2>3, <2>4 DEF Collects, Collecting
<1>5. CASE ReturnIncrement(c)
  <2>1. call[c].pc = "returnIncrement"
    BY <1>5 DEF ReturnIncrement, At
  <2>2. call'[c].pc = "returnSelect" /\ call'[c].todo = call[c].todo /\ call'[c].r = call[c].r
    BY <1>t, <1>5 DEF ReturnIncrement, Goto, CallRecord
  <2>3. QED
    BY <1>d, <2>1, <2>2 DEF Collects, Collecting
<1>6. CASE ReturnDone(c)
  BY <1>6 DEF ReturnDone, At, Collects
<1>7. QED
  BY <1>1, <1>2, <1>3, <1>4, <1>5, <1>6 DEF Release

\* So does every other step, whose call collects nothing yet.
LEMMA StepCollects ==
  ASSUME WellTyped, [Next]_vars
  PROVE  (\E c \in Calls : CollectsOn(c)) \/ call' = call
<1>t. call \in [Calls -> CallRecord]
  BY Types
<1>1. ASSUME NEW c \in Calls, StartAssets(c)
      PROVE  CollectsOn(c) \/ call' = call
  BY <1>t, <1>1
     DEF StartAssets, AssignStart, LaptopStart, CreateSystem, UpdateSystem, DeleteSystem, Begin, At,
         CollectsOn, Collects, Collecting
<1>2. ASSUME NEW c \in Calls, Assign(c)
      PROVE  CollectsOn(c)
  BY <1>t, <1>2
     DEF Assign, AssignStock, AssignTag, AssignInsert, AssignDecrement, Goto, Return, At,
         CollectsOn, Collects, Collecting
<1>3. ASSUME NEW c \in Calls, OffboardingStep(c)
      PROVE  CollectsOn(c)
  <2>1. Empty(c) /\ (call[c].pc \in Collecting => ListLinked(c))
    BY <1>3, OffboardingMoves
  <2>2. \A i \in Rows : ~Collects(c, i)
    BY <2>1 DEF Collects, Collecting, ListLinked, At
  <2>3. QED
    BY <2>1, <2>2 DEF CollectsOn, Empty
<1>4. QED
  BY <1>1, <1>2, <1>3, ReleaseCollects DEF Next, AssetStep, DayPasses, vars
\* A row that is collected for r goes on being collected for it while it is live.
LEMMA GoesOn ==
  ASSUME WellTyped, [Next]_vars, NEW i \in Rows, asg'[i].st = "live", NEW r,
         \E c \in Calls : call[c].r = r /\ Collects(c, i)
  PROVE  \E c \in Calls : call'[c].r = r /\ Collects(c, i)'
<1>1. PICK c \in Calls : call[c].r = r /\ Collects(c, i)
  OBVIOUS
<1>2. CASE call' = call
  BY <1>1, <1>2 DEF Collects
<1>3. ASSUME NEW d \in Calls, CollectsOn(d)
      PROVE  call'[c].r = r /\ Collects(c, i)'
  <2>1. CASE c = d
    BY <1>1, <1>3, <2>1 DEF CollectsOn
  <2>2. CASE c # d
    BY <1>1, <1>3, <2>2 DEF CollectsOn, Collects
  <2>3. QED
    BY <2>1, <2>2
<1>4. QED
  BY <1>1, <1>2, <1>3, StepCollects

\* What a step does to the rows: nothing, or one that is inserted, given to
\* another employee, or deleted; an employee listed before gets no row that
\* is not marked as late.
RowsKeptApart ==
  /\ \A i \in Rows : asg'[i].st = "live" => asg[i].st \in {"live", "none"}
  /\ \A e \in listed : HeldBy(e)' \ late' \subseteq HeldBy(e) \ late
  /\ listed \subseteq listed'

\* Rows that stay where they are, or whose holder stays the same.
LEMMA HoldersQuiet ==
  ASSUME WellTyped, \A i \in Rows : asg'[i].st = "live" => asg[i].st = "live" /\ asg'[i].user = asg[i].user,
         UNCHANGED late, listed \subseteq listed'
  PROVE  RowsKeptApart
BY DEF RowsKeptApart, HeldBy, Live

LEMMA InsertHandsOver ==
  ASSUME WellTyped, NEW s \in StockItems, NEW e \in Employees, NEW tag \in 1..NextRow, Insert(s, e, tag),
         UNCHANGED listed
  PROVE  RowsKeptApart
<1> DEFINE n == NextRow
<1>1. /\ n \in Rows /\ asg[n].st = "none"
      /\ asg'[n] = [st |-> "live", item |-> s, user |-> e, mail |-> e, tag |-> tag]
      /\ \A i \in Rows : i # n => asg'[i] = asg[i]
  BY InsertTyped
<1>2. late' = IF e \in listed THEN late \cup {n} ELSE late \ {n}
  BY DEF Insert, HandOver
<1>3. asg'[n].user = e
  BY <1>1
<1> HIDE DEF n
<1>4. asg \in [Rows -> Row]
  BY Types
<1>5. \A i \in Rows : asg'[i].st = "live" => asg[i].st \in {"live", "none"}
  BY <1>1
<1>6. ASSUME NEW f \in listed, NEW i \in HeldBy(f)', i \notin late'
      PROVE  i \in HeldBy(f) /\ i \notin late
  <2>1. i # n
    BY <1>2, <1>3, <1>6 DEF HeldBy
  <2>2. QED
    BY <1>1, <1>2, <1>6, <2>1 DEF HeldBy, Live
<1>7. QED
  BY <1>5, <1>6 DEF RowsKeptApart

LEMMA UpdateHandsOver ==
  ASSUME WellTyped, NEW c \in Calls, NEW i \in Rows, NEW e \in Employees, NEW mail \in BOOLEAN,
         UpdateSystem(c, i, e, mail)
  PROVE  RowsKeptApart
<1>1. asg' = [asg EXCEPT ![i].user = e, ![i].mail = IF mail THEN e ELSE @] /\ i \in Live /\ UNCHANGED listed
  BY DEF UpdateSystem
<1>2. late' = IF e \in listed THEN late \cup {i} ELSE late \ {i}
  BY DEF UpdateSystem, HandOver
<1>3. asg'[i].st = "live" /\ asg'[i].user = e /\ (\A j \in Rows : j # i => asg'[j] = asg[j]) /\ asg[i].st = "live"
  BY <1>1, Types DEF Row, Live
<1>4. \A j \in Rows : asg'[j].st = "live" => asg[j].st = "live"
  BY <1>3
<1>5. ASSUME NEW f \in listed, NEW j \in HeldBy(f)', j \notin late'
      PROVE  j \in HeldBy(f) /\ j \notin late
  <2>1. j # i
    BY <1>2, <1>3, <1>5 DEF HeldBy
  <2>2. QED
    BY <1>2, <1>3, <1>5, <2>1 DEF HeldBy, Live
<1>6. QED
  BY <1>1, <1>4, <1>5 DEF RowsKeptApart

LEMMA StepKeepsApart ==
  ASSUME WellTyped, [Next]_vars
  PROVE  RowsKeptApart
<1>1. CASE UNCHANGED <<asg, late, listed>>
  BY <1>1, HoldersQuiet
<1>2. ASSUME NEW c \in Calls, StartAssets(c)
      PROVE  RowsKeptApart
  <2>1. ASSUME NEW s \in StockItems, NEW e \in Employees, AssignStart(c, s, e) \/ LaptopStart(c, s, e)
        PROVE  RowsKeptApart
    BY <1>1, <2>1 DEF AssignStart, LaptopStart, assetVars
  <2>2. ASSUME NEW s \in StockItems, NEW e \in Employees, CreateSystem(c, s, e)
        PROVE  RowsKeptApart
    BY <2>2, NextTagBounded, InsertHandsOver DEF CreateSystem
  <2>3. ASSUME NEW i \in Rows, DeleteSystem(c, i)
        PROVE  RowsKeptApart
    BY <1>1, <2>3 DEF DeleteSystem, assetVars
  <2>4. QED
    BY <1>2, <2>1, <2>2, <2>3, UpdateHandsOver DEF StartAssets
<1>3. ASSUME NEW c \in Calls, Assign(c)
      PROVE  RowsKeptApart
  <2>1. CASE AssignInsert(c)
    <3>1. CASE UNCHANGED assetVars
      BY <1>1, <3>1 DEF assetVars
    <3>2. CASE Insert(call[c].s, call[c].e, call[c].tag) /\ UNCHANGED <<avail, listed>>
      <4>1. call[c].s \in StockItems /\ call[c].e \in Employees /\ call[c].tag \in 1..NextRow
        BY <2>1 DEF AssignInsert, At, WellTyped, Argued, Knows, AssignLabels
      <4>2. QED
        BY <3>2, <4>1, InsertHandsOver
    <3>3. QED
      BY <2>1, <3>1, <3>2 DEF AssignInsert
  <2>2. CASE AssignStock(c) \/ AssignTag(c) \/ AssignDecrement(c)
    BY <1>1, <2>2 DEF AssignStock, AssignTag, AssignDecrement, assetVars
  <2>3. QED
    BY <1>3, <2>1, <2>2 DEF Assign
<1>4. ASSUME NEW c \in Calls, Release(c)
      PROVE  RowsKeptApart
  <2>1. CASE ListByUser(c)
    BY <2>1, HoldersQuiet DEF ListByUser
  <2>2. CASE ReturnDelete(c)
    <3>1. asg' = [asg EXCEPT ![call[c].i].st = "gone"] /\ UNCHANGED <<late, listed>>
      BY <2>2 DEF ReturnDelete
    <3>2. \A i \in Rows : asg'[i].st = "live" => asg[i].st = "live" /\ asg'[i].user = asg[i].user
      BY <3>1, Types DEF Row
    <3>3. QED
      BY <3>1, <3>2, HoldersQuiet
  <2>3. CASE ListByMail(c) \/ ReturnSelect(c) \/ ReturnIncrement(c) \/ ReturnDone(c)
    BY <1>1, <2>3 DEF ListByMail, ReturnSelect, ReturnIncrement, ReturnDone, assetVars
  <2>4. QED
    BY <1>4, <2>1, <2>2, <2>3 DEF Release
<1>5. ASSUME NEW c \in Calls, OffboardingStep(c)
      PROVE  RowsKeptApart
  BY <1>1, <1>5, OffboardingMoves DEF assetVars
<1>6. QED
  BY <1>1, <1>2, <1>3, <1>4, <1>5 DEF Next, AssetStep, DayPasses, assetVars, vars
\* A record is completed by nothing but a completion of it.
LEMMA CompletedBy ==
  ASSUME WellTyped, [Next]_vars, NEW r \in Records, orec'[r].st = "completed", orec[r].st # "completed"
  PROVE  \E c \in Calls : call[c].r = r /\ CompleteRecord(c)
<1>1. orec'[r] # orec[r]
  OBVIOUS
<1>2. ASSUME NEW q \in Records, DayPasses(q)
      PROVE  FALSE
  BY <1>2, Types DEF DayPasses, RecordType
<1>3. ASSUME NEW c \in Calls, OffboardingStep(c)
      PROVE  call[c].r = r /\ CompleteRecord(c)
  <2>1. ASSUME UNCHANGED orec PROVE FALSE
    BY <1>1, <2>1
  <2>2. CASE StartOffboarding(c)
    BY <2>1, <2>2 DEF StartOffboarding, InitiateStart, CompleteStart, CancelStart, DeleteStart, ExitDateStart,
                      TaskStart, offVars
  <2>3. CASE CreateRecord(c)
    <3>1. orec'[r].st = "active" \/ orec'[r] = orec[r]
      BY <2>3, Types DEF CreateRecord
    <3>2. QED
      BY <3>1
  <2>4. CASE Initiate(c)
    BY <2>1, <2>3, <2>4 DEF Initiate, CheckActive, InsertStandardTask, ReadAssets, InsertAssetTask, offVars
  <2>5. CASE CompleteRecord(c)
    BY <1>1, <2>5, Types DEF CompleteRecord, SetStatus
  <2>6. CASE Complete(c)
    BY <2>1, <2>5, <2>6 DEF Complete, ReadTasks, OffboardEmployee, AuditComplete, ListLinked, offVars
  <2>7. CASE CancelRecord(c) \/ DeleteRecord(c)
    <3>1. orec'[r].st \in {"cancelled", "deleted"} \/ orec'[r] = orec[r]
      BY <2>7, Types DEF CancelRecord, DeleteRecord, SetStatus, RecordType
    <3>2. QED
      BY <3>1
  <2>8. CASE SetExitDate(c)
    <3>1. orec'[r].st = orec[r].st
      BY <2>8, Types DEF SetExitDate, RecordType
    <3>2. QED
      BY <3>1
  <2>9. CASE SetTask(c) \/ DeleteTasks(c)
    BY <2>1, <2>9 DEF SetTask, DeleteTasks
  <2>10. QED
    BY <1>3, <2>2, <2>4, <2>6, <2>7, <2>8, <2>9 DEF OffboardingStep
<1>4. ~(UNCHANGED orec)
  BY <1>1
<1>5. QED
  BY <1>2, <1>3, <1>4 DEF Next, vars, offVars

\* A completion that is about to list the rows goes on to list them.
LEMMA UnlistedMoves ==
  ASSUME WellTyped, [Next]_vars, NEW c \in Calls, call[c].pc \in Unlisted, orec[call[c].r].st = "completed"
  PROVE  \/ call'[c].r = call[c].r /\ call'[c].pc \in Unlisted
         \/ ListByUser(c)
<1>t. call \in [Calls -> CallRecord] /\ call[c] \in CallRecord
  BY Types
<1>1. CASE call' = call
  BY <1>1
<1>2. ASSUME NEW d \in Calls, d # c, CollectsOn(d)
      PROVE  call'[c] = call[c]
  BY <1>2 DEF CollectsOn
<1>3. ASSUME NEW d \in Calls, d # c, AssetStep(d) \/ OffboardingStep(d)
      PROVE  call'[c] = call[c]
  <2>1. ASSUME StartAssets(d) PROVE call'[c] = call[c]
    BY <1>t, <1>3, <2>1
       DEF StartAssets, AssignStart, LaptopStart, CreateSystem, UpdateSystem, DeleteSystem, Begin
  <2>2. ASSUME Assign(d) PROVE call'[c] = call[c]
    BY <1>t, <1>3, <2>2 DEF Assign, AssignStock, AssignTag, AssignInsert, AssignDecrement, Goto, Return
  <2>3. ASSUME Release(d) PROVE call'[c] = call[c]
    BY <1>3, <2>3, <1>2, ReleaseCollects
  <2>4. ASSUME OffboardingStep(d) PROVE call'[c] = call[c]
    BY <1>3, <2>4, OffboardingMoves DEF Empty
  <2>5. QED
    BY <1>3, <2>1, <2>2, <2>3, <2>4 DEF AssetStep
<1>4. CASE AssetStep(c)
  <2>1. ~Assign(c)
    BY DEF Assign, AssignStock, AssignTag, AssignInsert, AssignDecrement, At, Unlisted
  <2>2. Release(c) => ListByUser(c)
    BY DEF Release, ListByMail, ReturnSelect, ReturnDelete, ReturnIncrement, ReturnDone, At, Unlisted
  <2>3. ~StartAssets(c)
    BY DEF StartAssets, AssignStart, LaptopStart, CreateSystem, UpdateSystem, DeleteSystem, Begin, At, Unlisted
  <2>4. QED
    BY <1>4, <2>1, <2>2, <2>3 DEF AssetStep
<1>5. CASE OffboardingStep(c)
  <2>1. ~StartOffboarding(c)
    BY DEF StartOffboarding, InitiateStart, CompleteStart, CancelStart, DeleteStart, ExitDateStart, TaskStart,
           Begin, At, Unlisted
  <2>2. ~Initiate(c) /\ ~SetTask(c) /\ ~CancelRecord(c) /\ ~SetExitDate(c) /\ ~DeleteTasks(c) /\ ~DeleteRecord(c)
    BY DEF Initiate, CheckActive, CreateRecord, InsertStandardTask, ReadAssets, InsertAssetTask, SetTask,
           CancelRecord, SetExitDate, DeleteTasks, DeleteRecord, At, Unlisted
  <2>3. OffboardEmployee(c) \/ AuditComplete(c)
    BY <1>5, <2>1, <2>2 DEF OffboardingStep, Complete, ReadTasks, CompleteRecord, ListLinked, At, Unlisted
  <2>4. CASE OffboardEmployee(c)
    BY <1>t, <2>4 DEF OffboardEmployee, Goto, CallRecord, Unlisted
  <2>5. CASE AuditComplete(c)
    <3>1. call' = [call EXCEPT ![c].pc = "listByUser", ![c].then = "linked"]
      BY <2>5 DEF AuditComplete, InTable, Closed
    <3>2. QED
      BY <1>t, <3>1 DEF CallRecord, Unlisted
  <2>6. QED
    BY <2>3, <2>4, <2>5
<1>6. QED
  BY <1>1, <1>3, <1>4, <1>5 DEF Next, DayPasses, vars

LEMMA StepCollected ==
  ASSUME WellTyped, [Next]_vars, NEW r \in Records, Collected(r)
  PROVE  Collected(r)'
<1> SUFFICES ASSUME orec'[r].st = "completed"
             PROVE  \/ \E c \in Calls : call'[c].r = r /\ call'[c].pc \in Unlisted
                    \/ /\ orec'[r].e \in listed'
                       /\ \A i \in HeldBy(orec[r].e)' \ late' : \E c \in Calls : call'[c].r = r /\ Collects(c, i)'
  BY DEF Collected
<1> DEFINE e == orec[r].e
<1>1. CASE orec[r].st # "completed"
  <2>1. PICK c \in Calls : call[c].r = r /\ CompleteRecord(c)
    BY <1>1, CompletedBy
  <2>2. call'[c].r = r /\ call'[c].pc \in Unlisted
    BY <2>1, Types DEF CompleteRecord, Goto, CallRecord, Unlisted
  <2>3. QED
    BY <2>2
<1>2. CASE orec[r].st = "completed"
  <2>1. orec'[r].e = e
    BY <1>2, StepTyped DEF Lasting
  <2>2. CASE \E c \in Calls : call[c].r = r /\ call[c].pc \in Unlisted
    <3>1. PICK c \in Calls : call[c].r = r /\ call[c].pc \in Unlisted
      BY <2>2
    <3>2. CASE ListByUser(c)
      <4>1. e = call[c].e
        BY <3>1, <3>2 DEF WellTyped, Knows, CompletionLabels, ListByUser, At
      <4>2. /\ UNCHANGED <<asg, late>> /\ e \in listed'
            /\ call'[c].todo = HeldBy(e) /\ call'[c].pc = "listByMail" /\ call'[c].r = r
        BY <3>1, <3>2, <4>1, Types DEF ListByUser, CallRecord
      <4>3. HeldBy(e)' = HeldBy(e)
        BY <2>1, <4>2 DEF HeldBy, Live
      <4>4. HeldBy(orec[r].e)' = HeldBy(e)
        BY <2>1, <4>2 DEF HeldBy, Live
      <4>5. \A i \in HeldBy(e) : call'[c].r = r /\ Collects(c, i)'
        BY <4>2 DEF Collects, Collecting
      <4>6. QED
        BY <2>1, <4>2, <4>4, <4>5
    <3>3. QED
      BY <1>2, <3>1, <3>2, UnlistedMoves
  <2>3. CASE e \in listed /\ \A i \in HeldBy(e) \ late : \E c \in Calls : call[c].r = r /\ Collects(c, i)
    <3>1. RowsKeptApart
      BY StepKeepsApart
    <3>2. \A f \in listed : HeldBy(f)' \ late' \subseteq HeldBy(f) \ late
      BY <3>1 DEF RowsKeptApart
    <3>3. ASSUME NEW i \in HeldBy(orec[r].e)' \ late'
          PROVE  \E c \in Calls : call'[c].r = r /\ Collects(c, i)'
      <4>1. i \in Rows /\ asg'[i].st = "live" /\ asg'[i].user = e /\ i \notin late'
        BY <2>1, <3>3 DEF HeldBy, Live
      <4>2. i \in HeldBy(e) \ late
        BY <2>3, <3>2, <4>1 DEF HeldBy, Live
      <4>3. QED
        BY <2>3, <4>1, <4>2, GoesOn
    <3>4. QED
      BY <2>1, <2>3, <3>1, <3>3 DEF RowsKeptApart
  <2>4. QED
    BY <1>2, <2>2, <2>3 DEF Collected
<1>3. QED
  BY <1>1, <1>2
\* A return task is completed by nothing but an update of it.
LEMMA DoneBy ==
  ASSUME WellTyped, [Next]_vars, NEW r \in Records, NEW i \in Rows, tsk'[r][i] = "completed", tsk[r][i] # "completed"
  PROVE  \E c \in Calls : SetTask(c) /\ call[c].r = r /\ call[c].i = i /\ call[c].st = "completed"
<1>i. i \in Tasks
  BY DEF Tasks
<1>1. ASSUME UNCHANGED tsk PROVE FALSE
  BY <1>1
<1>2. ASSUME NEW c \in Calls, OffboardingStep(c)
      PROVE  SetTask(c) /\ call[c].r = r /\ call[c].i = i /\ call[c].st = "completed"
  <2>1. ASSUME NEW t, NEW l, InsertTask(c, t, l) PROVE FALSE
    BY <1>1, <1>i, <2>1, Types DEF InsertTask
  <2>2. CASE StartOffboarding(c)
    BY <1>1, <2>2 DEF StartOffboarding, InitiateStart, CompleteStart, CancelStart, DeleteStart, ExitDateStart,
                      TaskStart, offVars
  <2>3. CASE Initiate(c)
    BY <1>1, <2>1, <2>3 DEF Initiate, CheckActive, CreateRecord, InsertStandardTask, ReadAssets, InsertAssetTask,
                            offVars
  <2>4. CASE Complete(c)
    BY <1>1, <2>4 DEF Complete, ReadTasks, CompleteRecord, OffboardEmployee, AuditComplete, ListLinked, offVars
  <2>5. CASE CancelRecord(c) \/ SetExitDate(c)
    BY <1>1, <2>5 DEF CancelRecord, SetExitDate
  <2>6. CASE DeleteTasks(c) \/ DeleteRecord(c)
    <3>1. tsk' = [tsk EXCEPT ![call[c].r] = NoTasks] /\ NoTasks[i] = "none"
      BY <1>i, <2>6 DEF DeleteTasks, DeleteRecord, NoTasks
    <3>2. tsk'[r] = NoTasks \/ tsk'[r] = tsk[r]
      BY <3>1, Types
    <3>3. QED
      BY <3>1, <3>2
  <2>7. CASE SetTask(c)
    <3>1. tsk' = tsk \/ tsk' = [tsk EXCEPT ![call[c].r][call[c].i] = call[c].st]
      BY <2>7 DEF SetTask, UpdateTask
    <3>2. call[c].r = r /\ call[c].i = i /\ call[c].st = "completed"
      BY <1>1, <1>i, <3>1, Types
    <3>3. QED
      BY <2>7, <3>2
  <2>8. QED
    BY <1>2, <2>2, <2>3, <2>4, <2>5, <2>6, <2>7 DEF OffboardingStep
<1>3. QED
  BY <1>1, <1>2 DEF Next, DayPasses, vars, offVars

LEMMA StepReturned ==
  ASSUME WellTyped, [Next]_vars, Returned
  PROVE  Returned'
<1> SUFFICES ASSUME NEW r \in Records, NEW i \in Rows, tsk'[r][i] = "completed", asg'[i].st = "live"
             PROVE  \E c \in Calls : call'[c].r = r /\ Collects(c, i)'
  BY DEF Returned, Live
<1>1. CASE tsk[r][i] = "completed"
  <2>1. asg[i].st \in {"live", "none"}
    BY StepKeepsApart DEF RowsKeptApart
  <2>2. asg[i].st # "none"
    BY <1>1 DEF WellTyped, TasksKnown, Tasks
  <2>3. \E c \in Calls : call[c].r = r /\ Collects(c, i)
    BY <1>1, <2>1, <2>2 DEF Returned, Live
  <2>4. QED
    BY <2>3, GoesOn
<1>2. CASE tsk[r][i] # "completed"
  <2>1. PICK c \in Calls : SetTask(c) /\ call[c].r = r /\ call[c].i = i /\ call[c].st = "completed"
    BY <1>2, DoneBy
  <2>2. call' = [call EXCEPT ![c].todo = {call[c].i}, ![c].pc = "returnSelect"]
    BY <2>1 DEF SetTask
  <2>3. call'[c].r = r /\ call'[c].pc = "returnSelect" /\ call'[c].todo = {i}
    BY <2>1, <2>2, Types DEF CallRecord
  <2>4. QED
    BY <2>3 DEF Collects, Collecting
<1>3. QED
  BY <1>1, <1>2

AllCollected == \A r \in Records : Collected(r)

LEMMA InitCollected == Init => AllCollected /\ Returned
<1> SUFFICES ASSUME Init PROVE AllCollected /\ Returned
  OBVIOUS
<1>1. \A r \in Records : orec[r].st = "none" /\ \A i \in Rows : tsk[r][i] = "none"
  BY DEF Init, NoRecord, NoTasks, Tasks
<1>2. QED
  BY <1>1 DEF AllCollected, Collected, Returned

\* A completed offboarding leaves its employee nothing they held when it
\* collected their rows, whatever was assigned, returned, handed over,
\* completed or deleted at the same time.
THEOREM CompletionCollects == Spec => []CompletedHoldNothing
<1>1. Init => WellTyped /\ AllCollected
  BY InitTyped, InitCollected
<1>2. WellTyped /\ AllCollected /\ [Next]_vars => WellTyped' /\ AllCollected'
  BY StepTyped, StepCollected DEF AllCollected
<1>3. WellTyped /\ AllCollected => CompletedHoldNothing
  <2> SUFFICES ASSUME WellTyped, AllCollected, NEW r \in Records, orec[r].st = "completed", QuietRecord(r),
                      NEW i \in HeldBy(orec[r].e), i \notin late
               PROVE  FALSE
    BY DEF CompletedHoldNothing
  <2>1. \A c \in Calls : call[c].r = r => call[c].pc = "idle"
    BY DEF QuietRecord, At
  <2>2. \A c \in Calls : call[c].r = r => call[c].pc \notin Unlisted /\ ~Collects(c, i)
    BY <2>1 DEF Unlisted, Collects, Collecting
  <2>3. QED
    BY <2>2 DEF AllCollected, Collected
<1>4. QED
  BY <1>1, <1>2, <1>3, PTL DEF Spec

\* A return task that says completed is about an asset that is back, once
\* the calls about its record are over.
THEOREM TasksTellTheTruth == Spec => []TaskDoneMeansReturned
<1>1. Init => WellTyped /\ Returned
  BY InitTyped, InitCollected
<1>2. WellTyped /\ Returned /\ [Next]_vars => WellTyped' /\ Returned'
  BY StepTyped, StepReturned
<1>3. WellTyped /\ Returned => TaskDoneMeansReturned
  <2> SUFFICES ASSUME Returned, NEW r \in Records, NEW i \in Rows, tsk[r][i] = "completed", QuietRecord(r), i \in Live
               PROVE  FALSE
    BY DEF TaskDoneMeansReturned
  <2>1. \A c \in Calls : call[c].r = r => ~Collects(c, i)
    BY DEF QuietRecord, At, Collects, Collecting
  <2>2. QED
    BY <2>1 DEF Returned
<1>4. QED
  BY <1>1, <1>2, <1>3, PTL DEF Spec

=============================================================================
