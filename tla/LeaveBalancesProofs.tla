------------------------- MODULE LeaveBalancesProofs -------------------------
(* Theorems about LeaveBalances, for every set of rows, employees, months,  *)
(* years and calls, and any rates, maxima and credits.                      *)
EXTENDS LeaveBalances, TLAPS

RowType == [there : BOOLEAN, bal : Int, used : Int, accrual : Months \cup {0}, reset : Years \cup {0}]
CallType ==
  [pc : Labels, b : Balances \cup {"none"}, e : Employees \cup {"none"}, todo : SUBSET Balances,
   left : SUBSET Balances, nb : [Balances -> Int], at : Months \cup Years \cup {0}, delta : Credits \cup {0},
   then : {"idle", "readBalance", "readRow"}, found : BOOLEAN]

AccrualLabels == {"ensureRows", "readBalances", "updateAccrual"}
InitLabels == {"insertRow", "readBereavement", "topUp"}
YearEndLabels == {"readRow", "snapshot", "reset"}

\* What the record of a call holds at each of its statements; no balance it
\* is about to write is negative.
Argued(k) ==
  /\ k.pc \in AccrualLabels => k.at \in Months
  /\ k.pc \in YearEndLabels \/ (k.pc \in InitLabels /\ k.then = "readRow") => k.at \in Years
  /\ k.pc \in {"snapshot", "reset", "readBalance", "addToBalance"}
     \/ (k.pc \in InitLabels /\ k.then = "readBalance") => k.b \in Balances
  /\ \A b \in Balances : k.nb[b] >= 0
Fits(k) == k \in CallType /\ Argued(k)

RowsTyped == row \in [Balances -> RowType] /\ \A b \in Balances : row[b].bal >= 0
AccrualTyped ==
  /\ gate \subseteq Months
  /\ credited \in [Balances -> [Months -> Nat]]
  /\ due \in [Months -> SUBSET Balances] /\ cut \subseteq Months
OutsideTyped == month \in Months /\ taken \in [Balances -> 0..MaxUsed] /\ snaps \in [Balances -> SUBSET Years]
CallsTyped == call \in [Calls -> CallType] /\ \A c \in Calls : Argued(call[c])

Typed == RowsTyped /\ AccrualTyped /\ OutsideTyped /\ CallsTyped

\* A step of c alone, outside the accruals; its call has nothing to reset yet.
Apart(c) ==
  /\ UNCHANGED <<gate, credited, due, cut>>
  /\ \A d \in Calls : d # c => call'[d] = call[d]
  /\ ~Accruing(c) /\ call'[c].pc \notin AccrualLabels

\* No row is reset by the step and no call is about to reset one.
NoReset(c) ==
  /\ UNCHANGED snaps
  /\ \A b \in Balances : row'[b].reset \in {0, row[b].reset}
  /\ call'[c].pc # "reset"

-----------------------------------------------------------------------------
(* The operators of the model.                                             *)

LEMMA Constants ==
  /\ Owner \in [Balances -> Employees] /\ Kind \in [Balances -> Kinds]
  /\ Rate \in [Balances -> Nat] /\ Cap \in [Balances -> Nat]
  /\ Credits \subseteq Int /\ Days \subseteq Nat \ {0}
  /\ Months \subseteq Nat \ {0} /\ 1 \in Months /\ Years \subseteq Nat \ {0}
  /\ MaxBalance \in Nat /\ MaxUsed \in Nat
BY BalanceConstants

LEMMA InitialBalanceNatural ==
  ASSUME NEW b \in Balances
  PROVE  InitialBalance(b) \in Nat
<1>1. Cap[b] \in Nat
  BY Constants
<1>2. QED
  BY <1>1 DEF InitialBalance

\* A row that is made is empty or holds its first days; one that is there stays.
LEMMA NewRowFits ==
  ASSUME Typed, NEW b \in Balances
  PROVE  NewRow(b) \in RowType /\ NewRow(b).bal >= 0 /\ NewRow(b).reset \in {0, row[b].reset}
<1>1. row[b] \in RowType /\ row[b].bal >= 0 /\ month \in Months
  BY DEF Typed, RowsTyped, OutsideTyped
<1>2. InitialBalance(b) \in Nat
  BY InitialBalanceNatural
<1> DEFINE i == InitialBalance(b)
           a == IF Kind[b] = "earned" THEN 0 ELSE month
<1>3. CASE row[b].there
  BY <1>1, <1>3 DEF NewRow
<1>4. CASE ~row[b].there
  <2>1. NewRow(b) = [NoRow EXCEPT !.there = TRUE, !.bal = i, !.accrual = a]
    BY <1>4 DEF NewRow
  <2>2. i \in Nat /\ a \in Months \cup {0}
    BY <1>1, <1>2
  <2> HIDE DEF i, a
  <2>3. NewRow(b) = [there |-> TRUE, bal |-> i, used |-> 0, accrual |-> a, reset |-> 0]
    BY <2>1 DEF NoRow
  <2>4. QED
    BY <2>2, <2>3 DEF RowType
<1>5. QED
  BY <1>3, <1>4

LEMMA AccruedNatural ==
  ASSUME Typed, NEW b \in Balances
  PROVE  Accrued(b) \in Nat
<1>1. row[b].bal \in Int /\ row[b].bal >= 0 /\ Rate[b] \in Nat /\ Cap[b] \in Nat
  BY Constants DEF Typed, RowsTyped, RowType
<1>2. QED
  BY <1>1 DEF Accrued, Smaller

LEMMA CappedNatural ==
  ASSUME NEW b \in Balances, NEW n \in Nat
  PROVE  Capped(b, n) \in Nat
<1>1. Cap[b] \in Nat
  BY Constants
<1>2. QED
  BY <1>1 DEF Capped, Smaller

LEMMA NoCallFits == Fits(NoCall) /\ NoCall.pc = "idle"
<1>1. [b \in Balances |-> 0] \in [Balances -> Int] /\ \A b \in Balances : [x \in Balances |-> 0][b] >= 0
  OBVIOUS
<1>2. QED
  BY <1>1 DEF NoCall, Fits, CallType, Argued, Labels, AccrualLabels, InitLabels, YearEndLabels

LEMMA CallFits ==
  ASSUME Typed, NEW c \in Calls
  PROVE  Fits(call[c]) /\ call \in [Calls -> CallType]
BY DEF Typed, CallsTyped, Fits

\* A call whose record becomes x.
LEMMA CallBecomes ==
  ASSUME Typed, NEW c \in Calls, NEW x, Fits(x), call' = [call EXCEPT ![c] = x]
  PROVE  CallsTyped' /\ call'[c] = x /\ \A d \in Calls : d # c => call'[d] = call[d]
<1>1. call \in [Calls -> CallType] /\ x \in CallType /\ Argued(x)
  BY CallFits DEF Fits
<1>2. call' \in [Calls -> CallType] /\ call'[c] = x /\ \A d \in Calls : d # c => call'[d] = call[d]
  BY <1>1
<1>3. \A d \in Calls : Argued(call'[d])
  BY <1>1, <1>2 DEF Typed, CallsTyped
<1>4. QED
  BY <1>2, <1>3 DEF CallsTyped, Argued

LEMMA InitializeFits ==
  ASSUME Typed, NEW rec, Fits(rec), NEW e \in Employees, NEW then \in {"idle", "readBalance", "readRow"},
         then = "readBalance" => rec.b \in Balances, then = "readRow" => rec.at \in Years
  PROVE  Fits(Initialize(rec, e, then)) /\ Initialize(rec, e, then).pc \in InitLabels
<1> DEFINE T == RowsOf(e) \ There
           x == Initialize(rec, e, then)
<1>1. T \in SUBSET Balances
  BY DEF RowsOf
<1>2. x = [rec EXCEPT !.e = e, !.then = then, !.todo = T, !.pc = IF T = {} THEN "readBereavement" ELSE "insertRow"]
  BY DEF Initialize, Fits, CallType
<1> HIDE DEF T, x
<1>3. x \in CallType
  <2>1. rec \in CallType /\ {"readBereavement", "insertRow"} \subseteq Labels
    BY DEF Fits, Labels
  <2>2. QED
    BY <1>1, <1>2, <2>1 DEF CallType
<1>4. x.pc \in {"readBereavement", "insertRow"} /\ x.then = then /\ x.at = rec.at /\ x.b = rec.b /\ x.nb = rec.nb
  BY <1>2 DEF Fits, CallType
<1>5. QED
  BY <1>3, <1>4 DEF x, Fits, Argued, AccrualLabels, InitLabels, YearEndLabels

\* Where an initialization ends, the call goes on where it came from.
LEMMA InitializedFits ==
  ASSUME Typed, NEW c \in Calls, call[c].pc \in InitLabels, Initialized(c)
  PROVE  \E x : Fits(x) /\ x.pc \in {"idle", "readBalance", "readRow"} /\ call' = [call EXCEPT ![c] = x]
<1> DEFINE k == call[c]
<1>k. k \in CallType /\ Argued(k) /\ call \in [Calls -> CallType]
  BY CallFits DEF Fits
<1>1. CASE k.then = "idle"
  BY <1>1, NoCallFits DEF Initialized, Return
<1>2. CASE k.then # "idle"
  <2> DEFINE x == [k EXCEPT !.pc = k.then, !.then = "idle", !.e = "none", !.todo = {}]
  <2>1. call' = [call EXCEPT ![c] = x]
    BY <1>k, <1>2 DEF Initialized
  <2>2. x \in CallType /\ x.pc \in {"readBalance", "readRow"}
    BY <1>k, <1>2 DEF CallType, Labels
  <2>3. Argued(x)
    BY <1>k, <1>2 DEF CallType, Argued, AccrualLabels, InitLabels, YearEndLabels
  <2>4. QED
    BY <2>1, <2>2, <2>3 DEF Fits
<1>3. QED
  BY <1>1, <1>2

\* The year end goes on with the next row, or is over.
LEMMA NextRowFits ==
  ASSUME Typed, NEW c \in Calls, call[c].pc \in YearEndLabels, NEW b, NextRow(c, b)
  PROVE  \E x : Fits(x) /\ x.pc \in {"idle", "readRow"} /\ call' = [call EXCEPT ![c] = x]
<1> DEFINE k == call[c]
<1>k. k \in CallType /\ Argued(k) /\ call \in [Calls -> CallType]
  BY CallFits DEF Fits
<1>1. CASE k.left \subseteq {b}
  BY <1>1, NoCallFits DEF NextRow, Return
<1>2. CASE ~(k.left \subseteq {b})
  <2> DEFINE x == [k EXCEPT !.left = @ \ {b}, !.b = "none", !.pc = "readRow", !.found = FALSE]
  <2>1. call' = [call EXCEPT ![c] = x]
    BY <1>k, <1>2 DEF NextRow, CallType
  <2>2. x \in CallType /\ x.pc = "readRow"
    BY <1>k DEF CallType, Labels
  <2>3. Argued(x)
    BY <1>k DEF CallType, Argued, AccrualLabels, InitLabels, YearEndLabels
  <2>4. QED
    BY <2>1, <2>2, <2>3 DEF Fits
<1>3. QED
  BY <1>1, <1>2
-----------------------------------------------------------------------------
(* Every step keeps the tables and the calls typed, and no balance becomes *)
(* negative.  The steps outside the accruals leave these alone.            *)

\* Steps that write no table but move their call on.
LEMMA MoveTyped ==
  ASSUME Typed, NEW c \in Calls, NEW x, Fits(x), call' = [call EXCEPT ![c] = x],
         UNCHANGED <<row, gate, snaps, outside, histories>>
  PROVE  Typed'
BY CallBecomes DEF Typed, RowsTyped, AccrualTyped, OutsideTyped, outside, histories

\* ... and do not belong to an accrual.
LEMMA MoveApart ==
  ASSUME Typed, NEW c \in Calls, NEW x, Fits(x), call' = [call EXCEPT ![c] = x],
         UNCHANGED <<row, gate, snaps, outside, histories>>, ~Accruing(c), x.pc \notin AccrualLabels
  PROVE  /\ Typed' /\ Apart(c)
         /\ x.pc # "reset" => NoReset(c)
<1>1. Typed' /\ call'[c] = x /\ \A d \in Calls : d # c => call'[d] = call[d]
  BY MoveTyped, CallBecomes
<1>2. QED
  BY <1>1 DEF Apart, NoReset, histories

\* A row is written.
LEMMA RowWritten ==
  ASSUME Typed, NEW b \in Balances, NEW y \in RowType, y.bal >= 0, row' = [row EXCEPT ![b] = y]
  PROVE  RowsTyped' /\ row'[b] = y /\ \A a \in Balances : a # b => row'[a] = row[a]
BY DEF Typed, RowsTyped

LEMMA RowFits ==
  ASSUME Typed, NEW b \in Balances
  PROVE  row[b] \in RowType /\ row[b].bal \in Int /\ row[b].bal >= 0 /\ row \in [Balances -> RowType]
BY DEF Typed, RowsTyped, RowType

LEMMA StartTyped ==
  ASSUME Typed, NEW c \in Calls, Start(c)
  PROVE  Typed' /\ (AccrualStart(c) \/ (Apart(c) /\ NoReset(c)))
<1>1. CASE AccrualStart(c)
  <2> DEFINE x == [NoCall EXCEPT !.pc = "ensureRows", !.at = month]
  <2>1. month \in Months /\ gate' = gate \cup {month} /\ due' = [due EXCEPT ![month] = Owed(month)]
        /\ UNCHANGED <<row, snaps, outside, credited, cut>>
    BY <1>1 DEF AccrualStart
  <2>2. Fits(x)
    BY <2>1, NoCallFits DEF NoCall, Fits, CallType, Argued, Labels, AccrualLabels, InitLabels, YearEndLabels
  <2>3. call' = [call EXCEPT ![c] = x]
    BY <1>1 DEF AccrualStart, Begin
  <2> HIDE DEF x
  <2>4. Owed(month) \in SUBSET Balances
    BY DEF Owed, There
  <2>5. QED
    BY <1>1, <2>1, <2>2, <2>3, <2>4, CallBecomes DEF Typed, RowsTyped, AccrualTyped, OutsideTyped, outside
<1>2. ASSUME NEW e \in Employees, InitializeStart(c, e)
      PROVE  Typed' /\ Apart(c) /\ NoReset(c)
  <2> DEFINE x == Initialize(NoCall, e, "idle")
  <2>1. Fits(x) /\ x.pc \in InitLabels
    BY NoCallFits, InitializeFits
  <2> HIDE DEF x
  <2>2. At(c, "idle") /\ call' = [call EXCEPT ![c] = x] /\ UNCHANGED <<row, gate, snaps, outside, histories>>
    BY <1>2 DEF InitializeStart, Begin, x
  <2>3. QED
    BY <2>1, <2>2, MoveApart DEF At, Accruing, InitLabels, AccrualLabels
<1>3. ASSUME NEW b \in Balances, NEW delta \in Credits, AddStart(c, b, delta)
      PROVE  Typed' /\ Apart(c) /\ NoReset(c)
  <2> DEFINE rec == [NoCall EXCEPT !.pc = "readBalance", !.b = b, !.delta = delta]
             x == IF row[b].there THEN rec ELSE Initialize(rec, Owner[b], "readBalance")
  <2>1. Fits(rec) /\ rec.b = b /\ rec.pc = "readBalance"
    BY NoCallFits DEF NoCall, Fits, CallType, Argued, Labels, AccrualLabels, InitLabels, YearEndLabels
  <2>2. At(c, "idle") /\ call' = [call EXCEPT ![c] = x] /\ UNCHANGED <<row, gate, snaps, outside, histories>>
    BY <1>3 DEF AddStart, Begin
  <2> HIDE DEF rec
  <2>3. Owner[b] \in Employees
    BY Constants
  <2>4. Fits(x) /\ x.pc \in InitLabels \cup {"readBalance"}
    BY <2>1, <2>3, InitializeFits
  <2> HIDE DEF x
  <2>5. QED
    BY <2>2, <2>4, MoveApart DEF At, Accruing, InitLabels, AccrualLabels
<1>4. ASSUME NEW y \in Years, YearEndStart(c, y)
      PROVE  Typed' /\ Apart(c) /\ NoReset(c)
  <2> DEFINE x == [NoCall EXCEPT !.pc = "readRow", !.left = Balances, !.at = y]
  <2>1. Fits(x) /\ x.pc = "readRow"
    BY NoCallFits DEF NoCall, Fits, CallType, Argued, Labels, AccrualLabels, InitLabels, YearEndLabels
  <2>2. At(c, "idle") /\ call' = [call EXCEPT ![c] = x] /\ UNCHANGED <<row, gate, snaps, outside, histories>>
    BY <1>4 DEF YearEndStart, Begin
  <2> HIDE DEF x
  <2>3. QED
    BY <2>1, <2>2, MoveApart DEF At, Accruing, AccrualLabels
<1>5. QED
  BY <1>1, <1>2, <1>3, <1>4 DEF Start

\* The statements of an accrual.
LEMMA AccrueTyped ==
  ASSUME Typed, NEW c \in Calls, EnsureRows(c) \/ ReadBalances(c) \/ UpdateAccrual(c)
  PROVE  /\ Typed' /\ \A d \in Calls : d # c => call'[d] = call[d]
         /\ NoReset(c)
<1> DEFINE k == call[c]
<1>k. k \in CallType /\ Argued(k) /\ call \in [Calls -> CallType]
  BY CallFits DEF Fits
<1>1. CASE EnsureRows(c)
  <2> DEFINE x == [k EXCEPT !.pc = "readBalances"]
  <2>1. Fits(x) /\ x.pc = "readBalances"
    BY <1>k, <1>1 DEF EnsureRows, At, Fits, CallType, Argued, Labels, AccrualLabels, InitLabels, YearEndLabels
  <2>2. call' = [call EXCEPT ![c] = x] /\ UNCHANGED <<gate, snaps, outside, histories>>
    BY <1>k, <1>1 DEF EnsureRows, Goto
  <2> HIDE DEF x
  <2>3. \A b \in Balances : row'[b] \in RowType /\ row'[b].bal >= 0 /\ row'[b].reset \in {0, row[b].reset}
    <3>1. row' = [b \in Balances |-> IF Kind[b] = "earned" THEN NewRow(b) ELSE row[b]]
      BY <1>1 DEF EnsureRows
    <3>2. ASSUME NEW b \in Balances
          PROVE  row'[b] \in RowType /\ row'[b].bal >= 0 /\ row'[b].reset \in {0, row[b].reset}
      BY <3>1, NewRowFits, RowFits
    <3>3. QED
      BY <3>2
  <2>4. RowsTyped'
    <3>1. row' = [b \in Balances |-> row'[b]]
      BY <1>1 DEF EnsureRows
    <3>2. QED
      BY <2>3, <3>1 DEF RowsTyped
  <2>5. CallsTyped' /\ call'[c] = x /\ \A d \in Calls : d # c => call'[d] = call[d]
    BY <2>1, <2>2, CallBecomes
  <2>6. QED
    BY <2>1, <2>2, <2>3, <2>4, <2>5 DEF Typed, AccrualTyped, OutsideTyped, outside, histories, NoReset
<1>2. CASE ReadBalances(c)
  <2> DEFINE m == k.at
             T == Owed(m)
             N == [b \in Balances |-> IF b \in T THEN Accrued(b) ELSE 0]
             x == IF T = {} THEN NoCall ELSE [k EXCEPT !.pc = "updateAccrual", !.todo = T, !.nb = N]
  <2>1. k.pc = "readBalances" /\ m \in Months
    BY <1>k, <1>2 DEF ReadBalances, At, Argued, AccrualLabels
  <2>2. T \in SUBSET Balances /\ N \in [Balances -> Int] /\ \A b \in Balances : N[b] >= 0
    BY AccruedNatural DEF Owed, There
  <2>3. call' = [call EXCEPT ![c] = x] /\ due' = [due EXCEPT ![m] = @ \cap T]
        /\ UNCHANGED <<row, gate, snaps, outside, credited, cut>>
    BY <1>k, <1>2 DEF ReadBalances, Return, CallType
  <2> HIDE DEF m, T, N
  <2>4. Fits(x) /\ x.pc # "reset"
    <3> DEFINE z == [k EXCEPT !.pc = "updateAccrual", !.todo = T, !.nb = N]
    <3>1. z \in CallType /\ z.pc = "updateAccrual" /\ z.at = m /\ z.nb = N
      BY <1>k, <2>2 DEF m, CallType, Labels
    <3>2. Argued(z)
      BY <2>1, <2>2, <3>1 DEF Argued, AccrualLabels, InitLabels, YearEndLabels
    <3>3. Fits(z) /\ z.pc # "reset"
      BY <3>1, <3>2 DEF Fits
    <3> HIDE DEF z
    <3>4. QED
      BY <3>3, NoCallFits DEF z
  <2> HIDE DEF x
  <2>5. CallsTyped' /\ call'[c] = x /\ \A d \in Calls : d # c => call'[d] = call[d]
    BY <2>3, <2>4, CallBecomes
  <2>6. due' \in [Months -> SUBSET Balances]
    BY <2>1, <2>3 DEF Typed, AccrualTyped
  <2>7. QED
    BY <2>3, <2>4, <2>5, <2>6 DEF Typed, RowsTyped, AccrualTyped, OutsideTyped, outside, NoReset
<1>3. CASE UpdateAccrual(c)
  <2>1. PICK b \in k.todo :
          /\ row' = [row EXCEPT ![b].bal = k.nb[b], ![b].accrual = month]
          /\ credited' = [credited EXCEPT ![b][k.at] = @ + 1]
          /\ due' = [due EXCEPT ![k.at] = @ \ {b}]
          /\ IF k.todo = {b} THEN Return(c) ELSE call' = [call EXCEPT ![c].todo = @ \ {b}]
    BY <1>3 DEF UpdateAccrual
  <2> DEFINE x == IF k.todo = {b} THEN NoCall ELSE [k EXCEPT !.todo = @ \ {b}]
             y == [row[b] EXCEPT !.bal = k.nb[b], !.accrual = month]
  <2>2. k.pc = "updateAccrual" /\ k.at \in Months /\ b \in Balances /\ UNCHANGED <<gate, snaps, outside, cut>>
    BY <1>k, <1>3 DEF UpdateAccrual, At, Argued, AccrualLabels, CallType
  <2>3. call' = [call EXCEPT ![c] = x]
    BY <1>k, <2>1 DEF Return, CallType
  <2>4. Fits(x) /\ x.pc # "reset"
    <3> DEFINE z == [k EXCEPT !.todo = @ \ {b}]
    <3>1. z \in CallType /\ z.pc = "updateAccrual" /\ z.at = k.at /\ z.nb = k.nb
      BY <1>k, <2>2 DEF CallType
    <3>2. Argued(z)
      BY <1>k, <2>2, <3>1 DEF Argued, AccrualLabels, InitLabels, YearEndLabels
    <3>3. Fits(z) /\ z.pc # "reset"
      BY <3>1, <3>2 DEF Fits
    <3> HIDE DEF z
    <3>4. QED
      BY <3>3, NoCallFits DEF z
  <2>5. y \in RowType /\ y.bal >= 0 /\ y.reset = row[b].reset /\ row' = [row EXCEPT ![b] = y]
    <3>1. k.nb[b] \in Int /\ k.nb[b] >= 0 /\ month \in Months
      BY <1>k, <2>2 DEF CallType, Argued, Typed, OutsideTyped
    <3>2. row[b] \in RowType /\ row \in [Balances -> RowType]
      BY <2>2, RowFits
    <3>3. y \in RowType /\ y.bal = k.nb[b] /\ y.reset = row[b].reset
      BY <3>1, <3>2 DEF RowType
    <3>4. row' = [row EXCEPT ![b] = y]
      BY <2>1, <2>2, <3>2 DEF RowType
    <3>5. QED
      BY <3>1, <3>3, <3>4
  <2> HIDE DEF x, y
  <2>6. CallsTyped' /\ call'[c] = x /\ \A d \in Calls : d # c => call'[d] = call[d]
    BY <2>3, <2>4, CallBecomes
  <2>7. RowsTyped' /\ row'[b] = y /\ \A a \in Balances : a # b => row'[a] = row[a]
    BY <2>2, <2>5, RowWritten
  <2>8. due' \in [Months -> SUBSET Balances] /\ credited' \in [Balances -> [Months -> Nat]]
    BY <2>1, <2>2 DEF Typed, AccrualTyped
  <2>9. \A a \in Balances : row'[a].reset \in {0, row[a].reset}
    BY <2>5, <2>7
  <2>10. QED
    BY <2>2, <2>4, <2>6, <2>7, <2>8, <2>9 DEF Typed, AccrualTyped, OutsideTyped, outside, NoReset
<1>4. QED
  BY <1>1, <1>2, <1>3
\* The statements of an initialization.
LEMMA InitializeTyped ==
  ASSUME Typed, NEW c \in Calls, InsertRow(c) \/ ReadBereavement(c) \/ TopUp(c)
  PROVE  Typed' /\ Apart(c) /\ NoReset(c)
<1> DEFINE k == call[c]
<1>k. k \in CallType /\ Argued(k) /\ call \in [Calls -> CallType]
  BY CallFits DEF Fits
<1>i. k.pc \in InitLabels /\ ~Accruing(c)
  BY DEF InsertRow, ReadBereavement, TopUp, At, InitLabels, Accruing
<1>1. CASE InsertRow(c)
  <2>1. PICK b \in k.todo :
          /\ row' = [row EXCEPT ![b] = NewRow(b)]
          /\ call' = [call EXCEPT ![c].todo = @ \ {b},
                                  ![c].pc = IF call[c].todo = {b} THEN "readBereavement" ELSE @]
    BY <1>1 DEF InsertRow
  <2> DEFINE x == [k EXCEPT !.todo = @ \ {b}, !.pc = IF k.todo = {b} THEN "readBereavement" ELSE @]
  <2>2. k.pc = "insertRow" /\ b \in Balances /\ UNCHANGED <<gate, snaps, outside, histories>>
    BY <1>k, <1>1 DEF InsertRow, At, CallType
  <2>3. x \in CallType /\ x.pc \in {"insertRow", "readBereavement"} /\ x.then = k.then /\ x.at = k.at /\ x.b = k.b
        /\ x.nb = k.nb
    BY <1>k, <2>2 DEF CallType, Labels
  <2>4. call' = [call EXCEPT ![c] = x]
    BY <1>k, <2>1 DEF CallType
  <2> HIDE DEF x
  <2>5. Fits(x)
    BY <1>k, <1>i, <2>3 DEF Fits, Argued, AccrualLabels, InitLabels, YearEndLabels
  <2>6. CallsTyped' /\ call'[c] = x /\ \A d \in Calls : d # c => call'[d] = call[d]
    BY <2>4, <2>5, CallBecomes
  <2>7. RowsTyped' /\ row'[b] = NewRow(b) /\ \A a \in Balances : a # b => row'[a] = row[a]
    BY <2>1, <2>2, NewRowFits, RowWritten
  <2>8. \A a \in Balances : row'[a].reset \in {0, row[a].reset}
    BY <2>2, <2>7, NewRowFits
  <2>9. QED
    BY <1>i, <2>2, <2>3, <2>6, <2>7, <2>8
       DEF Typed, AccrualTyped, OutsideTyped, outside, histories, Apart, NoReset, AccrualLabels
<1>2. CASE ReadBereavement(c)
  <2>1. UNCHANGED <<row, gate, snaps, outside, histories>> /\ k.pc = "readBereavement"
    BY <1>2 DEF ReadBereavement, At
  <2> DEFINE T == {b \in RowsOf(call[c].e) \cap There : Kind[b] = "bereavement" /\ row[b].bal = 0 /\ row[b].used = 0}
             x == [k EXCEPT !.pc = "topUp", !.todo = T]
  <2>2. T \in SUBSET Balances
    BY DEF RowsOf
  <2>3. Initialized(c) \/ call' = [call EXCEPT ![c].pc = "topUp", ![c].todo = T]
    BY <1>2 DEF ReadBereavement
  <2> HIDE DEF T
  <2>4. CASE Initialized(c)
    <3>1. PICK z : Fits(z) /\ z.pc \in {"idle", "readBalance", "readRow"} /\ call' = [call EXCEPT ![c] = z]
      BY <1>i, <2>4, InitializedFits
    <3>2. QED
      BY <1>i, <2>1, <3>1, MoveApart DEF AccrualLabels
  <2>5. CASE call' = [call EXCEPT ![c].pc = "topUp", ![c].todo = T]
    <3>1. call' = [call EXCEPT ![c] = x]
      BY <1>k, <2>5 DEF CallType
    <3>2. x \in CallType /\ x.pc = "topUp" /\ x.then = k.then /\ x.at = k.at /\ x.b = k.b /\ x.nb = k.nb
      BY <1>k, <2>2 DEF CallType, Labels
    <3> HIDE DEF x
    <3>3. Fits(x)
      BY <1>k, <1>i, <3>2 DEF Fits, Argued, AccrualLabels, InitLabels, YearEndLabels
    <3>4. QED
      BY <1>i, <2>1, <3>1, <3>2, <3>3, MoveApart DEF AccrualLabels
  <2>6. QED
    BY <2>3, <2>4, <2>5
<1>3. CASE TopUp(c)
  <2>1. UNCHANGED <<gate, snaps, outside, histories>> /\ Initialized(c)
        /\ row' = [b \in Balances |-> IF b \in k.todo THEN [row[b] EXCEPT !.bal = InitialBalance(b)] ELSE row[b]]
    BY <1>3 DEF TopUp
  <2>2. PICK x : Fits(x) /\ x.pc \in {"idle", "readBalance", "readRow"} /\ call' = [call EXCEPT ![c] = x]
    BY <1>i, <2>1, InitializedFits
  <2>3. CallsTyped' /\ call'[c] = x /\ \A d \in Calls : d # c => call'[d] = call[d]
    BY <2>2, CallBecomes
  <2>4. ASSUME NEW b \in Balances
        PROVE  row'[b] \in RowType /\ row'[b].bal >= 0 /\ row'[b].reset = row[b].reset
    <3>1. row[b] \in RowType /\ row[b].bal >= 0
      BY RowFits
    <3>2. InitialBalance(b) \in Nat
      BY InitialBalanceNatural
    <3> DEFINE y == [row[b] EXCEPT !.bal = InitialBalance(b)]
    <3>3. y \in RowType /\ y.bal >= 0 /\ y.reset = row[b].reset
      BY <3>1, <3>2 DEF RowType
    <3>4. row'[b] = y \/ row'[b] = row[b]
      BY <2>1
    <3> HIDE DEF y
    <3>5. QED
      BY <3>1, <3>3, <3>4
  <2>5. RowsTyped'
    <3>1. row' = [b \in Balances |-> row'[b]]
      BY <2>1
    <3>2. QED
      BY <2>4, <3>1 DEF RowsTyped
  <2>6. QED
    BY <1>i, <2>1, <2>2, <2>3, <2>4, <2>5
       DEF Typed, AccrualTyped, OutsideTyped, outside, histories, Apart, NoReset, AccrualLabels
<1>4. QED
  BY <1>1, <1>2, <1>3

\* The statements of addBalance.
LEMMA AddTyped ==
  ASSUME Typed, NEW c \in Calls, ReadBalance(c) \/ AddToBalance(c)
  PROVE  Typed' /\ Apart(c) /\ NoReset(c)
<1> DEFINE k == call[c]
           b == k.b
<1>k. k \in CallType /\ Argued(k) /\ call \in [Calls -> CallType]
  BY CallFits DEF Fits
<1>i. k.pc \in {"readBalance", "addToBalance"} /\ ~Accruing(c) /\ b \in Balances
  BY <1>k DEF ReadBalance, AddToBalance, At, Accruing, Argued
<1>1. CASE ReadBalance(c)
  <2> DEFINE n == Larger(0, row[b].bal + k.delta)
             x == [k EXCEPT !.pc = "addToBalance", !.nb[b] = Capped(b, n)]
  <2>1. UNCHANGED <<row, gate, snaps, outside, histories>>
        /\ (Return(c) \/ call' = [call EXCEPT ![c].pc = "addToBalance", ![c].nb[b] = Capped(b, n)])
    BY <1>1 DEF ReadBalance
  <2>2. CASE Return(c)
    BY <1>i, <2>1, <2>2, NoCallFits, MoveApart DEF Return, AccrualLabels
  <2>3. CASE call' = [call EXCEPT ![c].pc = "addToBalance", ![c].nb[b] = Capped(b, n)]
    <3>1. n \in Nat
      <4>1. k.delta \in Credits \cup {0} /\ Credits \subseteq Int
        BY <1>k, Constants DEF CallType
      <4>2. k.delta \in Int
        <5>1. CASE k.delta = 0
          BY <5>1
        <5>2. CASE k.delta \in Credits
          BY <4>1, <5>2
        <5>3. QED
          BY <4>1, <5>1, <5>2
      <4>3. row[b].bal \in Int
        BY <1>i, RowFits
      <4>4. QED
        BY <4>2, <4>3 DEF Larger
    <3>2. Capped(b, n) \in Nat
      BY <1>i, <3>1, CappedNatural
    <3> DEFINE w == Capped(b, n)
    <3> HIDE DEF n, w
    <3>3. call' = [call EXCEPT ![c] = [k EXCEPT !.pc = "addToBalance", !.nb[b] = w]]
      BY <1>k, <2>3 DEF w, CallType
    <3> DEFINE z == [k EXCEPT !.pc = "addToBalance", !.nb[b] = w]
    <3>4. z \in CallType /\ z.pc = "addToBalance" /\ z.b = b /\ \A a \in Balances : z.nb[a] >= 0
      <4>1. w \in Nat
        BY <3>2 DEF w
      <4>2. k.nb \in [Balances -> Int] /\ \A a \in Balances : k.nb[a] >= 0
        BY <1>k DEF CallType, Argued
      <4> DEFINE f == k.nb
                 g == [f EXCEPT ![b] = w]
      <4> HIDE DEF f
      <4>3. g \in [Balances -> Int] /\ \A a \in Balances : g[a] >= 0
        <5>1. f \in [Balances -> Int] /\ \A a \in Balances : f[a] >= 0
          BY <4>2 DEF f
        <5>2. g = [a \in Balances |-> IF a = b THEN w ELSE f[a]]
          BY <1>i, <5>1
        <5> HIDE DEF g
        <5>3. QED
          BY <4>1, <5>1, <5>2
      <4>4. QED
        BY <1>k, <4>3 DEF f, CallType, Labels
    <3> HIDE DEF z
    <3>5. Fits(z)
      BY <1>i, <3>4 DEF Fits, Argued, AccrualLabels, InitLabels, YearEndLabels
    <3>6. QED
      BY <1>i, <2>1, <3>3, <3>4, <3>5, MoveApart DEF z, AccrualLabels
  <2>4. QED
    BY <2>1, <2>2, <2>3
<1>2. CASE AddToBalance(c)
  <2> DEFINE y == [row[b] EXCEPT !.bal = k.nb[b]]
  <2>1. row' = [row EXCEPT ![b] = y] /\ Return(c) /\ UNCHANGED <<gate, snaps, outside, histories>>
    BY <1>2, <1>i, RowFits DEF AddToBalance
  <2>2. y \in RowType /\ y.bal >= 0 /\ y.reset = row[b].reset
    <3>1. k.nb[b] \in Int /\ k.nb[b] >= 0
      BY <1>k, <1>i, <1>2 DEF CallType, Argued, AddToBalance, At
    <3>2. row[b] \in RowType
      BY <1>i, RowFits
    <3> DEFINE n == k.nb[b]
               x == row[b]
    <3> HIDE DEF n, x
    <3>3. n \in Int /\ n >= 0 /\ x \in RowType
      BY <3>1, <3>2 DEF n, x
    <3>4. LET z == [x EXCEPT !.bal = n] IN z \in RowType /\ z.bal >= 0 /\ z.reset = x.reset
      BY <3>3 DEF RowType
    <3>5. QED
      BY <3>4 DEF n, x
  <2> HIDE DEF y, b
  <2>3. RowsTyped' /\ row'[b] = y /\ \A a \in Balances : a # b => row'[a] = row[a]
    BY <1>i, <2>1, <2>2, RowWritten
  <2>4. CallsTyped' /\ call'[c] = NoCall /\ \A d \in Calls : d # c => call'[d] = call[d]
    BY <2>1, NoCallFits, CallBecomes DEF Return
  <2>5. \A a \in Balances : row'[a].reset \in {0, row[a].reset}
    BY <2>2, <2>3
  <2>6. QED
    BY <1>i, <2>1, <2>3, <2>4, <2>5, NoCallFits
       DEF Typed, AccrualTyped, OutsideTyped, outside, histories, Apart, NoReset, AccrualLabels
<1>3. QED
  BY <1>1, <1>2
\* The statements of the year end.
LEMMA YearEndTyped ==
  ASSUME Typed, NEW c \in Calls, ReadRow(c) \/ SnapshotBalance(c) \/ ResetBalance(c) \/ RowFails(c)
  PROVE  Typed' /\ Apart(c) /\ (ReadRow(c) \/ RowFails(c) => NoReset(c))
<1> DEFINE k == call[c]
<1>k. k \in CallType /\ Argued(k) /\ call \in [Calls -> CallType]
  BY CallFits DEF Fits
<1>i. k.pc \in YearEndLabels /\ ~Accruing(c) /\ k.at \in Years
  BY <1>k DEF ReadRow, SnapshotBalance, ResetBalance, RowFails, At, Accruing, Argued, YearEndLabels
<1>s. k.pc \in {"snapshot", "reset"} => k.b \in Balances
  BY <1>k DEF Argued
<1>1. ASSUME ReadRow(c)  PROVE Typed' /\ Apart(c) /\ NoReset(c)
  <2>1. k.pc = "readRow" /\ UNCHANGED <<row, gate, snaps, outside, histories>>
    BY <1>1 DEF ReadRow, At
  <2>2. PICK b \in k.left :
          \/ NextRow(c, b)
          \/ call' = [call EXCEPT ![c].pc = "snapshot", ![c].b = b, ![c].found = TRUE]
          \/ call' = [call EXCEPT ![c].pc = "snapshot", ![c].b = b, ![c].found = FALSE]
          \/ call' = [call EXCEPT ![c] = Initialize([@ EXCEPT !.b = b], Owner[b], "readRow")]
    BY <1>1 DEF ReadRow
  <2>3. b \in Balances
    BY <1>k DEF CallType
  <2>4. CASE NextRow(c, b)
    <3>1. PICK x : Fits(x) /\ x.pc \in {"idle", "readRow"} /\ call' = [call EXCEPT ![c] = x]
      BY <1>i, <2>4, NextRowFits
    <3>2. QED
      BY <1>i, <2>1, <3>1, MoveApart DEF AccrualLabels
  <2>5. ASSUME NEW f \in BOOLEAN, call' = [call EXCEPT ![c].pc = "snapshot", ![c].b = b, ![c].found = f]
        PROVE  Typed' /\ Apart(c) /\ NoReset(c)
    <3> DEFINE x == [k EXCEPT !.pc = "snapshot", !.b = b, !.found = f]
    <3>1. call' = [call EXCEPT ![c] = x]
      BY <1>k, <2>5 DEF CallType
    <3>2. x \in CallType /\ x.pc = "snapshot" /\ x.b = b /\ x.at = k.at /\ x.nb = k.nb
      BY <1>k, <2>3 DEF CallType, Labels
    <3> HIDE DEF x
    <3>3. Fits(x)
      BY <1>k, <1>i, <2>3, <3>2 DEF Fits, Argued, AccrualLabels, InitLabels, YearEndLabels
    <3>4. QED
      BY <1>i, <2>1, <3>1, <3>2, <3>3, MoveApart DEF AccrualLabels
  <2>6. CASE call' = [call EXCEPT ![c] = Initialize([@ EXCEPT !.b = b], Owner[b], "readRow")]
    <3> DEFINE rec == [k EXCEPT !.b = b]
               x == Initialize(rec, Owner[b], "readRow")
    <3>1. call' = [call EXCEPT ![c] = x]
      BY <1>k, <2>6
    <3>2. rec \in CallType /\ rec.pc = k.pc /\ rec.at = k.at /\ rec.nb = k.nb /\ rec.b = b
      BY <1>k, <2>3 DEF CallType
    <3> HIDE DEF rec
    <3>3. Fits(rec)
      BY <1>k, <1>i, <2>3, <2>1, <3>2 DEF Fits, Argued, AccrualLabels, InitLabels, YearEndLabels
    <3>4. Owner[b] \in Employees
      BY <2>3, Constants
    <3>5. Fits(x) /\ x.pc \in InitLabels
      BY <1>i, <3>2, <3>3, <3>4, InitializeFits
    <3> HIDE DEF x
    <3>6. QED
      BY <1>i, <2>1, <3>1, <3>5, MoveApart DEF AccrualLabels, InitLabels
  <2>7. QED
    BY <2>2, <2>4, <2>5, <2>6
<1>2. ASSUME SnapshotBalance(c)  PROVE Typed' /\ Apart(c)
  <2> DEFINE x == [k EXCEPT !.pc = "reset"]
  <2>1. /\ k.pc = "snapshot" /\ call' = [call EXCEPT ![c] = x]
        /\ snaps' = [snaps EXCEPT ![k.b] = @ \cup {k.at}] /\ UNCHANGED <<row, gate, outside, histories>>
    BY <1>2, <1>k DEF SnapshotBalance, At, Goto
  <2>2. Fits(x) /\ x.pc = "reset"
    BY <1>k, <1>i, <1>s, <2>1 DEF Fits, CallType, Argued, Labels, AccrualLabels, InitLabels, YearEndLabels
  <2> HIDE DEF x
  <2>3. CallsTyped' /\ call'[c] = x /\ \A d \in Calls : d # c => call'[d] = call[d]
    BY <2>1, <2>2, CallBecomes
  <2>4. snaps' \in [Balances -> SUBSET Years]
    BY <1>i, <1>s, <2>1 DEF Typed, OutsideTyped
  <2>5. QED
    BY <1>i, <2>1, <2>2, <2>3, <2>4
       DEF Typed, RowsTyped, AccrualTyped, OutsideTyped, outside, histories, Apart, AccrualLabels
<1>3. ASSUME ResetBalance(c)  PROVE Typed' /\ Apart(c)
  <2> DEFINE days == IF Kind[k.b] = "bereavement" THEN 4 ELSE 0
             y == IF k.found THEN [row[k.b] EXCEPT !.bal = days, !.reset = k.at]
                  ELSE [there |-> TRUE, bal |-> days, used |-> 0, accrual |-> month, reset |-> k.at]
  <2>1. k.pc = "reset" /\ k.b \in Balances /\ UNCHANGED <<gate, snaps, outside, histories>> /\ NextRow(c, k.b)
    BY <1>3, <1>s DEF ResetBalance, At
  <2>2. row' = [row EXCEPT ![k.b] = y]
    BY <1>3, <2>1, RowFits DEF ResetBalance
  <2>3. days \in Nat /\ month \in Months
    BY DEF Typed, OutsideTyped
  <2>4. y \in RowType /\ y.bal >= 0
    <3>1. row[k.b] \in RowType
      BY <2>1, RowFits
    <3> HIDE DEF days
    <3>2. CASE k.found
      <4> DEFINE r == row[k.b]
                 t == k.at
      <4>1. y = [r EXCEPT !.bal = days, !.reset = t] /\ r \in RowType /\ t \in Years
        BY <1>i, <3>1, <3>2
      <4> HIDE DEF y, r, t
      <4>2. y = [there |-> r.there, bal |-> days, used |-> r.used, accrual |-> r.accrual, reset |-> t]
        BY <4>1 DEF RowType
      <4>3. r.there \in BOOLEAN /\ r.used \in Int /\ r.accrual \in Months \cup {0}
        BY <4>1 DEF RowType
      <4>4. y \in RowType
        BY <2>3, <4>1, <4>2, <4>3 DEF RowType
      <4>5. QED
        BY <2>3, <4>2, <4>4
    <3>3. CASE ~k.found
      <4>1. y = [there |-> TRUE, bal |-> days, used |-> 0, accrual |-> month, reset |-> k.at]
        BY <3>3
      <4> HIDE DEF y
      <4>2. QED
        BY <1>i, <2>3, <4>1 DEF RowType
    <3>4. QED
      BY <3>2, <3>3
  <2> HIDE DEF y
  <2>5. RowsTyped'
    BY <2>1, <2>2, <2>4, RowWritten
  <2>6. PICK x : Fits(x) /\ x.pc \in {"idle", "readRow"} /\ call' = [call EXCEPT ![c] = x]
    BY <1>i, <2>1, NextRowFits
  <2>7. CallsTyped' /\ call'[c] = x /\ \A d \in Calls : d # c => call'[d] = call[d]
    BY <2>6, CallBecomes
  <2>8. QED
    BY <1>i, <2>1, <2>5, <2>6, <2>7
       DEF Typed, AccrualTyped, OutsideTyped, outside, histories, Apart, AccrualLabels
<1>4. ASSUME RowFails(c)  PROVE Typed' /\ Apart(c) /\ NoReset(c)
  <2>1. NextRow(c, k.b) /\ UNCHANGED <<row, gate, snaps, outside, histories>>
    BY <1>4 DEF RowFails
  <2>2. PICK x : Fits(x) /\ x.pc \in {"idle", "readRow"} /\ call' = [call EXCEPT ![c] = x]
    BY <1>i, <2>1, NextRowFits
  <2>3. QED
    BY <1>i, <2>1, <2>2, MoveApart DEF AccrualLabels
<1>5. QED
  BY <1>1, <1>2, <1>3, <1>4

\* The steps that belong to no call in progress.
LEMMA OutsideStepTyped ==
  ASSUME Typed,
         \/ \E b \in Balances :
              \/ BulkInit(b)
              \/ \E n \in Credits \cap Nat : AdjustBalance(b, n)
              \/ \E d \in Days : DeductBalance(b, d) \/ RestoreBalance(b, d)
         \/ MonthPasses
  PROVE  /\ Typed' /\ UNCHANGED <<gate, snaps, histories, call>>
         /\ \A b \in Balances : row'[b].reset \in {0, row[b].reset}
<1>c. AccrualTyped /\ CallsTyped /\ OutsideTyped /\ RowsTyped
  BY DEF Typed
\* One row is written, with the reset it had or none.
<1>w. ASSUME NEW b \in Balances, NEW y \in RowType, y.bal >= 0, y.reset \in {0, row[b].reset},
             row' = [row EXCEPT ![b] = y], UNCHANGED <<gate, snaps, month, histories, call>>,
             taken' \in [Balances -> 0..MaxUsed]
      PROVE  Typed' /\ \A a \in Balances : row'[a].reset \in {0, row[a].reset}
  <2>1. RowsTyped' /\ row'[b] = y /\ \A a \in Balances : a # b => row'[a] = row[a]
    BY <1>w, RowWritten
  <2>2. QED
    BY <1>c, <1>w, <2>1 DEF Typed, AccrualTyped, OutsideTyped, CallsTyped, Argued, histories
<1>1. ASSUME NEW b \in Balances, BulkInit(b)
      PROVE  Typed' /\ UNCHANGED <<gate, snaps, histories, call>> /\ \A a \in Balances : row'[a].reset \in {0, row[a].reset}
  <2>1. row' = [row EXCEPT ![b] = NewRow(b)] /\ UNCHANGED <<gate, snaps, outside, histories, call>>
    BY <1>1 DEF BulkInit
  <2>2. taken' \in [Balances -> 0..MaxUsed]
    BY <1>c, <2>1 DEF outside, OutsideTyped
  <2>3. QED
    BY <1>w, <2>1, <2>2, NewRowFits DEF outside
<1>2. ASSUME NEW b \in Balances, NEW n \in Credits \cap Nat, AdjustBalance(b, n)
      PROVE  Typed' /\ UNCHANGED <<gate, snaps, histories, call>> /\ \A a \in Balances : row'[a].reset \in {0, row[a].reset}
  <2> DEFINE w == Capped(b, n)
             y == [row[b] EXCEPT !.bal = w]
  <2>1. row' = [row EXCEPT ![b].bal = w] /\ UNCHANGED <<gate, snaps, outside, histories, call>>
    BY <1>2 DEF AdjustBalance
  <2>2. taken' \in [Balances -> 0..MaxUsed]
    BY <1>c, <2>1 DEF outside, OutsideTyped
  <2>3. w \in Nat
    BY CappedNatural
  <2> HIDE DEF w
  <2>4. y \in RowType /\ y.bal >= 0 /\ y.reset = row[b].reset
    BY <2>3, RowFits DEF RowType
  <2>5. row' = [row EXCEPT ![b] = y]
    BY <2>1, RowFits DEF RowType
  <2> HIDE DEF y
  <2>6. QED
    BY <1>w, <2>1, <2>2, <2>4, <2>5 DEF outside
<1>3. ASSUME NEW b \in Balances, NEW d \in Days, DeductBalance(b, d) \/ RestoreBalance(b, d)
      PROVE  Typed' /\ UNCHANGED <<gate, snaps, histories, call>> /\ \A a \in Balances : row'[a].reset \in {0, row[a].reset}
  <2>1. d \in Nat /\ MaxUsed \in Nat
    BY Constants
  <2>2. row[b] \in RowType /\ row[b].bal \in Int /\ row[b].bal >= 0 /\ row[b].used \in Int
        /\ row \in [Balances -> RowType] /\ taken[b] \in 0..MaxUsed
    BY <1>c, RowFits DEF RowType, OutsideTyped
  <2>3. CASE DeductBalance(b, d)
    <3> DEFINE y == [row[b] EXCEPT !.bal = @ - d, !.used = @ + d]
    <3>1. row[b].bal >= d /\ taken[b] + d <= MaxUsed
          /\ row' = [row EXCEPT ![b].bal = @ - d, ![b].used = @ + d]
          /\ taken' = [taken EXCEPT ![b] = @ + d] /\ UNCHANGED <<gate, snaps, month, histories, call>>
      BY <2>3 DEF DeductBalance
    <3>2. row[b].bal - d \in Int /\ row[b].bal - d >= 0 /\ row[b].used + d \in Int /\ taken[b] + d \in 0..MaxUsed
      BY <2>1, <2>2, <3>1
    <3>3. y \in RowType /\ y.bal >= 0 /\ y.reset = row[b].reset
      BY <2>2, <3>2 DEF RowType
    <3>4. row' = [row EXCEPT ![b] = y]
      BY <2>2, <3>1 DEF RowType
    <3>5. taken' \in [Balances -> 0..MaxUsed]
      BY <1>c, <3>1, <3>2 DEF OutsideTyped
    <3> HIDE DEF y
    <3>6. QED
      BY <1>w, <3>1, <3>3, <3>4, <3>5
  <2>4. CASE RestoreBalance(b, d)
    <3> DEFINE y == [row[b] EXCEPT !.bal = @ + d, !.used = @ - d]
    <3>1. taken[b] >= d /\ row' = [row EXCEPT ![b].bal = @ + d, ![b].used = @ - d]
          /\ taken' = [taken EXCEPT ![b] = @ - d] /\ UNCHANGED <<gate, snaps, month, histories, call>>
      BY <2>4 DEF RestoreBalance
    <3>2. row[b].bal + d \in Int /\ row[b].bal + d >= 0 /\ row[b].used - d \in Int /\ taken[b] - d \in 0..MaxUsed
      BY <2>1, <2>2, <3>1
    <3>3. y \in RowType /\ y.bal >= 0 /\ y.reset = row[b].reset
      BY <2>2, <3>2 DEF RowType
    <3>4. row' = [row EXCEPT ![b] = y]
      BY <2>2, <3>1 DEF RowType
    <3>5. taken' \in [Balances -> 0..MaxUsed]
      BY <1>c, <3>1, <3>2 DEF OutsideTyped
    <3> HIDE DEF y
    <3>6. QED
      BY <1>w, <3>1, <3>3, <3>4, <3>5
  <2>5. QED
    BY <1>3, <2>3, <2>4
<1>4. CASE MonthPasses
  BY <1>c, <1>4 DEF MonthPasses, Typed, RowsTyped, AccrualTyped, OutsideTyped, CallsTyped, Argued, histories
<1>5. QED
  BY <1>1, <1>2, <1>3, <1>4

LEMMA RestartTyped ==
  ASSUME Typed, NEW c \in Calls, Restart(c)
  PROVE  Typed' /\ NoReset(c) /\ call'[c] = NoCall /\ \A d \in Calls : d # c => call'[d] = call[d]
<1>1. call' = [call EXCEPT ![c] = NoCall] /\ UNCHANGED <<row, gate, snaps, outside, credited, due>>
      /\ cut' = IF Accruing(c) THEN cut \cup {call[c].at} ELSE cut
  BY DEF Restart, Return
<1>2. CallsTyped' /\ call'[c] = NoCall /\ \A d \in Calls : d # c => call'[d] = call[d]
  BY <1>1, NoCallFits, CallBecomes
<1>3. Accruing(c) => call[c].at \in Months
  BY CallFits DEF Accruing, Fits, Argued, AccrualLabels
<1>4. cut' \subseteq Months
  BY <1>1, <1>3 DEF Typed, AccrualTyped
<1>5. QED
  BY <1>1, <1>2, <1>4, NoCallFits DEF Typed, RowsTyped, AccrualTyped, OutsideTyped, outside, NoReset

\* Every step is one of these: an accrual starts or goes on, a call does
\* something else, is cut off, or none is concerned.
LEMMA Steps ==
  ASSUME Typed, [Next]_vars
  PROVE  \/ \E c \in Calls : AccrualStart(c)
         \/ \E c \in Calls : EnsureRows(c) \/ ReadBalances(c) \/ UpdateAccrual(c)
         \/ \E c \in Calls : Apart(c) /\ (NoReset(c) \/ SnapshotBalance(c) \/ ResetBalance(c))
         \/ \E c \in Calls : Restart(c)
         \/ /\ UNCHANGED <<gate, snaps, histories, call>>
            /\ \A b \in Balances : row'[b].reset \in {0, row[b].reset}
<1>1. ASSUME NEW c \in Calls, Start(c)
      PROVE  AccrualStart(c) \/ (Apart(c) /\ NoReset(c))
  BY <1>1, StartTyped
<1>2. ASSUME NEW c \in Calls, Continue(c)
      PROVE  \/ EnsureRows(c) \/ ReadBalances(c) \/ UpdateAccrual(c)
             \/ Apart(c) /\ (NoReset(c) \/ SnapshotBalance(c) \/ ResetBalance(c))
  BY <1>2, InitializeTyped, AddTyped, YearEndTyped DEF Continue
<1>3. CASE UNCHANGED vars
  BY <1>3 DEF vars, histories, outside
<1>4. QED
  BY <1>1, <1>2, <1>3, OutsideStepTyped DEF Next

LEMMA InitTyped == Init => Typed
<1> SUFFICES ASSUME Init PROVE Typed
  OBVIOUS
<1>1. PICK old \in SUBSET Legacy : row = [b \in Balances |-> [NoRow EXCEPT !.there = b \in old]]
  BY DEF Init
<1>2. ASSUME NEW b \in Balances
      PROVE  row[b] \in RowType /\ row[b].bal >= 0
  <2>1. row[b] = [there |-> b \in old, bal |-> 0, used |-> 0, accrual |-> 0, reset |-> 0]
    BY <1>1 DEF NoRow
  <2>2. QED
    BY <2>1 DEF RowType
<1>3. row = [b \in Balances |-> row[b]]
  BY <1>1
<1>4. RowsTyped
  BY <1>2, <1>3 DEF RowsTyped
<1>5. call \in [Calls -> CallType] /\ \A c \in Calls : Argued(call[c])
  BY NoCallFits DEF Init, Fits
<1>6. QED
  BY <1>4, <1>5, Constants DEF Init, Typed, AccrualTyped, OutsideTyped, CallsTyped

LEMMA StepTyped == Typed /\ [Next]_vars => Typed'
<1> SUFFICES ASSUME Typed, [Next]_vars PROVE Typed'
  OBVIOUS
<1>1. ASSUME NEW c \in Calls, Start(c) PROVE Typed'
  BY <1>1, StartTyped
<1>2. ASSUME NEW c \in Calls, Continue(c) PROVE Typed'
  BY <1>2, AccrueTyped, InitializeTyped, AddTyped, YearEndTyped DEF Continue
<1>3. ASSUME NEW c \in Calls, Restart(c) PROVE Typed'
  BY <1>3, RestartTyped
<1>4. CASE UNCHANGED vars
  BY <1>4 DEF vars, outside, histories, Typed, RowsTyped, AccrualTyped, OutsideTyped, CallsTyped, Argued
<1>5. QED
  BY <1>1, <1>2, <1>3, <1>4, OutsideStepTyped DEF Next

LEMMA AlwaysTyped == Spec => []Typed
BY InitTyped, StepTyped, PTL DEF Spec

\* The tables and the calls in progress hold values of their types
\* (LeaveService.ts:145-370, 606-753).
THEOREM TypesHold == Spec => []TypeOK
<1>1. Typed => TypeOK
  BY DEF Typed, RowsTyped, AccrualTyped, OutsideTyped, CallsTyped, RowType, CallType, TypeOK
<1>2. QED
  BY <1>1, AlwaysTyped, PTL

\* Whatever stale reads the accruals, credits, debits and resets write from, no
\* balance is ever negative (LeaveService.ts:281-284, 678; LeaveRepository.ts:312).
THEOREM NeverNegative == Spec => []BalanceNotNegative
<1>1. Typed => BalanceNotNegative
  BY DEF Typed, RowsTyped, BalanceNotNegative
<1>2. QED
  BY <1>1, AlwaysTyped, PTL
-----------------------------------------------------------------------------
(* No row is reset before its snapshot is kept.                            *)

\* A call about to reset a row has kept its snapshot.
Snapped ==
  /\ \A b \in Balances : row[b].reset # 0 => row[b].reset \in snaps[b]
  /\ \A c \in Calls : call[c].pc = "reset" => call[c].at \in snaps[call[c].b]

\* Snapshots are only added, and no row is reset but as the step says.
LEMMA SnappedStep == Typed /\ Snapped /\ [Next]_vars => Snapped'
<1> SUFFICES ASSUME Typed, Snapped, [Next]_vars PROVE Snapped'
  OBVIOUS
<1>k. \A c \in Calls : call[c].pc = "reset" => call[c].b \in Balances /\ call[c].at \in Years
  BY CallFits DEF Fits, Argued, YearEndLabels
<1>1. ASSUME NEW c \in Calls, NoReset(c), \A d \in Calls : d # c => call'[d] = call[d]
      PROVE  Snapped'
  BY <1>1 DEF NoReset, Snapped
<1>2. ASSUME NEW c \in Calls, SnapshotBalance(c), \A d \in Calls : d # c => call'[d] = call[d]
      PROVE  Snapped'
  <2> DEFINE k == call[c]
  <2>1. k.pc = "snapshot" /\ k.b \in Balances /\ k \in CallType /\ call \in [Calls -> CallType]
    BY <1>2, CallFits DEF SnapshotBalance, At, Fits, Argued
  <2>2. snaps' = [snaps EXCEPT ![k.b] = @ \cup {k.at}] /\ row' = row /\ call' = [call EXCEPT ![c].pc = "reset"]
    BY <1>2 DEF SnapshotBalance, Goto
  <2>3. k.at \in snaps'[k.b] /\ \A b \in Balances : snaps[b] \subseteq snaps'[b]
    BY <2>1, <2>2 DEF Typed, OutsideTyped
  <2>4. call'[c].b = k.b /\ call'[c].at = k.at
    BY <2>1, <2>2 DEF CallType
  <2>5. \A d \in Calls : d # c /\ call[d].pc = "reset" => call[d].at \in snaps'[call[d].b]
    BY <1>k, <2>3 DEF Snapped
  <2>6. QED
    BY <1>2, <2>2, <2>3, <2>4, <2>5 DEF Snapped
<1>3. ASSUME NEW c \in Calls, ResetBalance(c), \A d \in Calls : d # c => call'[d] = call[d]
      PROVE  Snapped'
  <2> DEFINE k == call[c]
  <2>1. k.pc = "reset" /\ k.b \in Balances /\ k.at \in Years /\ k.at \in snaps[k.b] /\ snaps' = snaps
    BY <1>3, <1>k DEF ResetBalance, At, Snapped
  <2>2. row'[k.b].reset = k.at /\ \A b \in Balances : b # k.b => row'[b] = row[b]
    <3> DEFINE days == IF Kind[k.b] = "bereavement" THEN 4 ELSE 0
               y == IF k.found THEN [row[k.b] EXCEPT !.bal = days, !.reset = k.at]
                    ELSE [there |-> TRUE, bal |-> days, used |-> 0, accrual |-> month, reset |-> k.at]
    <3>1. row \in [Balances -> RowType] /\ row[k.b] \in RowType
      BY <2>1, RowFits
    <3>2. row' = [row EXCEPT ![k.b] = y]
      BY <1>3, <2>1, <3>1 DEF ResetBalance
    <3>3. y.reset = k.at
      BY <3>1 DEF RowType
    <3> HIDE DEF y
    <3>4. QED
      BY <2>1, <3>1, <3>2, <3>3
  <2>3. call'[c].pc # "reset"
    <3>1. PICK x : Fits(x) /\ x.pc \in {"idle", "readRow"} /\ call' = [call EXCEPT ![c] = x]
      BY <1>3, <2>1, NextRowFits DEF ResetBalance, YearEndLabels
    <3>2. QED
      BY <3>1, CallBecomes
  <2>4. QED
    BY <1>3, <2>1, <2>2, <2>3 DEF Snapped
<1>4. ASSUME NEW c \in Calls, AccrualStart(c)
      PROVE  Snapped'
  <2> DEFINE x == [NoCall EXCEPT !.pc = "ensureRows", !.at = month]
  <2>1. row' = row /\ snaps' = snaps /\ call' = [call EXCEPT ![c] = x]
    BY <1>4 DEF AccrualStart, Begin
  <2>2. x.pc = "ensureRows"
    BY DEF NoCall
  <2> HIDE DEF x
  <2>3. call'[c] = x /\ \A d \in Calls : d # c => call'[d] = call[d]
    BY <2>1, CallFits
  <2>4. QED
    BY <2>1, <2>2, <2>3 DEF Snapped
<1>5. CASE UNCHANGED <<snaps, call>> /\ \A b \in Balances : row'[b].reset \in {0, row[b].reset}
  BY <1>5 DEF Snapped
<1>6. QED
  BY <1>1, <1>2, <1>3, <1>4, <1>5, Steps, AccrueTyped, RestartTyped DEF Apart

\* A balance is not reset for a year before its snapshot for that year is kept
\* (LeaveService.ts:741-742).
THEOREM SnapshotsFirst == Spec => []SnapshotBeforeReset
<1>1. Init => Snapped
  <2> SUFFICES ASSUME Init PROVE Snapped
    OBVIOUS
  <2>1. \A b \in Balances : row[b].reset = 0
    BY DEF Init, NoRow
  <2>2. \A c \in Calls : call[c].pc = "idle"
    BY NoCallFits DEF Init
  <2>3. QED
    BY <2>1, <2>2 DEF Snapped
<1>2. Snapped => SnapshotBeforeReset
  BY DEF Snapped, SnapshotBeforeReset
<1>3. QED
  BY <1>1, <1>2, SnappedStep, AlwaysTyped, PTL DEF Spec

-----------------------------------------------------------------------------
(* The accruals: who is credited, who is still owed.                       *)

\* Only the call that put a month behind the gate accrues it.
Gated ==
  /\ \A c \in Calls : Accruing(c) => call[c].at \in gate
  /\ \A c, d \in Calls : c # d /\ Accruing(c) /\ Accruing(d) => call[c].at # call[d].at
  /\ \A b \in Balances, m \in Months \ gate : credited[b][m] = 0

\* The accrual at hand has its credit of row b before it.
Before(c, b) ==
  call[c].pc \in {"ensureRows", "readBalances"} \/ (call[c].pc = "updateAccrual" /\ b \in call[c].todo)
OnceCredited ==
  /\ \A b \in Balances, m \in Months : credited[b][m] <= 1
  /\ \A c \in Calls, b \in Balances : Before(c, b) => credited[b][call[c].at] = 0

\* What a month's accrual owes is on the list of the call that makes it.
Owing(c, m) ==
  /\ Accruing(c) /\ call[c].at = m
  /\ call[c].pc = "updateAccrual" => due[m] \subseteq call[c].todo
Followed == \A m \in gate \ cut : due[m] = {} \/ \E c \in Calls : Owing(c, m)

Accrual == Gated /\ OnceCredited /\ Followed

\* What the first statement of an accrual does.
LEMMA StartMoves ==
  ASSUME Typed, NEW c \in Calls, AccrualStart(c)
  PROVE  /\ month \in Months \ gate /\ gate' = gate \cup {month} /\ UNCHANGED <<credited, cut>>
         /\ \A m \in Months : m # month => due'[m] = due[m]
         /\ ~Accruing(c) /\ call'[c].pc = "ensureRows" /\ call'[c].at = month
         /\ \A d \in Calls : d # c => call'[d] = call[d]
<1> DEFINE x == [NoCall EXCEPT !.pc = "ensureRows", !.at = month]
<1>1. /\ month \in Months \ gate /\ gate' = gate \cup {month} /\ UNCHANGED <<credited, cut>>
      /\ due' = [due EXCEPT ![month] = Owed(month)]
      /\ call[c].pc = "idle" /\ call' = [call EXCEPT ![c] = x]
  BY DEF AccrualStart, Begin, At
<1>2. x.pc = "ensureRows" /\ x.at = month
  BY DEF NoCall
<1> HIDE DEF x
<1>3. call'[c] = x /\ \A d \in Calls : d # c => call'[d] = call[d]
  BY <1>1, CallFits
<1>4. \A m \in Months : m # month => due'[m] = due[m]
  BY <1>1 DEF Typed, AccrualTyped
<1>5. QED
  BY <1>1, <1>2, <1>3, <1>4 DEF Accruing

LEMMA EnsureMoves ==
  ASSUME Typed, NEW c \in Calls, EnsureRows(c)
  PROVE  /\ UNCHANGED <<gate, credited, due, cut>> /\ call[c].pc = "ensureRows" /\ call[c].at \in Months
         /\ call'[c].pc = "readBalances" /\ call'[c].at = call[c].at
<1>1. call' = [call EXCEPT ![c].pc = "readBalances"] /\ call[c].pc = "ensureRows" /\ UNCHANGED <<gate, histories, cut>>
  BY DEF EnsureRows, Goto, At, histories
<1>2. call \in [Calls -> CallType] /\ call[c] \in CallType /\ Argued(call[c])
  BY CallFits DEF Fits
<1>3. QED
  BY <1>1, <1>2 DEF CallType, Argued, AccrualLabels, histories

LEMMA ReadMoves ==
  ASSUME Typed, NEW c \in Calls, ReadBalances(c)
  PROVE  /\ UNCHANGED <<gate, credited, cut>> /\ call[c].pc = "readBalances" /\ call[c].at \in Months
         /\ \A m \in Months : m # call[c].at => due'[m] = due[m]
         /\ \/ call'[c].pc = "idle" /\ due'[call[c].at] = {}
            \/ /\ call'[c].pc = "updateAccrual" /\ call'[c].at = call[c].at
               /\ due'[call[c].at] \subseteq call'[c].todo
<1> DEFINE k == call[c]
           T == Owed(k.at)
           N == [b \in Balances |-> IF b \in T THEN Accrued(b) ELSE 0]
<1>1. call \in [Calls -> CallType] /\ k \in CallType /\ Argued(k)
  BY CallFits DEF Fits
<1>2. k.pc = "readBalances" /\ k.at \in Months /\ UNCHANGED <<gate, credited, cut>>
  BY <1>1 DEF ReadBalances, At, Argued, AccrualLabels
<1>3. due' = [due EXCEPT ![k.at] = @ \cap T]
  BY DEF ReadBalances
<1>4. due'[k.at] = due[k.at] \cap T /\ \A m \in Months : m # k.at => due'[m] = due[m]
  BY <1>2, <1>3 DEF Typed, AccrualTyped
<1>5. \/ T = {} /\ call' = [call EXCEPT ![c] = NoCall]
      \/ call' = [call EXCEPT ![c].pc = "updateAccrual", ![c].todo = T, ![c].nb = N]
  BY DEF ReadBalances, Return
<1> HIDE DEF T, N
<1>6. CASE T = {} /\ call' = [call EXCEPT ![c] = NoCall]
  BY <1>1, <1>2, <1>4, <1>6, NoCallFits
<1>7. CASE call' = [call EXCEPT ![c].pc = "updateAccrual", ![c].todo = T, ![c].nb = N]
  <2>1. call'[c].pc = "updateAccrual" /\ call'[c].at = k.at /\ call'[c].todo = T
    BY <1>1, <1>7 DEF CallType
  <2>2. QED
    BY <1>2, <1>4, <2>1
<1>8. QED
  BY <1>5, <1>6, <1>7

LEMMA UpdateMoves ==
  ASSUME Typed, NEW c \in Calls, UpdateAccrual(c)
  PROVE  /\ UNCHANGED <<gate, cut>> /\ call[c].pc = "updateAccrual" /\ call[c].at \in Months
         /\ \E b \in call[c].todo :
              /\ b \in Balances
              /\ credited'[b][call[c].at] = credited[b][call[c].at] + 1
              /\ \A a \in Balances, m \in Months :
                   a # b \/ m # call[c].at => credited'[a][m] = credited[a][m]
              /\ due'[call[c].at] = due[call[c].at] \ {b}
              /\ \A m \in Months : m # call[c].at => due'[m] = due[m]
              /\ \/ call'[c].pc = "idle" /\ call[c].todo = {b}
                 \/ /\ call'[c].pc = "updateAccrual" /\ call'[c].at = call[c].at
                    /\ call'[c].todo = call[c].todo \ {b}
<1> DEFINE k == call[c]
           t == k.at
<1>1. call \in [Calls -> CallType] /\ k \in CallType /\ Argued(k)
  BY CallFits DEF Fits
<1>2. k.pc = "updateAccrual" /\ t \in Months /\ UNCHANGED <<gate, cut>>
  BY <1>1 DEF UpdateAccrual, At, Argued, AccrualLabels
<1>3. PICK b \in k.todo :
        /\ credited' = [credited EXCEPT ![b][t] = @ + 1] /\ due' = [due EXCEPT ![t] = @ \ {b}]
        /\ IF k.todo = {b} THEN Return(c) ELSE call' = [call EXCEPT ![c].todo = @ \ {b}]
  BY DEF UpdateAccrual
<1>4. b \in Balances
  BY <1>1, <1>3 DEF CallType
<1>5. \/ call'[c].pc = "idle" /\ k.todo = {b}
      \/ call'[c].pc = "updateAccrual" /\ call'[c].at = k.at /\ call'[c].todo = k.todo \ {b}
  <2>1. CASE k.todo = {b}
    BY <1>1, <1>3, <2>1, NoCallFits DEF Return
  <2>2. CASE k.todo # {b}
    BY <1>1, <1>2, <1>3, <2>2 DEF CallType
  <2>3. QED
    BY <2>1, <2>2
<1> HIDE DEF t
<1>6. /\ credited'[b][t] = credited[b][t] + 1
      /\ \A a \in Balances, m \in Months : a # b \/ m # t => credited'[a][m] = credited[a][m]
  BY <1>2, <1>3, <1>4 DEF Typed, AccrualTyped
<1>7. due'[t] = due[t] \ {b} /\ \A m \in Months : m # t => due'[m] = due[m]
  BY <1>2, <1>3 DEF Typed, AccrualTyped
<1>8. QED
  BY <1>2, <1>3, <1>4, <1>5, <1>6, <1>7 DEF t

LEMMA AtMonth ==
  ASSUME Typed, NEW c \in Calls, Accruing(c)
  PROVE  call[c].at \in Months
BY CallFits DEF Accruing, Fits, Argued, AccrualLabels

\* A step of one call: the accruals of the others are as they were.
LEMMA GatedStep == Typed /\ Gated /\ [Next]_vars => Gated'
<1> SUFFICES ASSUME Typed, Gated, [Next]_vars PROVE Gated'
  OBVIOUS
\* One that begins no accrual, and credits only behind the gate.
<1>s. ASSUME NEW c \in Calls, gate' = gate, \A d \in Calls : d # c => call'[d] = call[d],
             (Accruing(c))' => Accruing(c) /\ call'[c].at = call[c].at,
             \A b \in Balances, m \in Months \ gate : credited'[b][m] = credited[b][m]
      PROVE  Gated'
  <2>1. \A d \in Calls : (Accruing(d))' => Accruing(d) /\ call'[d].at = call[d].at
    BY <1>s DEF Accruing
  <2>2. QED
    BY <1>s, <2>1 DEF Gated
<1>1. ASSUME NEW c \in Calls, AccrualStart(c) PROVE Gated'
  <2>1. /\ month \in Months \ gate /\ gate' = gate \cup {month} /\ UNCHANGED <<credited, cut>>
        /\ call'[c].at = month /\ \A d \in Calls : d # c => call'[d] = call[d]
    BY <1>1, StartMoves
  <2>2. \A d \in Calls : d # c /\ (Accruing(d))' => call'[d].at = call[d].at /\ call[d].at \in gate /\ Accruing(d)
    BY <2>1 DEF Accruing, Gated
  <2>3. \A d \in Calls : d # c /\ (Accruing(d))' => call'[d].at # month
    BY <2>1, <2>2
  <2>4. \A d, e \in Calls : d # e /\ (Accruing(d))' /\ (Accruing(e))' => call'[d].at # call'[e].at
    BY <2>1, <2>2, <2>3 DEF Gated
  <2>5. \A d \in Calls : (Accruing(d))' => call'[d].at \in gate'
    BY <2>1, <2>2
  <2>6. \A b \in Balances, m \in Months \ gate' : credited'[b][m] = 0
    BY <2>1 DEF Gated
  <2>7. QED
    BY <2>4, <2>5, <2>6 DEF Gated
<1>2. ASSUME NEW c \in Calls, EnsureRows(c) PROVE Gated'
  BY <1>2, <1>s, EnsureMoves, AccrueTyped DEF Accruing
<1>3. ASSUME NEW c \in Calls, ReadBalances(c) PROVE Gated'
  BY <1>3, <1>s, ReadMoves, AccrueTyped DEF Accruing
<1>4. ASSUME NEW c \in Calls, UpdateAccrual(c) PROVE Gated'
  <2>1. Accruing(c) /\ call[c].at \in gate
    BY <1>4, UpdateMoves DEF Accruing, Gated
  <2>2. \A b \in Balances, m \in Months \ gate : credited'[b][m] = credited[b][m]
    BY <1>4, <2>1, UpdateMoves
  <2>3. QED
    BY <1>4, <1>s, <2>1, <2>2, UpdateMoves, AccrueTyped DEF Accruing
<1>5. ASSUME NEW c \in Calls, Apart(c) PROVE Gated'
  BY <1>5, <1>s DEF Apart, Accruing, AccrualLabels
<1>6. ASSUME NEW c \in Calls, Restart(c) PROVE Gated'
  <2>1. gate' = gate /\ credited' = credited
    BY <1>6 DEF Restart
  <2>2. QED
    BY <1>6, <1>s, <2>1, RestartTyped, NoCallFits DEF Accruing
<1>7. CASE UNCHANGED <<gate, histories, call>>
  BY <1>7 DEF Gated, Accruing, histories
<1>8. QED
  BY <1>1, <1>2, <1>3, <1>4, <1>5, <1>6, <1>7, Steps

\* A credit is made by the one call that accrues the month, once for each row
\* on its list.
LEMMA OnceCreditedStep == Typed /\ Gated /\ OnceCredited /\ [Next]_vars => OnceCredited'
<1> SUFFICES ASSUME Typed, Gated, OnceCredited, [Next]_vars PROVE OnceCredited'
  OBVIOUS
<1>s. ASSUME NEW c \in Calls, credited' = credited, \A d \in Calls : d # c => call'[d] = call[d],
             \A b \in Balances : Before(c, b)' => credited[b][call'[c].at] = 0
      PROVE  OnceCredited'
  <2>1. \A d \in Calls, b \in Balances : d # c /\ Before(d, b)' => Before(d, b) /\ call'[d].at = call[d].at
    BY <1>s DEF Before
  <2>2. QED
    BY <1>s, <2>1 DEF OnceCredited
<1>1. ASSUME NEW c \in Calls, AccrualStart(c) PROVE OnceCredited'
  BY <1>1, <1>s, StartMoves DEF Gated
<1>2. ASSUME NEW c \in Calls, EnsureRows(c) PROVE OnceCredited'
  <2>1. \A b \in Balances : credited[b][call[c].at] = 0
    BY <1>2, EnsureMoves DEF OnceCredited, Before
  <2>2. QED
    BY <1>2, <1>s, <2>1, EnsureMoves, AccrueTyped
<1>3. ASSUME NEW c \in Calls, ReadBalances(c) PROVE OnceCredited'
  <2>1. \A b \in Balances : credited[b][call[c].at] = 0
    BY <1>3, ReadMoves DEF OnceCredited, Before
  <2>2. \A b \in Balances : Before(c, b)' => call'[c].at = call[c].at
    BY <1>3, ReadMoves DEF Before
  <2>3. QED
    BY <1>3, <1>s, <2>1, <2>2, ReadMoves, AccrueTyped
<1>4. ASSUME NEW c \in Calls, UpdateAccrual(c) PROVE OnceCredited'
  <2> DEFINE t == call[c].at
             todo == call[c].todo
  <2>1. call[c].pc = "updateAccrual" /\ t \in Months /\ \A d \in Calls : d # c => call'[d] = call[d]
    BY <1>4, UpdateMoves, AccrueTyped
  <2>2. PICK b \in todo :
          /\ b \in Balances /\ credited'[b][t] = credited[b][t] + 1
          /\ \A a \in Balances, m \in Months : a # b \/ m # t => credited'[a][m] = credited[a][m]
          /\ \/ call'[c].pc = "idle" /\ todo = {b}
             \/ call'[c].pc = "updateAccrual" /\ call'[c].at = t /\ call'[c].todo = todo \ {b}
    BY <1>4, UpdateMoves
  <2>3. credited[b][t] = 0
    BY <2>1, <2>2 DEF OnceCredited, Before
  <2>4. \A a \in Balances, m \in Months : credited'[a][m] <= 1
    <3>1. ASSUME NEW a \in Balances, NEW m \in Months
          PROVE  credited'[a][m] <= 1
      <4>1. CASE a = b /\ m = t
        BY <2>2, <2>3, <4>1
      <4>2. CASE a # b \/ m # t
        BY <2>2, <4>2 DEF OnceCredited
      <4>3. QED
        BY <4>1, <4>2
    <3>2. QED
      BY <3>1
  <2>5. \A a \in Balances : Before(c, a)' => credited'[a][call'[c].at] = 0
    <3>1. ASSUME NEW a \in Balances, Before(c, a)'
          PROVE  credited'[a][call'[c].at] = 0
      <4>1. call'[c].at = t /\ a \in todo \ {b}
        BY <2>2, <3>1 DEF Before
      <4>2. credited[a][t] = 0
        BY <2>1, <4>1 DEF OnceCredited, Before
      <4>3. QED
        BY <2>1, <2>2, <4>1, <4>2
    <3>2. QED
      BY <3>1
  <2>6. \A d \in Calls, a \in Balances : d # c /\ Before(d, a)' => credited'[a][call'[d].at] = 0
    <3>1. ASSUME NEW d \in Calls, NEW a \in Balances, d # c, Before(d, a)'
          PROVE  credited'[a][call'[d].at] = 0
      <4>1. call'[d] = call[d] /\ Before(d, a) /\ Accruing(d) /\ Accruing(c)
        BY <2>1, <3>1 DEF Before, Accruing
      <4>2. call[d].at # t /\ call[d].at \in Months /\ credited[a][call[d].at] = 0
        BY <3>1, <4>1, AtMonth DEF Gated, OnceCredited
      <4>3. QED
        BY <2>2, <4>1, <4>2
    <3>2. QED
      BY <3>1
  <2>7. QED
    BY <2>4, <2>5, <2>6 DEF OnceCredited
<1>5. ASSUME NEW c \in Calls, Apart(c) PROVE OnceCredited'
  BY <1>5, <1>s DEF Apart, Before, AccrualLabels
<1>6. ASSUME NEW c \in Calls, Restart(c) PROVE OnceCredited'
  <2>1. credited' = credited
    BY <1>6 DEF Restart
  <2>2. QED
    BY <1>6, <1>s, <2>1, RestartTyped, NoCallFits DEF Before
<1>7. CASE UNCHANGED <<histories, call>>
  BY <1>7 DEF OnceCredited, Before, histories
<1>8. QED
  BY <1>1, <1>2, <1>3, <1>4, <1>5, <1>6, <1>7, Steps

\* A month's accrual takes on what it owes when it reads the balances, strikes
\* off a row with its credit, and ends with an empty list or in cut.
LEMMA FollowedStep == Typed /\ Gated /\ Followed /\ [Next]_vars => Followed'
<1> SUFFICES ASSUME Typed, Gated, Followed, [Next]_vars PROVE Followed'
  OBVIOUS
\* c writes what the month it accrues owes, and no other.
<1>s. ASSUME NEW c \in Calls, NEW t \in Months, gate' \subseteq gate \cup {t}, cut \subseteq cut',
             \A d \in Calls : d # c => call'[d] = call[d],
             \A m \in Months : m # t => due'[m] = due[m],
             Accruing(c) => call[c].at = t,
             t \in cut' \/ due'[t] = {} \/ Owing(c, t)'
      PROVE  Followed'
  <2>1. SUFFICES ASSUME NEW m \in gate' \ cut'
                 PROVE  due'[m] = {} \/ \E d \in Calls : Owing(d, m)'
    BY DEF Followed
  <2>2. CASE m = t
    BY <1>s, <2>1, <2>2
  <2>3. CASE m # t
    <3>1. m \in gate \ cut /\ m \in Months /\ due'[m] = due[m]
      BY <1>s, <2>1, <2>3 DEF Typed, AccrualTyped
    <3>2. ASSUME NEW d \in Calls, Owing(d, m)
          PROVE  Owing(d, m)'
      <4>1. d # c
        BY <1>s, <2>3, <3>2 DEF Owing
      <4>2. QED
        BY <1>s, <3>1, <3>2, <4>1 DEF Owing, Accruing
    <3>3. QED
      BY <3>1, <3>2 DEF Followed
  <2>4. QED
    BY <2>2, <2>3
\* No accrual is concerned.
<1>u. ASSUME UNCHANGED <<gate, due, cut>>, \A d \in Calls : Accruing(d) => call'[d] = call[d]
      PROVE  Followed'
  BY <1>u DEF Followed, Owing, Accruing
<1>1. ASSUME NEW c \in Calls, AccrualStart(c) PROVE Followed'
  <2>1. PICK t \in Months : t = month
    BY <1>1, StartMoves
  <2>2. Owing(c, t)'
    BY <1>1, <2>1, StartMoves DEF Owing, Accruing
  <2>3. QED
    BY <1>1, <1>s, <2>1, <2>2, StartMoves
<1>2. ASSUME NEW c \in Calls, EnsureRows(c) PROVE Followed'
  <2>1. PICK t \in Months : t = call[c].at
    BY <1>2, EnsureMoves
  <2>2. Owing(c, t)'
    BY <1>2, <2>1, EnsureMoves DEF Owing, Accruing
  <2>3. QED
    BY <1>2, <1>s, <2>1, <2>2, EnsureMoves, AccrueTyped
<1>3. ASSUME NEW c \in Calls, ReadBalances(c) PROVE Followed'
  <2>1. PICK t \in Months : t = call[c].at
    BY <1>3, ReadMoves
  <2>2. due'[t] = {} \/ Owing(c, t)'
    BY <1>3, <2>1, ReadMoves DEF Owing, Accruing
  <2>3. QED
    BY <1>3, <1>s, <2>1, <2>2, ReadMoves, AccrueTyped
<1>4. ASSUME NEW c \in Calls, UpdateAccrual(c) PROVE Followed'
  <2>t. PICK t \in Months : t = call[c].at
    BY <1>4, UpdateMoves
  <2>1. call[c].pc = "updateAccrual" /\ UNCHANGED <<gate, cut>> /\ Accruing(c)
        /\ \A d \in Calls : d # c => call'[d] = call[d]
    BY <1>4, UpdateMoves, AccrueTyped DEF Accruing
  <2>2. \A m \in Months : m # t => due'[m] = due[m]
    BY <1>4, <2>t, UpdateMoves
  <2>3. CASE t \in cut
    BY <1>s, <2>t, <2>1, <2>2, <2>3
  <2>4. CASE t \notin cut
    <3>1. t \in gate
      BY <2>t, <2>1 DEF Gated
    <3>2. due[t] = {} \/ due[t] \subseteq call[c].todo
      BY <2>t, <2>1, <2>4, <3>1 DEF Followed, Owing, Gated
    <3>3. due'[t] = {} \/ Owing(c, t)'
      BY <1>4, <2>t, <3>2, UpdateMoves DEF Owing, Accruing
    <3>4. QED
      BY <1>s, <2>t, <2>1, <2>2, <3>3
  <2>5. QED
    BY <2>3, <2>4
<1>5. ASSUME NEW c \in Calls, Apart(c) PROVE Followed'
  BY <1>5, <1>u DEF Apart
<1>6. ASSUME NEW c \in Calls, Restart(c) PROVE Followed'
  <2>1. UNCHANGED <<gate, due>> /\ cut' = IF Accruing(c) THEN cut \cup {call[c].at} ELSE cut
    BY <1>6 DEF Restart
  <2>2. \A d \in Calls : d # c => call'[d] = call[d]
    BY <1>6, RestartTyped
  <2>3. CASE Accruing(c)
    BY <1>s, <2>1, <2>2, <2>3, AtMonth
  <2>4. CASE ~Accruing(c)
    BY <1>u, <2>1, <2>2, <2>4
  <2>5. QED
    BY <2>3, <2>4
<1>7. CASE UNCHANGED <<gate, histories, call>>
  BY <1>7, <1>u DEF histories
<1>8. QED
  BY <1>1, <1>2, <1>3, <1>4, <1>5, <1>6, <1>7, Steps

LEMMA AlwaysAccrual == Spec => []Accrual
<1>1. Init => Accrual
  <2> SUFFICES ASSUME Init PROVE Accrual
    OBVIOUS
  <2>1. \A c \in Calls : call[c].pc = "idle"
    BY NoCallFits DEF Init
  <2>2. gate = {} /\ \A b \in Balances, m \in Months : credited[b][m] = 0
    BY DEF Init
  <2>3. QED
    BY <2>1, <2>2 DEF Accrual, Gated, OnceCredited, Followed, Accruing, Before
<1>2. Typed /\ Accrual /\ [Next]_vars => Accrual'
  BY GatedStep, OnceCreditedStep, FollowedStep DEF Accrual
<1>3. QED
  BY <1>1, <1>2, AlwaysTyped, PTL DEF Spec

\* A month is credited to a row at most once, however many calls start its
\* accrual and wherever a restart cuts one off (LeaveService.ts:267-268, 310-319).
THEOREM CreditedOnce == Spec => []CreditedOncePerMonth
<1>1. Accrual => CreditedOncePerMonth
  BY DEF Accrual, OnceCredited, CreditedOncePerMonth
<1>2. QED
  BY <1>1, AlwaysAccrual, PTL

\* An accrual that is over and was not cut off owes nobody a credit
\* (LeaveService.ts:269-308; app.ts:207).
THEOREM NobodyForgotten == Spec => []AccrualComplete
<1>1. Accrual => AccrualComplete
  BY DEF Accrual, Followed, Owing, AccrualComplete
<1>2. QED
  BY <1>1, AlwaysAccrual, PTL

=============================================================================
