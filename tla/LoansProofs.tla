---------------------------- MODULE LoansProofs ----------------------------
(* Theorems about Loans, for every set of applications, amounts and calls, *)
(* and any number of records, payments and crashes.                        *)
EXTENDS Loans, FiniteSetTheorems, TLAPS

\* What the record of a call holds at each of its statements.
Argued(k) ==
  /\ k.pc \in {"setApproved", "createRecord", "setRejected"} => k.a \in Applications
  /\ k.pc \in {"updateRecord", "insertPayment", "bookPayment"} => k.r \in Records

\* Ids are given out one after the other, and payments to records only.
InOrder ==
  /\ \E n \in 0..MaxRecords : \A r \in Records : rec[r].status # "none" <=> r <= n
  /\ \A r \in Records : rec[r].status = "none" => rows[r].n = 0

WellTyped == TypeOK /\ (\A c \in Calls : Argued(call[c])) /\ InOrder

\* The only call that changes is c, and it is well formed afterwards.
OnlyCall(c) ==
  /\ call' \in [Calls -> CallRecord]
  /\ \A d \in Calls : d # c => call'[d] = call[d]
  /\ Argued(call'[c])

TablesTyped ==
  /\ app' \in [Applications -> {"none", "pending", "approved", "rejected"}]
  /\ rec' \in [Records -> LoanRecord]
  /\ rows' \in [Records -> [n : Nat, sum : Nat]]
  /\ amended' \subseteq Records
  /\ failed' \subseteq Applications \cup Records /\ crashes' \in Nat
  /\ InOrder'

-----------------------------------------------------------------------------
(* The arithmetic and the INSERT of a record.                              *)

\* A balance is cut off at zero.
LEMMA BalanceIsNat == \A n \in Int : NonNegative(n) \in Nat
BY DEF NonNegative

\* The balance of a loan some months of which are deducted.
LEMMA BalanceTyped == \A total, ded, months \in Nat : NonNegative(total - ded * months) \in Nat
<1> SUFFICES ASSUME NEW total \in Nat, NEW ded \in Nat, NEW months \in Nat
             PROVE  NonNegative(total - ded * months) \in Nat
  OBVIOUS
<1>1. ded * months \in Int
  OBVIOUS
<1> HIDE DEF NonNegative
<1>2. total - ded * months \in Int
  BY <1>1
<1>3. QED
  BY <1>2, BalanceIsNat

\* The next id is that of a record nobody has inserted.
LEMMA NextIdFresh ==
  ASSUME TypeOK, InOrder
  PROVE  NextId \in Records =>
           /\ rec[NextId].status = "none"
           /\ \A r \in Records : rec[r].status # "none" <=> r < NextId
<1>1. PICK n \in 0..MaxRecords : \A r \in Records : rec[r].status # "none" <=> r <= n
  BY DEF InOrder
<1>2. {r \in Records : rec[r].status # "none"} = 1..n
  BY <1>1, LoanConstants DEF Records
<1>3. n \in Nat /\ 1 \in Int
  BY LoanConstants
<1>4. Cardinality(1..n) = n
  BY <1>3, FS_Interval
<1>5. NextId = 1 + n
  BY <1>2, <1>4 DEF NextId
<1>6. QED
  BY <1>1, <1>3, <1>5, LoanConstants DEF Records

\* What an INSERT of a loan does: one row that was not there is there, with its
\* opening balance.
OpeningBalance(x) == NonNegative(x.total - x.ded * x.months)
Opened(n, of) ==
  /\ rec[n].status = "none" /\ rec'[n].status = "active" /\ rec'[n].of = of
  /\ rec'[n].outstanding = OpeningBalance(rec'[n])
  /\ \A r \in Records : r # n => rec'[r] = rec[r]

LEMMA InsertTyped ==
  ASSUME TypeOK, InOrder, UNCHANGED rows,
         NEW of \in Applications \cup {NoApplication}, InsertRecord(of)
  PROVE  rec' \in [Records -> LoanRecord] /\ InOrder' /\ \E n \in Records : Opened(n, of)
<1>1. PICK total \in Totals, ded \in Deductions, tenure \in Tenures, months \in 0..1 :
        rec' = [rec EXCEPT ![NextId] =
                  [status |-> "active", of |-> of, total |-> total, ded |-> ded, tenure |-> tenure,
                   months |-> months, outstanding |-> NonNegative(total - ded * months)]]
  BY DEF InsertRecord
<1> DEFINE balance == NonNegative(total - ded * months)
<1>2. total \in Nat /\ ded \in Nat /\ tenure \in Nat /\ months \in Nat
  BY LoanConstants
<1>3. balance \in Nat
  BY <1>2, BalanceTyped
<1> HIDE DEF balance
<1> DEFINE x == [status |-> "active", of |-> of, total |-> total, ded |-> ded, tenure |-> tenure,
                 months |-> months, outstanding |-> balance]
<1>4. x \in LoanRecord /\ x.status = "active" /\ x.of = of /\ x.outstanding = OpeningBalance(x)
  <2>1. x \in LoanRecord /\ x.status = "active" /\ x.of = of
    BY <1>2, <1>3 DEF LoanRecord, RecordStatuses
  <2>2. x.outstanding = balance /\ x.total = total /\ x.ded = ded /\ x.months = months
    OBVIOUS
  <2> HIDE DEF x
  <2>3. QED
    BY <2>1, <2>2 DEF balance, OpeningBalance
<1>5. rec' = [rec EXCEPT ![NextId] = x]
  BY <1>1 DEF balance
<1> HIDE DEF x
<1>6. NextId \in Records /\ rec \in [Records -> LoanRecord]
  BY DEF InsertRecord, TypeOK
<1>7. rec' \in [Records -> LoanRecord]
  BY <1>4, <1>5, <1>6
<1>8. Opened(NextId, of)
  BY <1>4, <1>5, <1>6, NextIdFresh DEF Opened
<1>9. NextId \in 0..MaxRecords /\ \A r \in Records : rec'[r].status # "none" <=> r <= NextId
  <2>1. \A r \in Records : rec[r].status # "none" <=> r < NextId
    BY <1>6, NextIdFresh
  <2>2. \A r \in Records : r <= NextId <=> (r < NextId \/ r = NextId)
    BY <1>6, LoanConstants DEF Records
  <2>3. QED
    BY <1>6, <1>8, <2>1, <2>2, LoanConstants DEF Opened, Records
<1>10. \A r \in Records : rec'[r].status = "none" => rows'[r].n = 0
  BY <1>8 DEF Opened, InOrder
<1>11. QED
  BY <1>6, <1>7, <1>8, <1>9, <1>10 DEF InOrder

\* A write that leaves the statuses of all records what they are, but for
\* those that exist and go on existing or are deleted, keeps the order.
LEMMA OrderKept ==
  ASSUME InOrder,
         \A r \in Records : rec'[r].status = "none" <=> rec[r].status = "none",
         \A r \in Records : rec[r].status = "none" => rows'[r].n = rows[r].n
  PROVE  InOrder'
<1>1. PICK n \in 0..MaxRecords : \A r \in Records : rec[r].status # "none" <=> r <= n
  BY DEF InOrder
<1>2. \A r \in Records : rec'[r].status # "none" <=> r <= n
  BY <1>1
<1>3. QED
  BY <1>2 DEF InOrder

-----------------------------------------------------------------------------
(* The calls and the types.                                                *)

\* A call that is over is well formed.
LEMMA NoCallArgued == NoCall \in CallRecord /\ Argued(NoCall) /\ NoCall.pc = "idle"
BY DEF NoCall, CallRecord, Argued, Labels, None

\* A call whose record becomes x.
LEMMA CallBecomes ==
  ASSUME WellTyped, NEW c \in Calls, NEW x \in CallRecord, Argued(x), call' = [call EXCEPT ![c] = x]
  PROVE  OnlyCall(c) /\ call'[c] = x
BY DEF WellTyped, TypeOK, OnlyCall

\* A call that ends.
LEMMA ReturnCall ==
  ASSUME WellTyped, NEW c \in Calls, Return(c)
  PROVE  OnlyCall(c) /\ call'[c].pc = "idle"
BY NoCallArgued, CallBecomes DEF Return

\* A call that goes to a statement needing no more than it holds.
LEMMA GotoCall ==
  ASSUME WellTyped, NEW c \in Calls, NEW l \in Labels, Goto(c, l), Argued([call[c] EXCEPT !.pc = l])
  PROVE  OnlyCall(c) /\ call'[c] = [call[c] EXCEPT !.pc = l]
<1>1. [call[c] EXCEPT !.pc = l] \in CallRecord
  BY DEF WellTyped, TypeOK, CallRecord
<1>2. call' = [call EXCEPT ![c] = [call[c] EXCEPT !.pc = l]]
  BY DEF WellTyped, TypeOK, Goto
<1>3. QED
  BY <1>1, <1>2, CallBecomes

\* Nothing in the tables changes.
LEMMA TablesUnchanged == WellTyped /\ UNCHANGED <<app, rec, rows, amended, fate>> => TablesTyped
BY DEF WellTyped, TypeOK, InOrder, TablesTyped, fate

\* Only the status of an application changes, to a decision or from nothing.
LEMMA ApplicationWritten ==
  ASSUME WellTyped, NEW a \in Applications, NEW st \in {"pending", "approved", "rejected"},
         app' = [app EXCEPT ![a] = st], UNCHANGED <<rec, rows, amended, fate>>
  PROVE  TablesTyped
BY DEF WellTyped, TypeOK, InOrder, TablesTyped, fate

\* Everything is well formed at first.
LEMMA InitTyped == Init => WellTyped
<1> SUFFICES ASSUME Init PROVE WellTyped
  OBVIOUS
<1>1. Blank \in LoanRecord /\ Blank.status = "none"
  BY DEF Blank, LoanRecord
<1>2. rec \in [Records -> LoanRecord] /\ \A r \in Records : rec[r].status = "none"
  BY <1>1 DEF Init
<1>3. call \in [Calls -> CallRecord] /\ \A c \in Calls : Argued(call[c])
  BY NoCallArgued DEF Init
<1>4. 0 \in 0..MaxRecords /\ \A r \in Records : rec[r].status # "none" <=> r <= 0
  BY <1>2, LoanConstants DEF Records
<1>5. InOrder
  BY <1>4 DEF InOrder, Init
<1>6. QED
  BY <1>2, <1>3, <1>5 DEF Init, WellTyped, TypeOK

\* A call that starts, or a step that is the whole of one.
LEMMA StartTyped ==
  ASSUME WellTyped, NEW c \in Calls, Start(c)
  PROVE  OnlyCall(c) /\ TablesTyped
<1>t. call \in [Calls -> CallRecord] /\ call[c] \in CallRecord /\ Argued(call[c])
  BY DEF WellTyped, TypeOK
<1>s. UNCHANGED call => OnlyCall(c)
  BY <1>t DEF OnlyCall
<1>1. ASSUME NEW a \in Applications, NEW l \in {"setApproved", "setRejected"},
             call' = [call EXCEPT ![c].pc = l, ![c].a = a], UNCHANGED <<app, rec, rows, amended, fate>>
      PROVE  OnlyCall(c) /\ TablesTyped
  <2> DEFINE x == [call[c] EXCEPT !.pc = l, !.a = a]
  <2>1. x \in CallRecord /\ Argued(x)
    BY <1>t DEF CallRecord, Labels, Argued
  <2>2. call' = [call EXCEPT ![c] = x]
    BY <1>1, <1>t DEF CallRecord
  <2> HIDE DEF x
  <2>3. QED
    BY <1>1, <2>1, <2>2, CallBecomes, TablesUnchanged
<1>2. ASSUME NEW a \in Applications, ApproveStart(c, a) \/ RejectStart(c, a)
      PROVE  OnlyCall(c) /\ TablesTyped
  BY <1>1, <1>2 DEF ApproveStart, RejectStart
<1>3. CASE CreateRecord(c)
  <2>1. rec' \in [Records -> LoanRecord] /\ InOrder'
    BY <1>3, InsertTyped DEF CreateRecord, WellTyped
  <2>2. QED
    BY <1>3, <1>s, <2>1 DEF CreateRecord, WellTyped, TypeOK, TablesTyped, fate
<1>4. ASSUME NEW r \in Records, UpdateStart(c, r)
      PROVE  OnlyCall(c) /\ TablesTyped
  <2>1. PICK status \in RecordStatuses \cup {"keep"}, months \in {None, 0, 1},
             ded \in Deductions \cup {None}, tenure \in Tenures \cup {None} :
               /\ status = "keep" \/ (months = None /\ ded = None /\ tenure = None)
               /\ call' = [call EXCEPT ![c] =
                    [NoCall EXCEPT !.pc = "updateRecord", !.r = r, !.status = status, !.months = months,
                                   !.ded = ded, !.tenure = tenure,
                                   !.seenMonths = rec[r].months, !.seenDed = rec[r].ded]]
    BY <1>4 DEF UpdateStart
  <2> DEFINE x == [NoCall EXCEPT !.pc = "updateRecord", !.r = r, !.status = status, !.months = months,
                                 !.ded = ded, !.tenure = tenure,
                                 !.seenMonths = rec[r].months, !.seenDed = rec[r].ded]
  <2>2. rec[r].months \in Nat /\ rec[r].ded \in Nat
    BY DEF WellTyped, TypeOK, LoanRecord
  <2>3. ded \in Nat \cup {None} /\ tenure \in Nat \cup {None} /\ months \in Nat \cup {None}
    BY LoanConstants
  <2>4. x \in CallRecord /\ Argued(x)
    BY <2>2, <2>3, NoCallArgued DEF CallRecord, Labels, Argued, NoCall
  <2>5. call' = [call EXCEPT ![c] = x]
    BY <2>1
  <2> HIDE DEF x
  <2>6. QED
    BY <1>4, <2>4, <2>5, CallBecomes, TablesUnchanged DEF UpdateStart
<1>5. ASSUME NEW r \in Records, DeleteRecord(c, r)
      PROVE  OnlyCall(c) /\ TablesTyped
  <2> DEFINE x == [Blank EXCEPT !.status = "gone", !.of = rec[r].of]
  <2>1. x \in LoanRecord /\ x.status = "gone"
    BY DEF Blank, LoanRecord, WellTyped, TypeOK
  <2>2. rec' = [rec EXCEPT ![r] = x] /\ Exists(r)
    BY <1>5 DEF DeleteRecord
  <2> HIDE DEF x
  <2>3. rec' \in [Records -> LoanRecord] /\ rows' \in [Records -> [n : Nat, sum : Nat]]
    BY <1>5, <2>1, <2>2 DEF DeleteRecord, WellTyped, TypeOK
  <2>4. InOrder'
    <3>1. \A q \in Records : rec'[q].status = "none" <=> rec[q].status = "none"
      BY <2>1, <2>2 DEF Exists, RecordStatuses, WellTyped, TypeOK
    <3>2. \A q \in Records : rec[q].status = "none" => rows'[q].n = rows[q].n
      BY <1>5, <2>2 DEF DeleteRecord, Exists, RecordStatuses, WellTyped, TypeOK
    <3>3. QED
      BY <3>1, <3>2, OrderKept DEF WellTyped
  <2>5. QED
    BY <1>5, <1>s, <2>3, <2>4 DEF DeleteRecord, WellTyped, TypeOK, TablesTyped, fate
<1>6. ASSUME NEW r \in Records, PayStart(c, r)
      PROVE  OnlyCall(c) /\ TablesTyped
  <2>1. PICK amount \in Amounts :
          call' = [call EXCEPT ![c].pc = "insertPayment", ![c].r = r, ![c].amount = amount]
    BY <1>6 DEF PayStart
  <2> DEFINE x == [call[c] EXCEPT !.pc = "insertPayment", !.r = r, !.amount = amount]
  <2>2. x \in CallRecord /\ Argued(x)
    BY <1>t DEF CallRecord, Labels, Argued
  <2>3. call' = [call EXCEPT ![c] = x]
    BY <1>t, <2>1 DEF CallRecord
  <2> HIDE DEF x
  <2>4. QED
    BY <1>6, <2>2, <2>3, CallBecomes, TablesUnchanged DEF PayStart
<1>7. QED
  BY <1>2, <1>3, <1>4, <1>5, <1>6 DEF Start

\* A record that exists is written, and goes on existing.
LEMMA RecordWritten ==
  ASSUME WellTyped, NEW r \in Records, Exists(r), NEW x \in LoanRecord, x.status \in RecordStatuses,
         rec' = [rec EXCEPT ![r] = x], UNCHANGED rows
  PROVE  rec' \in [Records -> LoanRecord] /\ InOrder'
<1>1. \A q \in Records : rec'[q].status = "none" <=> rec[q].status = "none"
  BY DEF Exists, RecordStatuses, WellTyped, TypeOK
<1>2. QED
  BY <1>1, OrderKept DEF WellTyped, TypeOK

\* What the UPDATE of updateRecord makes of a record.
Amended(k, x) ==
  [x EXCEPT !.outstanding = Recalculated(k, x.total),
            !.ded = IF k.ded = None THEN @ ELSE k.ded,
            !.tenure = IF k.tenure = None THEN @ ELSE k.tenure,
            !.months = IF k.months = None THEN @ ELSE k.months,
            !.status = IF k.status = "keep" THEN @ ELSE k.status]

LEMMA AmendedTyped ==
  ASSUME NEW k \in CallRecord, NEW x \in LoanRecord, x.status \in RecordStatuses
  PROVE  Amended(k, x) \in LoanRecord /\ Amended(k, x).status \in RecordStatuses
<1> DEFINE ded == IF k.ded = None THEN k.seenDed ELSE k.ded
           months == IF k.months = None THEN k.seenMonths ELSE k.months
<1>1. ded \in Nat /\ months \in Nat /\ x.total \in Nat
  BY DEF CallRecord, LoanRecord
<1> HIDE DEF ded, months
<1>2. NonNegative(x.total - ded * months) \in Nat
  BY <1>1, BalanceTyped
<1>3. Recalculated(k, x.total) \in Nat
  BY <1>2 DEF Recalculated, ded, months
<1>4. QED
  BY <1>3 DEF Amended, LoanRecord, CallRecord

\* What the UPDATE of addPayment makes of a record: its months and status.
LEMMA BookedTyped ==
  ASSUME NEW x \in LoanRecord, NEW amount \in Nat
  PROVE  /\ Booked(x, amount) \in LoanRecord
         /\ Booked(x, amount).months = x.months + 1 /\ Booked(x, amount).tenure = x.tenure
         /\ Booked(x, amount).of = x.of
         /\ Booked(x, amount).status = IF x.months + 1 >= x.tenure THEN "completed" ELSE x.status
<1> DEFINE left == NonNegative(x.outstanding - amount)
           paid == x.months + 1
           st == IF x.months + 1 >= x.tenure THEN "completed" ELSE x.status
<1>1. left \in Nat /\ paid \in Nat
  BY BalanceIsNat DEF LoanRecord
<1>2. st \in RecordStatuses \cup {"none", "gone"}
  BY DEF LoanRecord, RecordStatuses
<1>3. Booked(x, amount) = [x EXCEPT !.months = paid, !.outstanding = left, !.status = st]
  BY DEF Booked
<1> HIDE DEF left, paid, st
<1>4. /\ Booked(x, amount) \in LoanRecord
      /\ Booked(x, amount).months = paid /\ Booked(x, amount).tenure = x.tenure
      /\ Booked(x, amount).of = x.of /\ Booked(x, amount).status = st
  BY <1>1, <1>2, <1>3 DEF LoanRecord
<1>5. QED
  BY <1>4 DEF paid, st

\* The two UPDATEs of a record, and the one row they write.
Rewritten(r, x) ==
  rec' = IF Exists(r) THEN [rec EXCEPT ![r] = x] ELSE rec

LEMMA UpdateRewrites ==
  ASSUME WellTyped, NEW c \in Calls, UpdateRecord(c)
  PROVE  /\ call[c].r \in Records
         /\ Rewritten(call[c].r, Amended(call[c], rec[call[c].r]))
<1>1. call[c].r \in Records
  BY DEF UpdateRecord, At, WellTyped, Argued
<1>2. rec[call[c].r] \in LoanRecord /\ rec \in [Records -> LoanRecord]
  BY <1>1 DEF WellTyped, TypeOK
<1>3. QED
  BY <1>1, <1>2 DEF UpdateRecord, Rewritten, Amended, LoanRecord

LEMMA BookRewrites ==
  ASSUME WellTyped, NEW c \in Calls, BookPayment(c)
  PROVE  /\ call[c].r \in Records /\ call[c].amount \in Nat
         /\ Rewritten(call[c].r, Booked(rec[call[c].r], call[c].amount))
<1>1. call[c].r \in Records
  BY DEF BookPayment, At, WellTyped, Argued
<1>2. call[c].amount \in Amounts \cup {0}
  <2>1. call[c] \in CallRecord
    BY DEF WellTyped, TypeOK
  <2>2. QED
    BY <2>1 DEF CallRecord
<1>3. call[c].amount \in Nat
  <2>1. \A n \in Amounts : n \in Nat
    BY LoanConstants
  <2>2. QED
    BY <1>2, <2>1
<1>4. QED
  BY <1>1, <1>3 DEF BookPayment, Rewritten, WellTyped, TypeOK

LEMMA RewrittenTyped ==
  ASSUME WellTyped, NEW r \in Records, NEW x, Rewritten(r, x), UNCHANGED rows,
         Exists(r) => x \in LoanRecord /\ x.status \in RecordStatuses
  PROVE  rec' \in [Records -> LoanRecord] /\ InOrder'
<1>1. CASE Exists(r)
  BY <1>1, RecordWritten DEF Rewritten
<1>2. CASE ~Exists(r)
  BY <1>2 DEF Rewritten, WellTyped, TypeOK, InOrder
<1>3. QED
  BY <1>1, <1>2

\* A call that goes on.
LEMMA ContinueTyped ==
  ASSUME WellTyped, NEW c \in Calls, Continue(c)
  PROVE  OnlyCall(c) /\ TablesTyped
<1>t. call \in [Calls -> CallRecord] /\ call[c] \in CallRecord /\ Argued(call[c])
  BY DEF WellTyped, TypeOK
<1>1. CASE ApproveUpdate(c)
  <2>1. call[c].a \in Applications
    BY <1>1, <1>t DEF ApproveUpdate, At, Argued
  <2>2. Argued([call[c] EXCEPT !.pc = "createRecord"]) /\ "createRecord" \in Labels
    BY <1>t, <2>1 DEF Argued, CallRecord, Labels
  <2>3. QED
    BY <1>1, <2>1, <2>2, GotoCall, ApplicationWritten DEF ApproveUpdate
<1>2. CASE ApproveCreateRecord(c)
  <2>1. call[c].a \in Applications
    BY <1>2, <1>t DEF ApproveCreateRecord, At, Argued
  <2>2. rec' \in [Records -> LoanRecord] /\ InOrder'
    <3>1. CASE InsertRecord(call[c].a)
      BY <1>2, <2>1, <3>1, InsertTyped DEF ApproveCreateRecord, WellTyped
    <3>2. CASE UNCHANGED rec
      BY <1>2, <3>2 DEF ApproveCreateRecord, WellTyped, TypeOK, InOrder
    <3>3. QED
      BY <1>2, <3>1, <3>2 DEF ApproveCreateRecord
  <2>3. failed' \subseteq Applications \cup Records
    BY <1>2, <2>1 DEF ApproveCreateRecord, WellTyped, TypeOK
  <2>4. TablesTyped
    BY <1>2, <2>2, <2>3 DEF ApproveCreateRecord, WellTyped, TypeOK, TablesTyped
  <2>5. QED
    BY <1>2, <2>4, ReturnCall DEF ApproveCreateRecord
<1>3. CASE RejectUpdate(c)
  <2>1. call[c].a \in Applications
    BY <1>3, <1>t DEF RejectUpdate, At, Argued
  <2>2. QED
    BY <1>3, <2>1, ReturnCall, ApplicationWritten DEF RejectUpdate
<1>4. CASE UpdateRecord(c)
  <2>1. rec' \in [Records -> LoanRecord] /\ InOrder'
    <3>1. call[c].r \in Records /\ Rewritten(call[c].r, Amended(call[c], rec[call[c].r]))
      BY <1>4, UpdateRewrites
    <3>2. Exists(call[c].r) => /\ Amended(call[c], rec[call[c].r]) \in LoanRecord
                               /\ Amended(call[c], rec[call[c].r]).status \in RecordStatuses
      BY <1>t, <3>1, AmendedTyped DEF Exists, WellTyped, TypeOK
    <3>3. UNCHANGED rows
      BY <1>4 DEF UpdateRecord
    <3>4. QED
      BY <3>1, <3>2, <3>3, RewrittenTyped
  <2>2. amended' \subseteq Records
    BY <1>4, UpdateRewrites DEF UpdateRecord, WellTyped, TypeOK
  <2>3. TablesTyped
    BY <1>4, <2>1, <2>2 DEF UpdateRecord, WellTyped, TypeOK, TablesTyped, fate
  <2>4. QED
    BY <1>4, <2>3, ReturnCall DEF UpdateRecord
<1>5. CASE InsertPayment(c)
  <2> DEFINE r == call[c].r
  <2>1. r \in Records /\ call[c].amount \in Nat
    BY <1>5, <1>t, LoanConstants DEF InsertPayment, At, Argued, CallRecord
  <2>2. CASE Exists(r)
    <3>1. rows' = [rows EXCEPT ![r].n = @ + 1, ![r].sum = @ + call[c].amount] /\ UNCHANGED rec
      BY <1>5, <2>2 DEF InsertPayment
    <3>2. rows' \in [Records -> [n : Nat, sum : Nat]] /\ \A q \in Records : q # r => rows'[q] = rows[q]
      BY <2>1, <3>1 DEF WellTyped, TypeOK
    <3>3. \A q \in Records : rec[q].status = "none" => rows'[q].n = rows[q].n
      BY <2>2, <3>2 DEF Exists, RecordStatuses
    <3>4. InOrder'
      BY <3>1, <3>3, OrderKept DEF WellTyped
    <3>5. TablesTyped
      BY <1>5, <3>2, <3>4 DEF InsertPayment, WellTyped, TypeOK, TablesTyped, fate
    <3>6. Argued([call[c] EXCEPT !.pc = "bookPayment"]) /\ "bookPayment" \in Labels
      BY <1>t, <2>1 DEF Argued, CallRecord, Labels
    <3>7. QED
      BY <1>5, <2>2, <3>5, <3>6, GotoCall DEF InsertPayment
  <2>3. CASE ~Exists(r)
    BY <1>5, <2>3, ReturnCall, TablesUnchanged DEF InsertPayment
  <2>4. QED
    BY <2>2, <2>3
<1>6. CASE BookPayment(c)
  <2>1. rec' \in [Records -> LoanRecord] /\ InOrder'
    <3> DEFINE r == call[c].r
               x == Booked(rec[r], call[c].amount)
    <3>1. r \in Records /\ call[c].amount \in Nat /\ Rewritten(r, x)
      BY <1>6, BookRewrites
    <3>2. rec[r] \in LoanRecord
      BY <3>1 DEF WellTyped, TypeOK
    <3>3. Exists(r) => x \in LoanRecord /\ x.status \in RecordStatuses
      BY <3>1, <3>2, BookedTyped DEF Exists, RecordStatuses
    <3>4. UNCHANGED rows
      BY <1>6 DEF BookPayment
    <3> HIDE DEF r, x
    <3>5. QED
      BY <3>1, <3>3, <3>4, RewrittenTyped
  <2>2. TablesTyped
    BY <1>6, <2>1 DEF BookPayment, WellTyped, TypeOK, TablesTyped, fate
  <2>3. QED
    BY <1>6, <2>2, ReturnCall DEF BookPayment
<1>7. QED
  BY <1>1, <1>2, <1>3, <1>4, <1>5, <1>6 DEF Continue

\* Every step keeps all well formed.
LEMMA StepTyped == WellTyped /\ [Next]_vars => WellTyped'
<1> SUFFICES ASSUME WellTyped, [Next]_vars PROVE WellTyped'
  OBVIOUS
<1>1. ASSUME NEW c \in Calls, OnlyCall(c), TablesTyped PROVE WellTyped'
  BY <1>1 DEF OnlyCall, TablesTyped, WellTyped, TypeOK
<1>2. ASSUME NEW a \in Applications, Apply(a) PROVE WellTyped'
  BY <1>2, ApplicationWritten DEF Apply, TablesTyped, WellTyped, TypeOK
<1>3. ASSUME NEW c \in Calls, Start(c) \/ Continue(c) PROVE WellTyped'
  BY <1>1, <1>3, StartTyped, ContinueTyped
<1>4. CASE Crash
  <2>1. call' \in [Calls -> CallRecord] /\ \A c \in Calls : Argued(call'[c])
    BY <1>4, NoCallArgued DEF Crash
  <2>2. failed' \subseteq Applications \cup Records
    BY <1>4 DEF Crash, WellTyped, TypeOK, Argued, At
  <2>3. crashes' \in Nat
    BY <1>4 DEF Crash, WellTyped, TypeOK
  <2>4. QED
    BY <1>4, <2>1, <2>2, <2>3 DEF Crash, WellTyped, TypeOK, InOrder
<1>5. CASE UNCHANGED vars
  BY <1>5 DEF vars, WellTyped, TypeOK, InOrder
<1>6. QED
  BY <1>2, <1>3, <1>4, <1>5 DEF Next

\* The tables and the calls keep their types whatever calls interleave and
\* wherever the server dies; no balance falls below zero (LoansService.ts).
THEOREM TypesHold == Spec => []TypeOK
<1>1. Spec => []WellTyped
  BY InitTyped, StepTyped, PTL DEF Spec
<1>2. WellTyped => TypeOK
  BY DEF WellTyped
<1>3. QED
  BY <1>1, <1>2, PTL

-----------------------------------------------------------------------------
(* Decisions come before loans, and approvals are followed by them.        *)

Decided(a) == app[a] \in {"approved", "rejected"}

\* A call about to open a loan does so for an application that was decided on.
Foreseen ==
  /\ \A r \in Records : Exists(r) /\ rec[r].of # NoApplication => Decided(rec[r].of)
  /\ \A c \in Calls : At(c, "createRecord") => Decided(call[c].a)

\* An approved application has its loan, or a call that is about to open it.
HasLoan ==
  \A a \in Applications : app[a] = "approved" /\ a \notin failed =>
    \/ \E r \in Records : rec[r].of = a /\ rec[r].status # "none"
    \/ \E c \in Calls : At(c, "createRecord") /\ call[c].a = a

\* The months of a loan: the last one completes it, or the call that entered
\* its payment is about to.
InTime ==
  \A r \in Records : Exists(r) /\ r \notin amended \cup failed =>
    /\ rec[r].status = "completed" => rec[r].months >= rec[r].tenure
    /\ rec[r].months >= rec[r].tenure /\ rows[r].n > 0 =>
         rec[r].status = "completed" \/ \E c \in Calls : At(c, "bookPayment") /\ call[c].r = r

\* No step but the INSERT changes which application a record belongs to, or
\* makes one exist; no step takes a decision back or forgets a failure.
Lasting ==
  /\ \A a \in Applications : Decided(a) => Decided(a)'
  /\ failed \subseteq failed' /\ amended \subseteq amended'

LEMMA DecisionsLast == WellTyped /\ [Next]_vars => Lasting
<1> SUFFICES ASSUME WellTyped, [Next]_vars PROVE Lasting
  OBVIOUS
<1>t. app \in [Applications -> {"none", "pending", "approved", "rejected"}]
  BY DEF WellTyped, TypeOK
<1> USE DEF Lasting, Decided
<1>1. ASSUME NEW a \in Applications, Apply(a) PROVE Lasting
  BY <1>1, <1>t DEF Apply, fate
<1>2. ASSUME NEW c \in Calls, Start(c) PROVE Lasting
  BY <1>2 DEF Start, ApproveStart, RejectStart, CreateRecord, UpdateStart, DeleteRecord, PayStart, fate
<1>3. ASSUME NEW c \in Calls, ApproveUpdate(c) \/ RejectUpdate(c) PROVE Lasting
  BY <1>3, <1>t DEF ApproveUpdate, RejectUpdate, fate
<1>4. ASSUME NEW c \in Calls, ApproveCreateRecord(c) PROVE Lasting
  BY <1>4 DEF ApproveCreateRecord
<1>5. ASSUME NEW c \in Calls, UpdateRecord(c) \/ InsertPayment(c) \/ BookPayment(c) PROVE Lasting
  BY <1>5 DEF UpdateRecord, InsertPayment, BookPayment, fate
<1>6. CASE Crash
  BY <1>6 DEF Crash
<1>7. CASE UNCHANGED vars
  BY <1>7 DEF vars
<1>8. QED
  BY <1>1, <1>2, <1>3, <1>4, <1>5, <1>6, <1>7 DEF Next, Continue

\* The steps that insert no record: none begins to exist or changes hands.
SameLoans ==
  \A r \in Records :
    /\ rec'[r].of = rec[r].of /\ (Exists(r)' => Exists(r))
    /\ rec'[r].status = "none" <=> rec[r].status = "none"

LEMMA RewrittenSame ==
  ASSUME WellTyped, NEW r \in Records, NEW x, Rewritten(r, x),
         Exists(r) => x.of = rec[r].of /\ x.status # "none"
  PROVE  SameLoans
BY DEF Rewritten, SameLoans, Exists, RecordStatuses, WellTyped, TypeOK

\* A step leaves the loans what they are, or call c inserts one for the
\* application it is working on or for none.
LEMMA LoansChange ==
  ASSUME WellTyped, [Next]_vars
  PROVE  \/ SameLoans
         \/ \E c \in Calls, n \in Records :
              \/ CreateRecord(c) /\ Opened(n, NoApplication)
              \/ ApproveCreateRecord(c) /\ Opened(n, call[c].a) /\ failed' = failed
<1>1. UNCHANGED rec => SameLoans
  BY DEF SameLoans, Exists
<1>2. ASSUME NEW a \in Applications, Apply(a) PROVE SameLoans
  BY <1>1, <1>2 DEF Apply
<1>3. ASSUME NEW c \in Calls, NEW a \in Applications, ApproveStart(c, a) \/ RejectStart(c, a) PROVE SameLoans
  BY <1>1, <1>3 DEF ApproveStart, RejectStart
<1>4. ASSUME NEW c \in Calls, CreateRecord(c) PROVE \E n \in Records : Opened(n, NoApplication)
  BY <1>4, InsertTyped DEF CreateRecord, WellTyped
<1>5. ASSUME NEW c \in Calls, NEW r \in Records, UpdateStart(c, r) \/ PayStart(c, r) PROVE SameLoans
  BY <1>1, <1>5 DEF UpdateStart, PayStart
<1>6. ASSUME NEW c \in Calls, NEW r \in Records, DeleteRecord(c, r) PROVE SameLoans
  BY <1>6 DEF DeleteRecord, SameLoans, Exists, RecordStatuses, Blank, WellTyped, TypeOK
<1>7. ASSUME NEW c \in Calls, ApproveUpdate(c) \/ RejectUpdate(c) \/ InsertPayment(c) PROVE SameLoans
  BY <1>1, <1>7 DEF ApproveUpdate, RejectUpdate, InsertPayment
<1>8. ASSUME NEW c \in Calls, UpdateRecord(c) PROVE SameLoans
  <2> DEFINE r == call[c].r
             x == Amended(call[c], rec[r])
  <2>1. r \in Records /\ Rewritten(r, x)
    BY <1>8, UpdateRewrites
  <2>2. rec[r] \in LoanRecord
    BY <2>1 DEF WellTyped, TypeOK
  <2>3. Exists(r) => x.of = rec[r].of /\ x.status # "none"
    <3>1. call[c] \in CallRecord
      BY DEF WellTyped, TypeOK
    <3>2. x.of = rec[r].of
      BY <2>2 DEF Amended, LoanRecord
    <3>3. Exists(r) => x.status \in RecordStatuses
      BY <2>2, <3>1, AmendedTyped DEF Exists
    <3>4. QED
      BY <3>2, <3>3 DEF RecordStatuses
  <2> HIDE DEF r, x
  <2>4. QED
    BY <2>1, <2>3, RewrittenSame
<1>9. ASSUME NEW c \in Calls, BookPayment(c) PROVE SameLoans
  <2> DEFINE r == call[c].r
             x == Booked(rec[r], call[c].amount)
  <2>1. r \in Records /\ call[c].amount \in Nat /\ Rewritten(r, x)
    BY <1>9, BookRewrites
  <2>2. rec[r] \in LoanRecord
    BY <2>1 DEF WellTyped, TypeOK
  <2>3. Exists(r) => x.of = rec[r].of /\ x.status # "none"
    BY <2>1, <2>2, BookedTyped DEF Exists, RecordStatuses
  <2> HIDE DEF r, x
  <2>4. QED
    BY <2>1, <2>3, RewrittenSame
<1>10. ASSUME NEW c \in Calls, ApproveCreateRecord(c)
       PROVE  SameLoans \/ \E n \in Records : Opened(n, call[c].a) /\ failed' = failed
  <2>1. CASE InsertRecord(call[c].a) /\ UNCHANGED failed
    <3>1. call[c].a \in Applications
      BY <1>10 DEF ApproveCreateRecord, At, WellTyped, Argued
    <3>2. QED
      BY <1>10, <2>1, <3>1, InsertTyped DEF ApproveCreateRecord, WellTyped
  <2>2. CASE UNCHANGED rec
    BY <1>1, <2>2
  <2>3. QED
    BY <1>10, <2>1, <2>2 DEF ApproveCreateRecord
<1>11. CASE Crash
  BY <1>1, <1>11 DEF Crash
<1>12. CASE UNCHANGED vars
  BY <1>1, <1>12 DEF vars
<1>13. QED
  BY <1>2, <1>3, <1>4, <1>5, <1>6, <1>7, <1>8, <1>9, <1>10, <1>11, <1>12 DEF Next, Start, Continue

\* What a step makes of call d.
Moved(d) ==
  \/ call'[d] = call[d]
  \/ At(d, "idle") /\ call'[d].pc \in {"setApproved", "setRejected", "updateRecord", "insertPayment"}
  \/ ApproveUpdate(d) /\ call'[d] = [call[d] EXCEPT !.pc = "createRecord"]
  \/ InsertPayment(d) /\ Exists(call[d].r) /\ call'[d] = [call[d] EXCEPT !.pc = "bookPayment"]
  \/ call'[d].pc = "idle" /\ (Crash \/ Continue(d))

LEMMA CallsMove == ASSUME WellTyped, [Next]_vars, NEW d \in Calls PROVE Moved(d)
<1>t. call \in [Calls -> CallRecord] /\ call[d] \in CallRecord
  BY DEF WellTyped, TypeOK
<1>1. ASSUME NEW c \in Calls, Start(c) \/ Continue(c), c # d PROVE Moved(d)
  BY <1>1, StartTyped, ContinueTyped DEF OnlyCall, Moved
<1>2. ASSUME Start(d) PROVE Moved(d)
  <2>1. ASSUME NEW a \in Applications, ApproveStart(d, a) \/ RejectStart(d, a) PROVE Moved(d)
    <3>1. call'[d].pc \in {"setApproved", "setRejected"}
      BY <1>t, <2>1 DEF ApproveStart, RejectStart, CallRecord
    <3>2. QED
      BY <2>1, <3>1 DEF ApproveStart, RejectStart, Moved
  <2>2. ASSUME NEW r \in Records, UpdateStart(d, r) PROVE Moved(d)
    <3>1. call'[d].pc = "updateRecord"
      BY <1>t, <2>2 DEF UpdateStart, NoCall
    <3>2. QED
      BY <2>2, <3>1 DEF UpdateStart, Moved
  <2>3. ASSUME NEW r \in Records, PayStart(d, r) PROVE Moved(d)
    <3>1. call'[d].pc = "insertPayment"
      BY <1>t, <2>3 DEF PayStart, CallRecord
    <3>2. QED
      BY <2>3, <3>1 DEF PayStart, Moved
  <2>4. ASSUME CreateRecord(d) \/ \E r \in Records : DeleteRecord(d, r) PROVE Moved(d)
    BY <2>4 DEF CreateRecord, DeleteRecord, Moved
  <2>5. QED
    BY <1>2, <2>1, <2>2, <2>3, <2>4 DEF Start
<1>3. ASSUME Continue(d) PROVE Moved(d)
  <2>1. CASE Return(d)
    BY <1>3, <2>1, ReturnCall DEF Moved
  <2>2. ASSUME NEW l \in Labels, Goto(d, l) PROVE call'[d] = [call[d] EXCEPT !.pc = l]
    BY <1>t, <2>2 DEF Goto
  <2>3. CASE ApproveUpdate(d)
    BY <2>2, <2>3 DEF ApproveUpdate, Labels, Moved
  <2>4. CASE InsertPayment(d) /\ Exists(call[d].r)
    BY <2>2, <2>4 DEF InsertPayment, Labels, Moved
  <2>5. QED
    BY <1>3, <2>1, <2>3, <2>4
       DEF Continue, ApproveCreateRecord, RejectUpdate, UpdateRecord, InsertPayment, BookPayment
<1>4. CASE Crash
  BY <1>4, NoCallArgued DEF Crash, Moved
<1>5. ASSUME UNCHANGED call PROVE Moved(d)
  BY <1>5 DEF Moved
<1>6. QED
  BY <1>1, <1>2, <1>3, <1>4, <1>5 DEF Next, Apply, vars

\* A call about to open a loan goes on to do so for the same application, does
\* it, or is cut off; and one gets there by writing the approval.
LEMMA Opening ==
  ASSUME WellTyped, [Next]_vars, NEW d \in Calls
  PROVE  /\ At(d, "createRecord") => \/ call'[d] = call[d]
                                     \/ Crash \/ ApproveCreateRecord(d)
         /\ At(d, "createRecord")' => \/ At(d, "createRecord") /\ call'[d].a = call[d].a
                                      \/ ApproveUpdate(d) /\ call'[d].a = call[d].a
<1>t. call[d] \in CallRecord
  BY DEF WellTyped, TypeOK
<1>1. Moved(d)
  BY CallsMove
<1>2. QED
  BY <1>1, <1>t DEF Moved, CallRecord, At, Continue, ApproveUpdate, ApproveCreateRecord, RejectUpdate,
                    UpdateRecord, InsertPayment, BookPayment

\* The same of a call about to book a payment.
LEMMA Booking ==
  ASSUME WellTyped, [Next]_vars, NEW d \in Calls
  PROVE  At(d, "bookPayment") => \/ At(d, "bookPayment")' /\ call'[d].r = call[d].r
                                 \/ Crash \/ BookPayment(d)
<1>t. call[d] \in CallRecord
  BY DEF WellTyped, TypeOK
<1>1. Moved(d)
  BY CallsMove
<1>2. QED
  BY <1>1, <1>t DEF Moved, CallRecord, At, Continue, ApproveUpdate, ApproveCreateRecord, RejectUpdate,
                    UpdateRecord, InsertPayment, BookPayment

LEMMA StepForeseen == WellTyped /\ Foreseen /\ [Next]_vars => Foreseen'
<1> SUFFICES ASSUME WellTyped, Foreseen, [Next]_vars PROVE Foreseen'
  OBVIOUS
<1>t. app \in [Applications -> {"none", "pending", "approved", "rejected"}]
      /\ \A r \in Records : rec[r].of \in Applications \cup {NoApplication}
  BY DEF WellTyped, TypeOK, LoanRecord
<1>l. \A a \in Applications : Decided(a) => Decided(a)'
  BY DecisionsLast DEF Lasting
<1>1. ASSUME NEW c \in Calls, At(c, "createRecord")' PROVE Decided(call[c].a)'
  <2>1. CASE At(c, "createRecord") /\ call'[c].a = call[c].a
    <3>1. call[c].a \in Applications
      BY <2>1 DEF At, WellTyped, Argued
    <3>2. QED
      BY <1>l, <2>1, <3>1 DEF Foreseen, Decided
  <2>2. CASE ApproveUpdate(c) /\ call'[c].a = call[c].a
    <3>1. call[c].a \in Applications
      BY <2>2 DEF ApproveUpdate, At, WellTyped, Argued
    <3>2. app'[call[c].a] = "approved"
      BY <1>t, <2>2, <3>1 DEF ApproveUpdate
    <3>3. QED
      BY <2>2, <3>2 DEF Decided
  <2>3. QED
    BY <1>1, <2>1, <2>2, Opening
<1>2. ASSUME NEW r \in Records, Exists(r)', rec'[r].of # NoApplication PROVE Decided(rec[r].of)'
  <2>1. CASE SameLoans
    <3>1. Exists(r) /\ rec'[r].of = rec[r].of
      BY <1>2, <2>1 DEF SameLoans
    <3>2. rec[r].of \in Applications /\ Decided(rec[r].of)
      BY <1>t, <1>2, <3>1 DEF Foreseen
    <3>3. QED
      BY <1>l, <3>1, <3>2 DEF Decided
  <2>2. ASSUME NEW c \in Calls, NEW n \in Records,
               \/ Opened(n, NoApplication)
               \/ ApproveCreateRecord(c) /\ Opened(n, call[c].a)
        PROVE  Decided(rec[r].of)'
    <3>1. CASE r = n
      <4>1. ApproveCreateRecord(c) /\ rec'[r].of = call[c].a
        BY <1>2, <2>2, <3>1 DEF Opened
      <4>2. call[c].a \in Applications /\ Decided(call[c].a)
        BY <4>1 DEF ApproveCreateRecord, At, WellTyped, Argued, Foreseen
      <4>3. QED
        BY <1>l, <4>1, <4>2 DEF Decided
    <3>2. CASE r # n
      <4>1. rec'[r] = rec[r]
        BY <2>2, <3>2 DEF Opened
      <4>2. rec[r].of \in Applications /\ Decided(rec[r].of)
        BY <1>t, <1>2, <4>1 DEF Foreseen, Exists
      <4>3. QED
        BY <1>l, <4>1, <4>2 DEF Decided
    <3>3. QED
      BY <3>1, <3>2
  <2>3. QED
    BY <2>1, <2>2, LoansChange
<1>3. QED
  BY <1>1, <1>2 DEF Foreseen, Decided

LEMMA StepHasLoan == WellTyped /\ HasLoan /\ [Next]_vars => HasLoan'
<1> SUFFICES ASSUME WellTyped, HasLoan, [Next]_vars, NEW a \in Applications, app'[a] = "approved", a \notin failed'
             PROVE  \/ \E r \in Records : rec'[r].of = a /\ rec'[r].status # "none"
                    \/ \E c \in Calls : At(c, "createRecord")' /\ call'[c].a = a
  BY DEF HasLoan, At
<1>t. app \in [Applications -> {"none", "pending", "approved", "rejected"}] /\ a # NoApplication
  BY LoanConstants DEF WellTyped, TypeOK, NoApplication
<1>f. a \notin failed
  BY DecisionsLast DEF Lasting
<1>r. \/ SameLoans
      \/ \E n \in Records, of \in Applications \cup {NoApplication} : Opened(n, of)
  <2>1. ASSUME NEW c \in Calls, ApproveCreateRecord(c) PROVE call[c].a \in Applications
    BY <2>1 DEF ApproveCreateRecord, At, WellTyped, Argued
  <2>2. QED
    BY <2>1, LoansChange
<1>1. ASSUME NEW r \in Records, rec[r].of = a, rec[r].status # "none"
      PROVE  rec'[r].of = a /\ rec'[r].status # "none"
  BY <1>r, <1>1 DEF SameLoans, Opened
<1>2. ASSUME NEW c \in Calls, At(c, "createRecord"), call[c].a = a
      PROVE  \/ \E r \in Records : rec'[r].of = a /\ rec'[r].status # "none"
             \/ \E d \in Calls : At(d, "createRecord")' /\ call'[d].a = a
  <2>1. CASE call'[c] = call[c]
    BY <1>2, <2>1 DEF At
  <2>2. CASE Crash
    <3>1. a \in failed'
      BY <1>2, <2>2 DEF Crash
    <3>2. QED
      BY <3>1
  <2>3. CASE ApproveCreateRecord(c)
    <3>1. failed' # failed \cup {a}
      BY <1>f
    <3>2. InsertRecord(call[c].a)
      BY <1>2, <2>3, <3>1 DEF ApproveCreateRecord
    <3>3. \E n \in Records : Opened(n, a)
      BY <1>2, <2>3, <3>2, InsertTyped DEF ApproveCreateRecord, WellTyped
    <3>4. QED
      BY <3>3 DEF Opened
  <2>4. QED
    BY <1>2, <2>1, <2>2, <2>3, Opening
<1>3. CASE app[a] = "approved"
  BY <1>1, <1>2, <1>3, <1>f DEF HasLoan
<1>4. CASE app[a] # "approved"
  <2>1. PICK c \in Calls : ApproveUpdate(c) /\ call[c].a = a
    <3>1. ASSUME NEW b \in Applications, Apply(b) PROVE app'[a] # "approved"
      BY <1>t, <1>4, <3>1 DEF Apply
    <3>2. ASSUME NEW c \in Calls, Start(c) PROVE UNCHANGED app
      BY <3>2 DEF Start, ApproveStart, RejectStart, CreateRecord, UpdateStart, DeleteRecord, PayStart
    <3>3. ASSUME NEW c \in Calls, ApproveUpdate(c) PROVE call[c].a = a
      BY <1>t, <1>4, <3>3 DEF ApproveUpdate
    <3>4. ASSUME NEW c \in Calls, RejectUpdate(c) PROVE app'[a] # "approved"
      BY <1>t, <1>4, <3>4 DEF RejectUpdate
    <3>5. ASSUME NEW c \in Calls, ApproveCreateRecord(c) \/ UpdateRecord(c) \/ InsertPayment(c) \/ BookPayment(c)
          PROVE  UNCHANGED app
      BY <3>5 DEF ApproveCreateRecord, UpdateRecord, InsertPayment, BookPayment
    <3>6. QED
      BY <1>4, <3>1, <3>2, <3>3, <3>4, <3>5 DEF Next, Continue, Crash, vars
  <2>2. call'[c].pc = "createRecord" /\ call'[c].a = a
    BY <2>1 DEF ApproveUpdate, Goto, WellTyped, TypeOK, CallRecord
  <2>3. QED
    BY <2>2 DEF At
<1>5. QED
  BY <1>3, <1>4

\* What a step does to the months and the payments of one record.
Progress(r) ==
  \/ rec'[r] = rec[r] /\ rows'[r] = rows[r]
  \/ rec'[r].status = "gone"
  \/ r \in amended'
  \/ /\ rec[r].status = "none" /\ rec'[r].status = "active" /\ rows'[r] = rows[r]
     /\ rec'[r].outstanding = OpeningBalance(rec'[r])
  \/ \E c \in Calls : InsertPayment(c) /\ call[c].r = r /\ Exists(r) /\ rec'[r] = rec[r]
  \/ \E c \in Calls : BookPayment(c) /\ call[c].r = r /\ rec'[r] = Booked(rec[r], call[c].amount)

LEMMA LoanProgress == ASSUME WellTyped, [Next]_vars, NEW r \in Records PROVE Progress(r)
<1>t. rec \in [Records -> LoanRecord] /\ rows \in [Records -> [n : Nat, sum : Nat]]
  BY DEF WellTyped, TypeOK
<1>1. UNCHANGED <<rec, rows>> => Progress(r)
  BY DEF Progress
<1>2. ASSUME NEW n \in Records, NEW of, Opened(n, of), UNCHANGED rows PROVE Progress(r)
  BY <1>2 DEF Opened, Progress, WellTyped, InOrder
<1>3. ASSUME NEW c \in Calls, CreateRecord(c) PROVE Progress(r)
  BY <1>2, <1>3, InsertTyped DEF CreateRecord, WellTyped
<1>4. ASSUME NEW c \in Calls, ApproveCreateRecord(c) PROVE Progress(r)
  <2>1. CASE InsertRecord(call[c].a)
    <3>1. call[c].a \in Applications
      BY <1>4 DEF ApproveCreateRecord, At, WellTyped, Argued
    <3>2. QED
      BY <1>2, <1>4, <2>1, <3>1, InsertTyped DEF ApproveCreateRecord, WellTyped
  <2>2. CASE UNCHANGED rec
    BY <1>1, <1>4, <2>2 DEF ApproveCreateRecord
  <2>3. QED
    BY <1>4, <2>1, <2>2 DEF ApproveCreateRecord
<1>5. ASSUME NEW c \in Calls, NEW q \in Records, DeleteRecord(c, q) PROVE Progress(r)
  BY <1>t, <1>5 DEF DeleteRecord, Blank, Progress
<1>6. ASSUME NEW c \in Calls, UpdateRecord(c) PROVE Progress(r)
  BY <1>t, <1>6, UpdateRewrites DEF UpdateRecord, Rewritten, Progress
<1>7. ASSUME NEW c \in Calls, InsertPayment(c) PROVE Progress(r)
  <2>1. CASE call[c].r = r /\ Exists(r)
    BY <1>7, <2>1 DEF InsertPayment, Progress
  <2>2. CASE ~(call[c].r = r /\ Exists(r))
    <3>1. rows'[r] = rows[r] /\ UNCHANGED rec
      BY <1>t, <1>7, <2>2 DEF InsertPayment
    <3>2. QED
      BY <3>1 DEF Progress
  <2>3. QED
    BY <2>1, <2>2
<1>8. ASSUME NEW c \in Calls, BookPayment(c) PROVE Progress(r)
  BY <1>t, <1>8, BookRewrites DEF BookPayment, Rewritten, Progress
<1>9. ASSUME NEW c \in Calls, Start(c) PROVE Progress(r)
  BY <1>1, <1>3, <1>5, <1>9 DEF Start, ApproveStart, RejectStart, UpdateStart, PayStart
<1>10. ASSUME NEW c \in Calls, Continue(c) PROVE Progress(r)
  BY <1>1, <1>4, <1>6, <1>7, <1>8, <1>10 DEF Continue, ApproveUpdate, RejectUpdate
<1>11. QED
  BY <1>1, <1>9, <1>10 DEF Next, Apply, Crash, vars

LEMMA StepInTime == WellTyped /\ InTime /\ [Next]_vars => InTime'
<1> SUFFICES ASSUME WellTyped, InTime, [Next]_vars, NEW r \in Records, Exists(r)', r \notin (amended \cup failed)'
             PROVE  /\ rec'[r].status = "completed" => rec'[r].months >= rec'[r].tenure
                    /\ rec'[r].months >= rec'[r].tenure /\ rows'[r].n > 0 =>
                         rec'[r].status = "completed" \/ \E c \in Calls : At(c, "bookPayment")' /\ call'[c].r = r
  BY DEF InTime, At, Exists
<1>t. rec \in [Records -> LoanRecord] /\ rec[r] \in LoanRecord
  BY DEF WellTyped, TypeOK
<1>a. r \notin amended \cup failed
  BY DecisionsLast DEF Lasting
<1>b. rec'[r].status \in RecordStatuses
  BY DEF Exists
<1>1. CASE rec'[r] = rec[r] /\ rows'[r] = rows[r]
  <2>1. Exists(r)
    BY <1>1, <1>b DEF Exists
  <2>2. ASSUME NEW c \in Calls, At(c, "bookPayment"), call[c].r = r
        PROVE  At(c, "bookPayment")' /\ call'[c].r = r
    <3>1. ~Crash
      BY <2>2 DEF Crash
    <3>2. ~BookPayment(c)
      <4>1. SUFFICES ASSUME BookPayment(c) PROVE FALSE
        OBVIOUS
      <4>2. call[c].amount \in Nat /\ rec'[r] = Booked(rec[r], call[c].amount)
        <5>1. call[c].amount \in Nat /\ Rewritten(r, Booked(rec[r], call[c].amount))
          BY <2>2, <4>1, BookRewrites
        <5>2. QED
          BY <1>t, <2>1, <5>1 DEF Rewritten
      <4>3. rec'[r].months = rec[r].months + 1 /\ rec[r].months \in Nat
        <5>1. rec[r].months \in Nat
          BY <1>t DEF LoanRecord
        <5>2. Booked(rec[r], call[c].amount).months = rec[r].months + 1
          BY <1>t, <4>2, BookedTyped
        <5>3. QED
          BY <4>2, <5>1, <5>2
      <4>4. QED
        BY <1>1, <4>3
    <3>3. QED
      BY <2>2, <3>1, <3>2, Booking
  <2>3. QED
    BY <1>1, <1>a, <2>1, <2>2 DEF InTime
<1>2. CASE rec[r].status = "none" /\ rec'[r].status = "active" /\ rows'[r] = rows[r]
  BY <1>2 DEF WellTyped, InOrder
<1>3. ASSUME NEW c \in Calls, InsertPayment(c), call[c].r = r, Exists(r), rec'[r] = rec[r]
      PROVE  /\ rec'[r].status = "completed" => rec'[r].months >= rec'[r].tenure
             /\ At(c, "bookPayment")' /\ call'[c].r = r
  <2>1. call'[c].pc = "bookPayment" /\ call'[c].r = r
    BY <1>3 DEF InsertPayment, Goto, WellTyped, TypeOK, CallRecord
  <2>2. QED
    BY <1>3, <1>a, <2>1 DEF InTime, At
<1>4. ASSUME NEW c \in Calls, BookPayment(c), call[c].r = r, rec'[r] = Booked(rec[r], call[c].amount)
      PROVE  rec'[r].status = "completed" <=> rec'[r].months >= rec'[r].tenure
  <2>1. call[c].amount \in Nat
    BY <1>4, BookRewrites
  <2>2. /\ rec'[r].months = rec[r].months + 1 /\ rec'[r].tenure = rec[r].tenure
        /\ rec'[r].status = IF rec[r].months + 1 >= rec[r].tenure THEN "completed" ELSE rec[r].status
        /\ Booked(rec[r], call[c].amount) \in LoanRecord
    BY <1>t, <1>4, <2>1, BookedTyped
  <2>3. rec[r].status \in RecordStatuses
    BY <1>b, <1>4 DEF BookPayment, Exists
  <2>4. rec[r].status = "completed" => rec[r].months >= rec[r].tenure
    BY <1>a, <2>3 DEF InTime, Exists
  <2>5. rec[r].months \in Nat /\ rec[r].tenure \in Nat
    BY <1>t DEF LoanRecord
  <2>6. QED
    BY <2>2, <2>4, <2>5
<1>5. QED
  BY <1>1, <1>2, <1>3, <1>4, <1>b, LoanProgress DEF Progress, RecordStatuses

IInv == WellTyped /\ Foreseen /\ HasLoan /\ InTime

LEMMA IInvInductive == Spec => []IInv
<1>1. Init => IInv
  <2> SUFFICES ASSUME Init PROVE IInv
    OBVIOUS
  <2>1. \A r \in Records : ~Exists(r)
    BY DEF Init, Blank, Exists, RecordStatuses
  <2>2. \A c \in Calls : call[c].pc = "idle"
    BY DEF Init, NoCall
  <2>3. Foreseen
    BY <2>1, <2>2 DEF Foreseen, At
  <2>4. HasLoan
    BY DEF Init, HasLoan
  <2>5. InTime
    BY <2>1 DEF InTime
  <2>6. QED
    BY <2>3, <2>4, <2>5, InitTyped DEF IInv
<1>2. IInv /\ [Next]_vars => IInv'
  BY StepTyped, StepForeseen, StepHasLoan, StepInTime DEF IInv
<1>3. QED
  BY <1>1, <1>2, PTL DEF Spec

\* A loan whose application still waits, or was never made, does not exist:
\* the approval is written before the record is (LoansService.ts
\* approveApplication), and no call takes it back to pending.
THEOREM LoansAreDecided == Spec => []LoanAfterDecision
<1>1. IInv => LoanAfterDecision
  BY DEF IInv, Foreseen, LoanAfterDecision, Decided
<1>2. QED
  BY <1>1, IInvInductive, PTL

\* However approvals, rejections and deletions interleave, an application that
\* was approved has, or had, its loan; the INSERT that failed or a crash before it
\* are the only exceptions (LoansService.ts approveApplication).
THEOREM ApprovedLoansOpened == Spec => []ApprovedHasLoan
<1>1. IInv => ApprovedHasLoan
  BY DEF IInv, HasLoan, ApprovedHasLoan, QuietApplication, At
<1>2. QED
  BY <1>1, IInvInductive, PTL

\* The payment of the last month, and none before it, completes a loan nobody
\* amends, with any number of payments entered at a time (LoansRepository.ts
\* addPayment).
THEOREM CompletedOnTime == Spec => []CompletedByLastMonth
<1>1. IInv => CompletedByLastMonth
  BY DEF IInv, InTime, CompletedByLastMonth, QuietRecord, At
<1>2. QED
  BY <1>1, IInvInductive, PTL

-----------------------------------------------------------------------------
(* Every payment entered is booked once.                                   *)

\* Call c has entered a payment of r and is about to book it.
Paying(c, r) == At(c, "bookPayment") /\ call[c].r = r
Ones(r) == [c \in Calls |-> IF Paying(c, r) THEN 1 ELSE 0]
InHand(r) == [c \in Calls |-> IF Paying(c, r) THEN call[c].amount ELSE 0]

\* g adds w up over every set of calls.
Adds(g, w) ==
  /\ g \in [SUBSET Calls -> Int] /\ g[{}] = 0
  /\ \A T \in SUBSET Calls, x \in Calls : x \notin T => g[T \cup {x}] = g[T] + w[x]

\* The balance of r is the opening balance less what was booked: what was
\* entered less what calls have in hand, by number and by amount.
BalanceOf(x, p, n, sum) == NonNegative(x.total - x.ded * (x.months - (p.n - n)) - (p.sum - sum))

Due(r) ==
  \E k, s : /\ Adds(k, Ones(r)) /\ Adds(s, InHand(r))
            /\ rec[r].outstanding = BalanceOf(rec[r], rows[r], k[Calls], s[Calls])

AllDue == \A r \in Records : Exists(r) /\ r \notin amended \cup failed => Due(r)

\* Payments are entered for loans that were opened.
PaymentsOfLoans ==
  /\ \A r \in Records : rec[r].status = "none" => rows[r].n = 0 /\ rows[r].sum = 0
  /\ \A c \in Calls, r \in Records : Paying(c, r) => rec[r].status # "none"

\* Adding to the value of one call adds to the sum.
LEMMA AddsMore ==
  ASSUME NEW w, NEW v, NEW g, Adds(g, w), NEW c \in Calls, NEW a \in Int,
         w \in [Calls -> Int], v[c] = w[c] + a, \A d \in Calls : d # c => v[d] = w[d]
  PROVE  \E h : Adds(h, v) /\ h[Calls] = g[Calls] + a
<1> DEFINE h == [T \in SUBSET Calls |-> IF c \in T THEN g[T] + a ELSE g[T]]
<1>1. h \in [SUBSET Calls -> Int] /\ h[{}] = 0
  BY DEF Adds
<1>2. ASSUME NEW T \in SUBSET Calls, NEW x \in Calls, x \notin T
      PROVE  h[T \cup {x}] = h[T] + v[x]
  <2>1. g[T \cup {x}] = g[T] + w[x] /\ g[T] \in Int /\ T \cup {x} \in SUBSET Calls
    BY <1>2 DEF Adds
  <2>2. g[T \cup {x}] \in Int
    BY <2>1 DEF Adds
  <2>3. CASE x = c
    BY <1>2, <2>1, <2>3
  <2>4. CASE x # c
    <3>1. v[x] = w[x] /\ (c \in T \cup {x} <=> c \in T)
      BY <2>4
    <3>2. CASE c \in T
      <4>1. h[T \cup {x}] = g[T \cup {x}] + a /\ h[T] = g[T] + a
        BY <2>1, <3>1, <3>2
      <4>2. QED
        BY <2>1, <2>2, <3>1, <4>1
    <3>3. CASE c \notin T
      BY <2>1, <3>1, <3>3
    <3>4. QED
      BY <3>2, <3>3
  <2>5. QED
    BY <2>3, <2>4
<1>3. h[Calls] = g[Calls] + a
  OBVIOUS
<1> HIDE DEF h
<1>4. QED
  BY <1>1, <1>2, <1>3 DEF Adds

\* With nothing to add the sum is zero: a smallest set with another sum would have
\* an element, and taking it out leaves the sum what it is.
LEMMA AddsNothing ==
  ASSUME NEW w, NEW g, Adds(g, w), \A c \in Calls : w[c] = 0
  PROVE  g[Calls] = 0
<1>1. SUFFICES ASSUME g[Calls] # 0 PROVE FALSE
  OBVIOUS
<1> DEFINE Bad == {T \in SUBSET Calls : g[T] # 0}
<1>2. IsWellFoundedOn(StrictSubsetOrdering(Calls), SUBSET Calls)
  BY LoanConstants, FS_StrictSubsetOrderingWellFounded, FS_FiniteSubsetsOfFinite, Zenon
<1>3. Bad \subseteq SUBSET Calls /\ Bad # {}
  <2>1. Calls \in Bad
    BY <1>1
  <2>2. QED
    BY <2>1
<1> HIDE DEF Bad
<1>4. PICK T \in Bad : \A U \in Bad : ~(<<U, T>> \in StrictSubsetOrdering(Calls))
  BY <1>2, <1>3, WFMin, Zenon
<1>5. T \in SUBSET Calls /\ g[T] # 0 /\ T # {}
  BY <1>4 DEF Bad, Adds
<1>6. PICK x : x \in T
  BY <1>5
<1>7. T \ {x} \in SUBSET Calls /\ x \in Calls /\ (T \ {x}) \cup {x} = T
  BY <1>5, <1>6
<1>8. g[T] = g[T \ {x}] + w[x] /\ g[T \ {x}] \in Int
  BY <1>7 DEF Adds
<1>9. T \ {x} \in Bad
  BY <1>5, <1>7, <1>8 DEF Bad
<1>10. <<T \ {x}, T>> \in StrictSubsetOrdering(Calls)
  BY <1>5, <1>6, <1>7 DEF StrictSubsetOrdering
<1>11. QED
  BY <1>4, <1>9, <1>10

\* Payments already below zero stay there.
LEMMA CutOffTwice ==
  ASSUME NEW x \in Int, NEW a \in Nat
  PROVE  NonNegative(NonNegative(x) - a) = NonNegative(x - a)
BY DEF NonNegative

\* What the sums are made of.
LEMMA HandsTyped ==
  ASSUME WellTyped, NEW r \in Records
  PROVE  /\ Ones(r) \in [Calls -> Int] /\ InHand(r) \in [Calls -> Int]
         /\ \A c \in Calls : call[c].amount \in Nat
         /\ \A g, w : Adds(g, w) => g[Calls] \in Int
<1>1. ASSUME NEW c \in Calls
      PROVE  call[c].amount \in Nat
  <2>1. call[c] \in CallRecord
    BY DEF WellTyped, TypeOK
  <2>2. call[c].amount \in Amounts \cup {0}
    BY <2>1 DEF CallRecord
  <2>3. \A n \in Amounts : n \in Nat
    BY LoanConstants
  <2>4. QED
    BY <2>2, <2>3
<1>2. \A g, w : Adds(g, w) => g[Calls] \in Int
  <2>1. Calls \in SUBSET Calls
    OBVIOUS
  <2>2. QED
    BY <2>1 DEF Adds
<1>3. QED
  BY <1>1, <1>2 DEF Ones, InHand

\* The two statements of a payment keep the balance due.
LEMMA EnteredDue ==
  ASSUME WellTyped, NEW r \in Records, Due(r), NEW c \in Calls, InsertPayment(c), call[c].r = r, Exists(r)
  PROVE  Due(r)'
<1>1. PICK k, s : /\ Adds(k, Ones(r)) /\ Adds(s, InHand(r))
                  /\ rec[r].outstanding = BalanceOf(rec[r], rows[r], k[Calls], s[Calls])
  BY DEF Due
<1>2. /\ call[c].amount \in Nat /\ rows[r].n \in Nat /\ rows[r].sum \in Nat
      /\ k[Calls] \in Int /\ s[Calls] \in Int
  BY <1>1, HandsTyped DEF WellTyped, TypeOK
<1>3. /\ rec'[r] = rec[r] /\ rows'[r].n = rows[r].n + 1 /\ rows'[r].sum = rows[r].sum + call[c].amount
      /\ ~Paying(c, r) /\ Paying(c, r)' /\ call'[c].amount = call[c].amount
      /\ \A d \in Calls : d # c => call'[d] = call[d]
  BY DEF InsertPayment, Paying, At, Goto, WellTyped, TypeOK, CallRecord
<1>4. /\ Ones(r)[c] = 0 /\ Ones(r)'[c] = 1 /\ InHand(r)[c] = 0 /\ InHand(r)'[c] = call[c].amount
      /\ \A d \in Calls : d # c => Ones(r)'[d] = Ones(r)[d] /\ InHand(r)'[d] = InHand(r)[d]
  BY <1>3 DEF Ones, InHand, Paying, At
<1>5. PICK h : Adds(h, Ones(r)') /\ h[Calls] = k[Calls] + 1
  <2>1. PICK w, v : w = Ones(r) /\ v = Ones(r)'
    OBVIOUS
  <2>2. w \in [Calls -> Int] /\ v[c] = w[c] + 1 /\ \A d \in Calls : d # c => v[d] = w[d]
    BY <1>4, <2>1, HandsTyped
  <2>3. QED
    BY <1>1, <2>1, <2>2, AddsMore
<1>6. PICK z : Adds(z, InHand(r)') /\ z[Calls] = s[Calls] + call[c].amount
  <2>1. PICK w, v, a : w = InHand(r) /\ v = InHand(r)' /\ a = call[c].amount
    OBVIOUS
  <2>2. w \in [Calls -> Int] /\ v[c] = w[c] + a /\ \A d \in Calls : d # c => v[d] = w[d]
    BY <1>2, <1>4, <2>1, HandsTyped
  <2>3. QED
    BY <1>1, <1>2, <2>1, <2>2, AddsMore
<1>7. /\ rows'[r].n - h[Calls] = rows[r].n - k[Calls]
      /\ rows'[r].sum - z[Calls] = rows[r].sum - s[Calls]
  <2>1. \A x, y, a \in Int : (x + a) - (y + a) = x - y
    OBVIOUS
  <2>2. 1 \in Int /\ rows[r].n \in Int /\ rows[r].sum \in Int /\ call[c].amount \in Int
    BY <1>2
  <2>3. rows'[r].n - h[Calls] = (rows[r].n + 1) - (k[Calls] + 1)
    BY <1>3, <1>5
  <2>4. rows'[r].sum - z[Calls] = (rows[r].sum + call[c].amount) - (s[Calls] + call[c].amount)
    BY <1>3, <1>6
  <2>5. QED
    BY <1>2, <2>1, <2>2, <2>3, <2>4
<1>8. rec'[r].outstanding = BalanceOf(rec'[r], rows'[r], h[Calls], z[Calls])
  BY <1>1, <1>3, <1>7 DEF BalanceOf
<1>9. QED
  BY <1>5, <1>6, <1>8 DEF Due

LEMMA BookedDue ==
  ASSUME WellTyped, NEW r \in Records, Due(r), NEW c \in Calls, BookPayment(c), call[c].r = r, Exists(r)
  PROVE  Due(r)'
<1>1. PICK k, s : /\ Adds(k, Ones(r)) /\ Adds(s, InHand(r))
                  /\ rec[r].outstanding = BalanceOf(rec[r], rows[r], k[Calls], s[Calls])
  BY DEF Due
<1> DEFINE a == call[c].amount
<1>2. /\ a \in Nat /\ rows[r].n \in Nat /\ rows[r].sum \in Nat
      /\ rec[r].months \in Nat /\ rec[r].total \in Nat /\ rec[r].ded \in Nat
      /\ k[Calls] \in Int /\ s[Calls] \in Int
  BY <1>1, HandsTyped DEF WellTyped, TypeOK, LoanRecord
<1>3. /\ rec'[r] = Booked(rec[r], a) /\ rows' = rows
      /\ Paying(c, r) /\ ~Paying(c, r)'
      /\ \A d \in Calls : d # c => call'[d] = call[d]
  BY NoCallArgued DEF BookPayment, Paying, At, Return, WellTyped, TypeOK
<1>4. /\ Ones(r)[c] = 1 /\ Ones(r)'[c] = 1 + (-1) /\ InHand(r)[c] = a /\ InHand(r)'[c] = a + (-a)
      /\ \A d \in Calls : d # c => Ones(r)'[d] = Ones(r)[d] /\ InHand(r)'[d] = InHand(r)[d]
  BY <1>2, <1>3 DEF Ones, InHand, Paying, At
<1>5. PICK h : Adds(h, Ones(r)') /\ h[Calls] = k[Calls] + (-1)
  <2>1. PICK w, v : w = Ones(r) /\ v = Ones(r)'
    OBVIOUS
  <2>2. w \in [Calls -> Int] /\ v[c] = w[c] + (-1) /\ \A d \in Calls : d # c => v[d] = w[d]
    BY <1>4, <2>1, HandsTyped
  <2>3. QED
    BY <1>1, <2>1, <2>2, AddsMore
<1>6. PICK z : Adds(z, InHand(r)') /\ z[Calls] = s[Calls] + (-a)
  <2>1. PICK w, v, m : w = InHand(r) /\ v = InHand(r)' /\ m = -a
    OBVIOUS
  <2>2. m \in Int /\ w \in [Calls -> Int] /\ v[c] = w[c] + m /\ \A d \in Calls : d # c => v[d] = w[d]
    BY <1>2, <1>4, <2>1, HandsTyped
  <2>3. QED
    BY <1>1, <2>1, <2>2, AddsMore
<1>7. /\ rec'[r].months = rec[r].months + 1 /\ rec'[r].total = rec[r].total /\ rec'[r].ded = rec[r].ded
      /\ rec'[r].outstanding = NonNegative(rec[r].outstanding - a)
  BY <1>3 DEF Booked, WellTyped, TypeOK, LoanRecord
<1> HIDE DEF a
<1> DEFINE m == rec[r].months - (rows[r].n - k[Calls])
           p == rec[r].ded * m
           b == rows[r].sum - s[Calls]
<1>8. m \in Int /\ b \in Int
  BY <1>2
<1>9. p \in Int
  <2> HIDE DEF m
  <2>1. QED
    BY <1>2, <1>8
<1>10. rec'[r].months - (rows'[r].n - h[Calls]) = m /\ rows'[r].sum - z[Calls] = b + a
  BY <1>2, <1>3, <1>5, <1>6, <1>7
<1>11. rec[r].outstanding = NonNegative(rec[r].total - p - b)
  BY <1>1 DEF BalanceOf
<1>12. BalanceOf(rec'[r], rows'[r], h[Calls], z[Calls]) = NonNegative(rec[r].total - p - (b + a))
  BY <1>7, <1>10 DEF BalanceOf
<1> HIDE DEF m, p, b
<1>13. rec'[r].outstanding = NonNegative(rec[r].total - p - (b + a))
  <2>1. rec[r].total - p - b \in Int /\ (rec[r].total - p - b) - a = rec[r].total - p - (b + a)
    BY <1>2, <1>8, <1>9
  <2>2. QED
    BY <1>2, <1>7, <1>11, <2>1, CutOffTwice
<1>14. QED
  BY <1>5, <1>6, <1>12, <1>13 DEF Due

\* A step that leaves the loan, its payments and the calls booking them alone.
LEMMA SameDue ==
  ASSUME NEW r \in Records, Due(r), rec'[r] = rec[r], rows'[r] = rows[r],
         \A c \in Calls : /\ Paying(c, r)' <=> Paying(c, r)
                          /\ Paying(c, r) => call'[c].amount = call[c].amount
  PROVE  Due(r)'
<1>1. Ones(r)' = Ones(r) /\ InHand(r)' = InHand(r)
  BY DEF Ones, InHand
<1>2. QED
  BY <1>1 DEF Due

\* A loan that was just opened has its opening balance.
LEMMA OpenedDue ==
  ASSUME NEW r \in Records, \A c \in Calls : ~Paying(c, r)', rows'[r].n = 0, rows'[r].sum = 0,
         rec'[r].months \in Nat, rec'[r].total \in Nat, rec'[r].ded \in Nat,
         rec'[r].outstanding = OpeningBalance(rec'[r])
  PROVE  Due(r)'
<1>1. PICK x, p, m : x = rec'[r] /\ p = rows'[r] /\ m = x.ded * x.months
  OBVIOUS
<1>2. m \in Int /\ x.total \in Int
  BY <1>1
<1>3. x.months - (p.n - 0) = x.months /\ p.sum - 0 = 0
  BY <1>1
<1>4. x.total - m - 0 = x.total - m
  BY <1>2
<1>5. BalanceOf(x, p, 0, 0) = OpeningBalance(x)
  BY <1>1, <1>3, <1>4 DEF BalanceOf, OpeningBalance
<1>6. \E k, s : Adds(k, Ones(r)') /\ Adds(s, InHand(r)') /\ k[Calls] = 0 /\ s[Calls] = 0
  <2> DEFINE z == [T \in SUBSET Calls |-> 0]
  <2>1. \A c \in Calls : Ones(r)'[c] = 0 /\ InHand(r)'[c] = 0
    BY DEF Ones, InHand
  <2>2. z \in [SUBSET Calls -> Int] /\ z[{}] = 0 /\ z[Calls] = 0
    OBVIOUS
  <2>3. \A T \in SUBSET Calls, c \in Calls : z[T \cup {c}] = z[T] + 0
    OBVIOUS
  <2> HIDE DEF z
  <2>4. Adds(z, Ones(r)') /\ Adds(z, InHand(r)')
    BY <2>1, <2>2, <2>3 DEF Adds
  <2>5. QED
    BY <2>2, <2>4
<1>7. QED
  BY <1>1, <1>5, <1>6 DEF Due

\* A call comes to the booking of a payment by entering it, and leaves it by
\* booking it or when the server dies.
LEMMA PayingMoves ==
  ASSUME WellTyped, [Next]_vars, NEW r \in Records, NEW c \in Calls
  PROVE  /\ Paying(c, r) => (Paying(c, r)' /\ call'[c].amount = call[c].amount) \/ Crash \/ BookPayment(c)
         /\ Paying(c, r)' => Paying(c, r) \/ (InsertPayment(c) /\ call[c].r = r /\ Exists(r))
<1>t. call[c] \in CallRecord
  BY DEF WellTyped, TypeOK
<1>1. Moved(c)
  BY CallsMove
<1>2. QED
  BY <1>1, <1>t DEF Moved, CallRecord, At, Paying, Continue, ApproveUpdate, ApproveCreateRecord,
     RejectUpdate, UpdateRecord, InsertPayment, BookPayment

LEMMA StepPaymentsOfLoans == WellTyped /\ PaymentsOfLoans /\ [Next]_vars => PaymentsOfLoans'
<1> SUFFICES ASSUME WellTyped, PaymentsOfLoans, [Next]_vars PROVE PaymentsOfLoans'
  OBVIOUS
<1>1. \A r \in Records : rec'[r].status = "none" => rec[r].status = "none"
  BY LoansChange DEF SameLoans, Opened
<1>2. ASSUME NEW r \in Records, rec'[r].status = "none"
      PROVE  rows'[r].n = 0 /\ rows'[r].sum = 0
  <2>1. rec[r].status = "none" /\ ~Exists(r)
    BY <1>1, <1>2 DEF Exists, RecordStatuses
  <2>2. rows[r].n = 0 /\ rows[r].sum = 0
    BY <2>1 DEF PaymentsOfLoans
  <2>3. CASE UNCHANGED rows
    BY <2>2, <2>3
  <2>4. ASSUME NEW c \in Calls, InsertPayment(c)
        PROVE  rows'[r] = rows[r]
    BY <2>1, <2>4 DEF InsertPayment, WellTyped, TypeOK
  <2>5. ASSUME NEW c \in Calls, NEW q \in Records, DeleteRecord(c, q)
        PROVE  rows'[r] = rows[r]
    BY <2>1, <2>5 DEF DeleteRecord, WellTyped, TypeOK
  <2>6. QED
    BY <2>2, <2>3, <2>4, <2>5 DEF Next, Apply, Start, ApproveStart, RejectStart, CreateRecord, UpdateStart,
       PayStart, Continue, ApproveUpdate, ApproveCreateRecord, RejectUpdate, UpdateRecord, BookPayment,
       Crash, vars
<1>3. ASSUME NEW c \in Calls, NEW r \in Records, Paying(c, r)'
      PROVE  rec'[r].status # "none"
  <2>1. Paying(c, r) \/ Exists(r)
    BY <1>3, PayingMoves
  <2>2. rec[r].status # "none"
    BY <2>1 DEF PaymentsOfLoans, Exists, RecordStatuses
  <2>3. QED
    BY <1>1, <2>2
<1>4. QED
  BY <1>2, <1>3 DEF PaymentsOfLoans

LEMMA StepDue == WellTyped /\ PaymentsOfLoans /\ AllDue /\ [Next]_vars => AllDue'
<1> SUFFICES ASSUME WellTyped, PaymentsOfLoans, AllDue, [Next]_vars,
                    NEW r \in Records, Exists(r)', r \notin (amended \cup failed)'
             PROVE  Due(r)'
  BY DEF AllDue
<1>a. r \notin amended \cup failed
  BY DecisionsLast DEF Lasting
<1>b. Exists(r) => Due(r)
  BY <1>a DEF AllDue
<1>c. rec'[r].status \in RecordStatuses
  BY DEF Exists
<1>1. ASSUME NEW c \in Calls, InsertPayment(c), call[c].r = r, Exists(r)
      PROVE  Due(r)'
  BY <1>b, <1>1, EnteredDue
<1>2. ASSUME NEW c \in Calls, BookPayment(c), call[c].r = r
      PROVE  Due(r)'
  <2>1. Exists(r)
    BY <1>2, <1>c DEF BookPayment, Exists
  <2>2. QED
    BY <1>b, <1>2, <2>1, BookedDue
<1>3. CASE \A c \in Calls : ~(InsertPayment(c) /\ call[c].r = r /\ Exists(r)) /\ ~(BookPayment(c) /\ call[c].r = r)
  <2>1. \A c \in Calls : Paying(c, r) => Paying(c, r)' /\ call'[c].amount = call[c].amount
    <3>1. ASSUME NEW c \in Calls, Paying(c, r), Crash
          PROVE  r \in failed'
      BY <3>1 DEF Crash, Paying
    <3>2. QED
      BY <1>3, <3>1, PayingMoves DEF Paying
  <2>2. \A c \in Calls : Paying(c, r)' => Paying(c, r)
    BY <1>3, PayingMoves
  <2>3. CASE rec'[r] = rec[r] /\ rows'[r] = rows[r]
    <3>1. Exists(r)
      BY <1>c, <2>3 DEF Exists
    <3>2. QED
      BY <1>b, <2>1, <2>2, <2>3, <3>1, SameDue
  <2>4. CASE /\ rec[r].status = "none" /\ rows'[r] = rows[r]
             /\ rec'[r].outstanding = OpeningBalance(rec'[r])
    <3>1. (\A c \in Calls : ~Paying(c, r)') /\ rows'[r].n = 0 /\ rows'[r].sum = 0
      BY <2>2, <2>4 DEF PaymentsOfLoans
    <3>2. rec'[r].months \in Nat /\ rec'[r].total \in Nat /\ rec'[r].ded \in Nat
      BY StepTyped DEF WellTyped, TypeOK, LoanRecord
    <3>3. QED
      BY <2>4, <3>1, <3>2, OpenedDue
  <2>5. QED
    BY <1>3, <1>c, <2>3, <2>4, LoanProgress DEF Progress, RecordStatuses
<1>4. QED
  BY <1>1, <1>2, <1>3

\* Payments are entered and booked by two statements of a handler; however many
\* handlers run, and whatever is deleted or completed meanwhile, once they are
\* done every payment of a loan nobody amended has been booked once
\* (LoansService.ts addPayment, LoansRepository.ts).
THEOREM PaymentsAreBooked == Spec => []PaymentsBooked
<1>1. Init => PaymentsOfLoans /\ AllDue
  <2> SUFFICES ASSUME Init PROVE PaymentsOfLoans /\ AllDue
    OBVIOUS
  <2>1. \A r \in Records : ~Exists(r)
    BY DEF Init, Blank, Exists, RecordStatuses
  <2>2. \A c \in Calls : call[c].pc = "idle"
    BY DEF Init, NoCall
  <2>3. QED
    BY <2>1, <2>2 DEF Init, PaymentsOfLoans, AllDue, Paying, At
<1>2. Spec => []WellTyped
  BY InitTyped, StepTyped, PTL DEF Spec
<1>3. WellTyped /\ AllDue => PaymentsBooked
  <2> SUFFICES ASSUME WellTyped, AllDue,
                      NEW r \in Records, Exists(r), QuietRecord(r), r \notin amended \cup failed
               PROVE  rec[r].outstanding =
                        NonNegative(rec[r].total - rec[r].ded * (rec[r].months - rows[r].n) - rows[r].sum)
    BY DEF PaymentsBooked
  <2>1. PICK k, s : /\ Adds(k, Ones(r)) /\ Adds(s, InHand(r))
                    /\ rec[r].outstanding = BalanceOf(rec[r], rows[r], k[Calls], s[Calls])
    BY DEF AllDue, Due
  <2>2. \A c \in Calls : Ones(r)[c] = 0 /\ InHand(r)[c] = 0
    BY DEF QuietRecord, At, Paying, Ones, InHand
  <2>3. k[Calls] = 0 /\ s[Calls] = 0
    BY <2>1, <2>2, AddsNothing
  <2>4. rows[r].n - 0 = rows[r].n /\ rows[r].sum - 0 = rows[r].sum
    BY DEF WellTyped, TypeOK
  <2>5. QED
    BY <2>1, <2>3, <2>4 DEF BalanceOf
<1>4. QED
  BY <1>1, <1>2, <1>3, StepPaymentsOfLoans, StepDue, PTL DEF Spec
=============================================================================
