------------------------------- MODULE Loans -------------------------------
(***************************************************************************)
(* Loan applications, the loan records an approval opens, and the payments *)
(* entered against them: server/modules/loans/LoansService.ts over the     *)
(* tables loan_applications, loan_records and loan_payments.               *)
(*                                                                         *)
(* A handler is a sequence of SQL statements with nothing around them, so  *)
(* each statement is a step and other handlers run in between.  A call     *)
(* carries the statement it runs next and what it has read and still uses. *)
(* Amounts are whole numbers; the data a request body brings is chosen     *)
(* from small sets.                                                        *)
(***************************************************************************)
EXTENDS Integers, FiniteSets

CONSTANTS
  Applications,  \* ids of loan_applications rows
  MaxRecords,    \* bound: rows of loan_records ever inserted
  Calls,         \* concurrent HTTP calls
  Totals,        \* amounts a loan may have
  Deductions,    \* monthly deductions
  Tenures,       \* approved tenures, in months
  Amounts,       \* amounts of one payment
  MaxPayments,   \* bound: payments entered against one record
  MaxCrashes,    \* bound: crashes of the server
  Endpoints      \* the endpoints the workload calls

Records == 1..MaxRecords
AllEndpoints == {"apply", "approve", "reject", "create", "update", "delete", "pay"}

ASSUME LoanConstants ==
  /\ MaxRecords \in Nat /\ MaxPayments \in Nat /\ MaxCrashes \in Nat /\ IsFiniteSet(Calls)
  /\ Totals \subseteq Nat \ {0} /\ Deductions \subseteq Nat /\ Tenures \subseteq Nat \ {0}
  /\ Amounts \subseteq Nat \ {0}
  /\ Endpoints \subseteq AllEndpoints
  /\ "manual" \notin Applications

VARIABLES
  app,      \* loan_applications.status; "none" before the INSERT
  rec,      \* loan_records; status "none" before the INSERT, "gone" after the DELETE
  rows,     \* loan_payments of each record: how many, and what they add up to
  amended,  \* history: the records updateRecord has written
  failed,   \* history: the applications and records whose second statement did not come
  crashes,  \* of MaxCrashes
  call      \* the handlers in flight

vars == <<app, rec, rows, amended, failed, crashes, call>>
fate == <<failed, crashes>>

NoApplication == "manual"
None == -1   \* a field the body of an update leaves out

RecordStatuses == {"active", "completed", "paused"}
NonNegative(n) == IF n > 0 THEN n ELSE 0

LoanRecord ==
  [status : RecordStatuses \cup {"none", "gone"}, of : Applications \cup {NoApplication},
   total : Nat, ded : Nat, tenure : Nat, months : Nat, outstanding : Nat]

Blank == [status |-> "none", of |-> NoApplication, total |-> 0, ded |-> 0, tenure |-> 0,
          months |-> 0, outstanding |-> 0]

Exists(r) == rec[r].status \in RecordStatuses
NextId == 1 + Cardinality({r \in Records : rec[r].status # "none"})

Labels == {"idle", "setApproved", "createRecord", "setRejected", "updateRecord",
           "insertPayment", "bookPayment"}

NoCall == [pc |-> "idle", a |-> NoApplication, r |-> 0, amount |-> 0,
           status |-> "keep", months |-> None, ded |-> None, tenure |-> None, seenMonths |-> 0, seenDed |-> 0]

\* status, months, ded and tenure are what the body of an update sets; seenMonths and
\* seenDed are the columns it has read.
CallRecord ==
  [pc : Labels, a : Applications \cup {NoApplication}, r : Records \cup {0}, amount : Amounts \cup {0},
   status : RecordStatuses \cup {"keep"}, months : Nat \cup {None}, ded : Nat \cup {None},
   tenure : Nat \cup {None}, seenMonths : Nat, seenDed : Nat]

At(c, label) == call[c].pc = label
Goto(c, label) == call' = [call EXCEPT ![c].pc = label]
Return(c) == call' = [call EXCEPT ![c] = NoCall]

Init ==
  /\ app = [a \in Applications |-> "none"]
  /\ rec = [r \in Records |-> Blank]
  /\ rows = [r \in Records |-> [n |-> 0, sum |-> 0]]
  /\ amended = {} /\ failed = {} /\ crashes = 0
  /\ call = [c \in Calls |-> NoCall]

\* repo.createRecord: the default status is active whatever months_paid says.
InsertRecord(of) ==
  /\ NextId \in Records
  /\ \E total \in Totals, ded \in Deductions, tenure \in Tenures, months \in 0..1 :
       rec' = [rec EXCEPT ![NextId] =
                 [status |-> "active", of |-> of, total |-> total, ded |-> ded, tenure |-> tenure,
                  months |-> months, outstanding |-> NonNegative(total - ded * months)]]

-----------------------------------------------------------------------------
(* Applications                                                            *)

\* createApplication: one INSERT of a pending row.
Apply(a) ==
  /\ "apply" \in Endpoints
  /\ app[a] = "none"
  /\ app' = [app EXCEPT ![a] = "pending"]
  /\ UNCHANGED <<rec, rows, amended, call, fate>>

\* Mutant: the record is opened first and the application never marked.
ApproveSkipsUpdate(c, a) ==
  /\ "approve" \in Endpoints
  /\ At(c, "idle")
  /\ app[a] = "pending"
  /\ call' = [call EXCEPT ![c].pc = "createRecord", ![c].a = a]
  /\ UNCHANGED <<app, rec, rows, amended, fate>>

\* approveApplication reads the status, which nothing looks at again.
ApproveStart(c, a) ==
  /\ "approve" \in Endpoints
  /\ At(c, "idle")
  /\ app[a] = "pending"
  /\ call' = [call EXCEPT ![c].pc = "setApproved", ![c].a = a]
  /\ UNCHANGED <<app, rec, rows, amended, fate>>

\* Mutant: the record is left to be opened by hand.
ApproveUpdateOnly(c) ==
  /\ At(c, "setApproved")
  /\ app' = [app EXCEPT ![call[c].a] = "approved"]
  /\ Return(c)
  /\ UNCHANGED <<rec, rows, amended, fate>>

\* UPDATE loan_applications SET status = 'approved' WHERE id = ...
ApproveUpdate(c) ==
  /\ At(c, "setApproved")
  /\ app' = [app EXCEPT ![call[c].a] = "approved"]
  /\ Goto(c, "createRecord")
  /\ UNCHANGED <<rec, rows, amended, fate>>

\* The INSERT of the record, or its failure: the start and disbursement dates
\* of the body are checked by nobody before the database converts them.
ApproveCreateRecord(c) ==
  /\ At(c, "createRecord")
  /\ \/ InsertRecord(call[c].a) /\ UNCHANGED failed
     \/ failed' = failed \cup {call[c].a} /\ UNCHANGED rec
  /\ Return(c)
  /\ UNCHANGED <<app, rows, amended, crashes>>

RejectStart(c, a) ==
  /\ "reject" \in Endpoints
  /\ At(c, "idle")
  /\ app[a] = "pending"
  /\ call' = [call EXCEPT ![c].pc = "setRejected", ![c].a = a]
  /\ UNCHANGED <<app, rec, rows, amended, fate>>

\* UPDATE loan_applications SET status = 'rejected' WHERE id = ...
RejectUpdate(c) ==
  /\ At(c, "setRejected")
  /\ app' = [app EXCEPT ![call[c].a] = "rejected"]
  /\ Return(c)
  /\ UNCHANGED <<rec, rows, amended, fate>>

-----------------------------------------------------------------------------
(* Records                                                                 *)

\* createRecord of a loan HR enters by hand: one INSERT.
CreateRecord(c) ==
  /\ "create" \in Endpoints
  /\ At(c, "idle")
  /\ InsertRecord(NoApplication)
  /\ UNCHANGED <<app, rows, call, amended, fate>>

\* updateRecord reads the record before it writes it.  Bound: the body sets the
\* status, or some of the other fields.
UpdateStart(c, r) ==
  /\ "update" \in Endpoints
  /\ At(c, "idle")
  /\ Exists(r)
  /\ \E status \in RecordStatuses \cup {"keep"}, months \in {None, 0, 1},
        ded \in Deductions \cup {None}, tenure \in Tenures \cup {None} :
       /\ status = "keep" \/ (months = None /\ ded = None /\ tenure = None)
       /\ call' = [call EXCEPT ![c] =
            [NoCall EXCEPT !.pc = "updateRecord", !.r = r, !.status = status, !.months = months,
                           !.ded = ded, !.tenure = tenure,
                           !.seenMonths = rec[r].months, !.seenDed = rec[r].ded]]
  /\ UNCHANGED <<app, rec, rows, amended, fate>>

\* The outstanding balance updateRecord writes, whether or not the body sets a
\* field it depends on: it is worked out from what was read.
Recalculated(k, total) ==
  NonNegative(total - (IF k.ded = None THEN k.seenDed ELSE k.ded)
                    * (IF k.months = None THEN k.seenMonths ELSE k.months))

\* UPDATE loan_records SET ... = COALESCE(body, column)
UpdateRecord(c) ==
  /\ At(c, "updateRecord")
  /\ LET k == call[c] IN
       rec' = IF ~Exists(k.r) THEN rec ELSE
                [rec EXCEPT ![k.r].outstanding = Recalculated(k, rec[k.r].total),
                            ![k.r].ded = IF k.ded = None THEN @ ELSE k.ded,
                            ![k.r].tenure = IF k.tenure = None THEN @ ELSE k.tenure,
                            ![k.r].months = IF k.months = None THEN @ ELSE k.months,
                            ![k.r].status = IF k.status = "keep" THEN @ ELSE k.status]
  /\ Return(c)
  /\ amended' = amended \cup {call[c].r}
  /\ UNCHANGED <<app, rows, fate>>

\* DELETE FROM loan_records: the payments go with it (ON DELETE CASCADE).
DeleteRecord(c, r) ==
  /\ "delete" \in Endpoints
  /\ At(c, "idle")
  /\ Exists(r)
  /\ rec' = [rec EXCEPT ![r] = [Blank EXCEPT !.status = "gone", !.of = rec[r].of]]
  /\ rows' = [rows EXCEPT ![r] = [n |-> 0, sum |-> 0]]
  /\ UNCHANGED <<app, call, amended, fate>>

-----------------------------------------------------------------------------
(* Payments                                                                *)

PayStart(c, r) ==
  /\ "pay" \in Endpoints
  /\ At(c, "idle")
  /\ Exists(r) /\ rec[r].status # "completed"
  /\ rows[r].n < MaxPayments
  /\ \E amount \in Amounts :
       call' = [call EXCEPT ![c].pc = "insertPayment", ![c].r = r, ![c].amount = amount]
  /\ UNCHANGED <<app, rec, rows, amended, fate>>

\* INSERT INTO loan_payments; the foreign key refuses a record that is gone.
InsertPayment(c) ==
  /\ At(c, "insertPayment")
  /\ LET r == call[c].r IN
       IF Exists(r)
         THEN /\ rows' = [rows EXCEPT ![r].n = @ + 1, ![r].sum = @ + call[c].amount]
              /\ Goto(c, "bookPayment")
         ELSE Return(c) /\ UNCHANGED rows
  /\ UNCHANGED <<app, rec, amended, fate>>

\* Mutant: the last month does not complete the record.
BookedLate(k, amount) ==
  [k EXCEPT !.months = @ + 1,
            !.outstanding = NonNegative(@ - amount),
            !.status = IF k.months >= k.tenure THEN "completed" ELSE @]

\* What the UPDATE of addPayment makes of a record.
Booked(k, amount) ==
  [k EXCEPT !.months = @ + 1,
            !.outstanding = NonNegative(@ - amount),
            !.status = IF k.months + 1 >= k.tenure THEN "completed" ELSE @]

\* Mutant: the UPDATE leaves out a record another payment has completed.
BookUnlessCompleted(c) ==
  /\ At(c, "bookPayment")
  /\ LET r == call[c].r IN
       rec' = IF rec[r].status \in {"active", "paused"}
                THEN [rec EXCEPT ![r] = Booked(@, call[c].amount)] ELSE rec
  /\ Return(c)
  /\ UNCHANGED <<app, rows, amended, fate>>

\* UPDATE loan_records SET months_paid = months_paid + 1, ...
BookPayment(c) ==
  /\ At(c, "bookPayment")
  /\ LET r == call[c].r IN
       rec' = IF Exists(r) THEN [rec EXCEPT ![r] = Booked(@, call[c].amount)] ELSE rec
  /\ Return(c)
  /\ UNCHANGED <<app, rows, amended, fate>>

-----------------------------------------------------------------------------
\* The server dies: no handler goes on, and what its statements wrote stays.
Crash ==
  /\ crashes < MaxCrashes
  /\ crashes' = crashes + 1
  /\ failed' = failed \cup {call[c].a : c \in {d \in Calls : At(d, "createRecord")}}
                     \cup {call[c].r : c \in {d \in Calls : At(d, "bookPayment")}}
  /\ call' = [c \in Calls |-> NoCall]
  /\ UNCHANGED <<app, rec, rows, amended>>

Continue(c) ==
  \/ ApproveUpdate(c) \/ ApproveCreateRecord(c) \/ RejectUpdate(c)
  \/ UpdateRecord(c) \/ InsertPayment(c) \/ BookPayment(c)

Start(c) ==
  \/ \E a \in Applications : ApproveStart(c, a) \/ RejectStart(c, a)
  \/ CreateRecord(c)
  \/ \E r \in Records : UpdateStart(c, r) \/ DeleteRecord(c, r) \/ PayStart(c, r)

Next ==
  \/ \E a \in Applications : Apply(a)
  \/ \E c \in Calls : Start(c) \/ Continue(c)
  \/ Crash

Spec == Init /\ [][Next]_vars

-----------------------------------------------------------------------------
(* Properties                                                              *)

QuietRecord(r) == \A c \in Calls : At(c, "idle") \/ call[c].r # r
QuietApplication(a) == \A c \in Calls : At(c, "idle") \/ call[c].a # a

\* Types of the tables and the calls; no balance is ever below zero, although
\* payments of any amount are entered and booked concurrently.
TypeOK ==
  /\ app \in [Applications -> {"none", "pending", "approved", "rejected"}]
  /\ rec \in [Records -> LoanRecord]
  /\ rows \in [Records -> [n : Nat, sum : Nat]]
  /\ amended \subseteq Records
  /\ failed \subseteq Applications \cup Records /\ crashes \in Nat
  /\ call \in [Calls -> CallRecord]

\* Every payment entered is booked once, whatever payments, deletions and
\* completions run meanwhile: with no handler at work on a record that was never
\* amended, its balance is the opening balance less the payments, unless the
\* server died between the two statements of a payment.
PaymentsBooked ==
  \A r \in Records : Exists(r) /\ QuietRecord(r) /\ r \notin amended \cup failed =>
    rec[r].outstanding =
      NonNegative(rec[r].total - rec[r].ded * (rec[r].months - rows[r].n) - rows[r].sum)

\* A record nobody amends is completed by the payment of its last month and by
\* no earlier one, also when two payments are entered for that month at once.
CompletedByLastMonth ==
  \A r \in Records : Exists(r) /\ r \notin amended \cup failed =>
    /\ rec[r].status = "completed" => rec[r].months >= rec[r].tenure
    /\ rec[r].months >= rec[r].tenure /\ QuietRecord(r) /\ rows[r].n > 0 => rec[r].status = "completed"

\* No loan is opened for an application that still waits for a decision.
LoanAfterDecision ==
  \A r \in Records : Exists(r) /\ rec[r].of # NoApplication => app[rec[r].of] \in {"approved", "rejected"}

\* An approved application has its loan, or had one that HR deleted, unless the
\* INSERT failed or the server died before it: then there is no second chance,
\* since approving again is refused (LoansService.ts:127).
ApprovedHasLoan ==
  \A a \in Applications : app[a] = "approved" /\ QuietApplication(a) /\ a \notin failed =>
    \E r \in Records : rec[r].of = a
=============================================================================
