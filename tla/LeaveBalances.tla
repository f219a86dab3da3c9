---------------------------- MODULE LeaveBalances ----------------------------
(***************************************************************************)
(* How leave balances come about: the monthly accrual behind its gate, the *)
(* credits and adjustments HR enters, the rows made for an employee or a   *)
(* new type, and the year-end reset (LeaveService.ts:145-370, 606-753),    *)
(* against approvals and cancellations running meanwhile.                  *)
(*                                                                         *)
(* A balance is one row of employee_leave_balances, that of an employee    *)
(* and a leave type.  Accrual, credits and resets write the balance they   *)
(* worked out from one read earlier; approvals and cancellations change it *)
(* relative to what is there.  Days are half days.  The rate of a row      *)
(* stands for what monthlyAccrualCredit makes of its type and join date;   *)
(* monthly types other than earned leave are left out.                     *)
(* The employees are the active ones.  Policies, the Freshteam import and  *)
(* the audit rows are left out.                                            *)
(***************************************************************************)
EXTENDS Integers

CONSTANTS
  Balances,     \* rows an employee may have
  Employees,
  Owner,        \* [Balances -> Employees]
  Kind,         \* [Balances -> Kinds]: what the row's leave type is
  Rate,         \* [Balances -> Nat]: credit of a month
  Cap,          \* [Balances -> Nat]: leave_types.max_balance
  Legacy,       \* rows that may be there from the beginning
  Credits,      \* numbers of days HR adds or takes away
  Days,         \* days of a request
  Months,       \* bound: 1..n
  Years,
  MaxBalance,   \* bound on the balance of a row without a maximum
  MaxUsed,      \* bound on the days of the approved requests of a row
  Calls,        \* bound: calls in progress at a time
  Endpoints     \* the endpoints the environment calls

Kinds == {"earned", "bereavement", "compensation"}

ASSUME BalanceConstants ==
  /\ Owner \in [Balances -> Employees]
  /\ Kind \in [Balances -> Kinds]
  /\ Rate \in [Balances -> Nat] /\ Cap \in [Balances -> Nat]
  /\ Legacy \subseteq Balances
  /\ Credits \subseteq Int /\ Days \subseteq Nat \ {0}
  /\ Months \subseteq Nat \ {0} /\ 1 \in Months /\ Years \subseteq Nat \ {0}
  /\ MaxBalance \in Nat /\ MaxUsed \in Nat

VARIABLES
  row,       \* employee_leave_balances
  gate,      \* leave_accrual_run: the months whose accrual was started
  snaps,     \* leave_year_end_snapshots: the years of each row
  taken,     \* days of the approved requests of a row (LeaveRequests)
  month,     \* the month accrualPeriodYmd and NOW() give
  credited,  \* history: how often each month was credited to each row
  due,       \* history: the rows a month's accrual still owes its credit
  cut,       \* history: the months whose accrual a restart cut off
  call       \* the calls in progress

histories == <<credited, due, cut>>
outside == <<taken, month>>
vars == <<row, gate, snaps, taken, month, credited, due, cut, call>>

\* accrual and reset are the month of last_accrual_at and the year of last_reset_at; 0 is NULL.
NoRow == [there |-> FALSE, bal |-> 0, used |-> 0, accrual |-> 0, reset |-> 0]

Labels == {"idle", "ensureRows", "readBalances", "updateAccrual", "insertRow", "readBereavement",
           "topUp", "readBalance", "addToBalance", "readRow", "snapshot", "reset"}

\* b: the row at hand; e: the employee whose rows are made; todo: the rows yet to do;
\* left: the rows the year end has yet to do; nb: the balances to write; at: the month or
\* year; delta: the days to add; then: where initializeEmployeeBalances returns to;
\* found: whether the year end found the row.
NoCall == [pc |-> "idle", b |-> "none", e |-> "none", todo |-> {}, left |-> {}, nb |-> [b \in Balances |-> 0],
           at |-> 0, delta |-> 0, then |-> "idle", found |-> FALSE]

At(c, label) == call[c].pc = label
Accruing(c) == call[c].pc \in {"ensureRows", "readBalances", "updateAccrual"}
Goto(c, label) == call' = [call EXCEPT ![c].pc = label]
Return(c) == call' = [call EXCEPT ![c] = NoCall]
Begin(c, rec) == At(c, "idle") /\ call' = [call EXCEPT ![c] = rec]

There == {b \in Balances : row[b].there}
RowsOf(e) == {b \in Balances : Owner[b] = e}
Smaller(m, n) == IF m < n THEN m ELSE n
Larger(m, n) == IF m > n THEN m ELSE n

\* initialLeaveBalanceForType: two days of bereavement where the type gives no maximum.
InitialBalance(b) ==
  CASE Kind[b] # "bereavement" -> 0
    [] Cap[b] > 0 -> Cap[b]
    [] OTHER -> 4

\* INSERT ... ON CONFLICT DO NOTHING; the accrual of a new earned row is NULL, of others NOW().
NewRow(b) ==
  IF row[b].there THEN row[b]
  ELSE [NoRow EXCEPT !.there = TRUE, !.bal = InitialBalance(b),
                     !.accrual = IF Kind[b] = "earned" THEN 0 ELSE month]

\* The rows of Legacy may be there from an earlier version of the program, empty.
Init ==
  /\ \E old \in SUBSET Legacy : row = [b \in Balances |-> [NoRow EXCEPT !.there = b \in old]]
  /\ gate = {} /\ month = 1
  /\ snaps = [b \in Balances |-> {}] /\ taken = [b \in Balances |-> 0]
  /\ credited = [b \in Balances |-> [m \in Months |-> 0]]
  /\ due = [m \in Months |-> {}] /\ cut = {}
  /\ call = [c \in Calls |-> NoCall]

-----------------------------------------------------------------------------
(* runAccrual, ensureAccrualRun: cron, start of a server, and every read of balances *)

\* The balance after a month's credit; a maximum of 0 counts as none, that is 999 days.
Accrued(b) == Smaller(row[b].bal + Rate[b], IF Cap[b] = 0 THEN 1998 ELSE Cap[b])

\* What the accrual of a month owes: an earned row that was not credited
\* this month and has room.
Owed(m) ==
  {b \in There : /\ Kind[b] = "earned"
                 /\ row[b].accrual < m
                 /\ Accrued(b) > row[b].bal}

\* Mutant: the INSERT's answer is not looked at.
AccrualAlways(c) ==
  /\ "accrue" \in Endpoints /\ month \in Months
  /\ gate' = gate \cup {month}
  /\ due' = [due EXCEPT ![month] = Owed(month)]
  /\ Begin(c, [NoCall EXCEPT !.pc = "ensureRows", !.at = month])
  /\ UNCHANGED <<row, snaps, outside, credited, cut>>

\* INSERT the month into leave_accrual_run; only the call that inserts it goes on.
AccrualStart(c) ==
  /\ "accrue" \in Endpoints /\ month \in Months \ gate
  /\ gate' = gate \cup {month}
  /\ due' = [due EXCEPT ![month] = Owed(month)]
  /\ Begin(c, [NoCall EXCEPT !.pc = "ensureRows", !.at = month])
  /\ UNCHANGED <<row, snaps, outside, credited, cut>>

\* ensureEarnedLeaveBalanceRowsForActive
EnsureRows(c) ==
  /\ At(c, "ensureRows")
  /\ row' = [b \in Balances |-> IF Kind[b] = "earned" THEN NewRow(b) ELSE row[b]]
  /\ Goto(c, "readBalances")
  /\ UNCHANGED <<gate, snaps, outside, histories>>

\* Mutant: "last_accrual_at IS NULL" is not asked for, and NULL is not below any month.
ReadBalancesSeen(c) ==
  /\ At(c, "readBalances")
  /\ LET m == call[c].at  todo == {b \in Owed(m) : row[b].accrual # 0} IN
       /\ due' = [due EXCEPT ![m] = @ \cap Owed(m)]
       /\ IF todo = {} THEN Return(c)
          ELSE call' = [call EXCEPT ![c].pc = "updateAccrual", ![c].todo = todo,
                 ![c].nb = [b \in Balances |-> IF b \in todo THEN Accrued(b) ELSE 0]]
  /\ UNCHANGED <<row, gate, snaps, outside, credited, cut>>

ReadBalances(c) ==
  /\ At(c, "readBalances")
  /\ LET m == call[c].at  todo == Owed(m)  IN
       /\ due' = [due EXCEPT ![m] = @ \cap todo]
       /\ IF todo = {} THEN Return(c)
          ELSE call' = [call EXCEPT ![c].pc = "updateAccrual", ![c].todo = todo,
                 ![c].nb = [b \in Balances |-> IF b \in todo THEN Accrued(b) ELSE 0]]
  /\ UNCHANGED <<row, gate, snaps, outside, credited, cut>>

\* The UPDATEs of a batch run together, so in any order.
UpdateAccrual(c) ==
  /\ At(c, "updateAccrual")
  /\ \E b \in call[c].todo :
       /\ row' = [row EXCEPT ![b].bal = call[c].nb[b], ![b].accrual = month]
       /\ credited' = [credited EXCEPT ![b][call[c].at] = @ + 1]
       /\ due' = [due EXCEPT ![call[c].at] = @ \ {b}]
       /\ IF call[c].todo = {b} THEN Return(c) ELSE call' = [call EXCEPT ![c].todo = @ \ {b}]
  /\ UNCHANGED <<gate, snaps, outside, cut>>

-----------------------------------------------------------------------------
(* initializeBalances and bulkInitNewType: the rows an employee, or a type, has not got *)

\* Sends the call rec to initializeEmployeeBalances for e and from there to then.
Initialize(rec, e, then) ==
  LET todo == RowsOf(e) \ There
      next == [rec EXCEPT !.e = e, !.then = then, !.todo = todo] IN
  [next EXCEPT !.pc = IF todo = {} THEN "readBereavement" ELSE "insertRow"]

InitializeStart(c, e) ==
  /\ "initialize" \in Endpoints
  /\ Begin(c, Initialize(NoCall, e, "idle"))
  /\ UNCHANGED <<row, gate, snaps, outside, histories>>

InsertRow(c) ==
  /\ At(c, "insertRow")
  /\ \E b \in call[c].todo :
       /\ row' = [row EXCEPT ![b] = NewRow(b)]
       /\ call' = [call EXCEPT ![c].todo = @ \ {b},
                               ![c].pc = IF call[c].todo = {b} THEN "readBereavement" ELSE @]
  /\ UNCHANGED <<gate, snaps, outside, histories>>

\* Where initializeEmployeeBalances ends.
Initialized(c) ==
  IF call[c].then = "idle" THEN Return(c)
  ELSE call' = [call EXCEPT ![c] = [@ EXCEPT !.pc = call[c].then, !.then = "idle", !.e = "none", !.todo = {}]]

\* A bereavement row that is empty and unused gets its days again.
ReadBereavement(c) ==
  /\ At(c, "readBereavement")
  /\ LET empty == {b \in RowsOf(call[c].e) \cap There :
                     Kind[b] = "bereavement" /\ row[b].bal = 0 /\ row[b].used = 0} IN
       IF empty = {} THEN Initialized(c)
       ELSE call' = [call EXCEPT ![c].pc = "topUp", ![c].todo = empty]
  /\ UNCHANGED <<row, gate, snaps, outside, histories>>

TopUp(c) ==
  /\ At(c, "topUp")
  /\ row' = [b \in Balances |-> IF b \in call[c].todo THEN [row[b] EXCEPT !.bal = InitialBalance(b)] ELSE row[b]]
  /\ Initialized(c)
  /\ UNCHANGED <<gate, snaps, outside, histories>>

\* One employee of bulkInitNewType: the read and the INSERT come to the INSERT alone.
BulkInit(b) ==
  /\ "initialize" \in Endpoints /\ ~row[b].there
  /\ row' = [row EXCEPT ![b] = NewRow(b)]
  /\ UNCHANGED <<gate, snaps, outside, histories, call>>

-----------------------------------------------------------------------------
(* addBalance and adjustBalance, for earned and compensation leave only *)

Creditable(b) == Kind[b] \in {"earned", "compensation"}
Capped(b, n) == IF Kind[b] = "compensation" THEN Smaller(n, Cap[b]) ELSE n

AddStart(c, b, delta) ==
  /\ "add" \in Endpoints /\ Creditable(b)
  /\ LET rec == [NoCall EXCEPT !.pc = "readBalance", !.b = b, !.delta = delta] IN
       Begin(c, IF row[b].there THEN rec ELSE Initialize(rec, Owner[b], "readBalance"))
  /\ UNCHANGED <<row, gate, snaps, outside, histories>>

\* Mutant: a debit is not cut off at zero.
ReadBalanceUncut(c) ==
  /\ At(c, "readBalance")
  /\ LET b == call[c].b  nb == row[b].bal + call[c].delta IN
       /\ nb <= MaxBalance
       /\ call' = [call EXCEPT ![c].pc = "addToBalance", ![c].nb[b] = Capped(b, nb)]
  /\ UNCHANGED <<row, gate, snaps, outside, histories>>

ReadBalance(c) ==
  /\ At(c, "readBalance")
  /\ LET b == call[c].b  nb == Larger(0, row[b].bal + call[c].delta) IN
       IF row[b].there /\ nb <= MaxBalance
         THEN call' = [call EXCEPT ![c].pc = "addToBalance", ![c].nb[b] = Capped(b, nb)]
         ELSE Return(c)
  /\ UNCHANGED <<row, gate, snaps, outside, histories>>

AddToBalance(c) ==
  /\ At(c, "addToBalance")
  /\ row' = [row EXCEPT ![call[c].b].bal = call[c].nb[call[c].b]]
  /\ Return(c)
  /\ UNCHANGED <<gate, snaps, outside, histories>>

\* adjustBalance writes what HR asked for, whatever the row holds.  That it is not
\* negative is HR's doing: the code does not ask.
AdjustBalance(b, n) ==
  /\ "adjust" \in Endpoints /\ Creditable(b) /\ row[b].there
  /\ row' = [row EXCEPT ![b].bal = Capped(b, n)]
  /\ UNCHANGED <<gate, snaps, outside, histories, call>>

-----------------------------------------------------------------------------
(* processYearEnd: earned, then bereavement, then compensation leave *)

Phase(b) == CASE Kind[b] = "earned" -> 1 [] Kind[b] = "bereavement" -> 2 [] OTHER -> 3

YearEndStart(c, y) ==
  /\ "yearEnd" \in Endpoints
  /\ Begin(c, [NoCall EXCEPT !.pc = "readRow", !.left = Balances, !.at = y])
  /\ UNCHANGED <<row, gate, snaps, outside, histories>>

\* The row is done with: on to the next.
NextRow(c, b) ==
  IF call[c].left \subseteq {b} THEN Return(c)
  ELSE call' = [call EXCEPT ![c].left = @ \ {b}, ![c].b = "none", ![c].pc = "readRow", ![c].found = FALSE]

\* b is "none", or the row whose initialization has just been awaited.
ReadRow(c) ==
  /\ At(c, "readRow")
  /\ \E b \in call[c].left :
       /\ IF call[c].b = "none" THEN \A o \in call[c].left : Phase(b) <= Phase(o) ELSE b = call[c].b
       /\ CASE row[b].there /\ row[b].reset = call[c].at -> NextRow(c, b)
            [] row[b].there /\ row[b].reset # call[c].at ->
                 call' = [call EXCEPT ![c].pc = "snapshot", ![c].b = b, ![c].found = TRUE]
            [] ~row[b].there /\ Kind[b] = "earned" /\ call[c].b = "none" ->
                 call' = [call EXCEPT ![c] = Initialize([@ EXCEPT !.b = b], Owner[b], "readRow")]
            [] ~row[b].there /\ Kind[b] = "bereavement" ->
                 call' = [call EXCEPT ![c].pc = "snapshot", ![c].b = b, ![c].found = FALSE]
            [] OTHER -> NextRow(c, b)
  /\ UNCHANGED <<row, gate, snaps, outside, histories>>

\* Mutant: an empty balance is reset without a snapshot.
SnapshotUnlessEmpty(c) ==
  /\ At(c, "snapshot")
  /\ snaps' = [snaps EXCEPT ![call[c].b] = IF row[call[c].b].bal = 0 THEN @ ELSE @ \cup {call[c].at}]
  /\ Goto(c, "reset")
  /\ UNCHANGED <<row, gate, outside, histories>>

SnapshotBalance(c) ==
  /\ At(c, "snapshot")
  /\ snaps' = [snaps EXCEPT ![call[c].b] = @ \cup {call[c].at}]
  /\ Goto(c, "reset")
  /\ UNCHANGED <<row, gate, outside, histories>>

\* resetELBalance, resetBereavementBalance, and for a row that was not found the
\* upsert insertBereavementBalance, which also forgets what was used.
ResetBalance(c) ==
  /\ At(c, "reset")
  /\ LET b == call[c].b  days == IF Kind[b] = "bereavement" THEN 4 ELSE 0 IN
       /\ row' = [row EXCEPT ![b] =
            IF call[c].found THEN [@ EXCEPT !.bal = days, !.reset = call[c].at]
            ELSE [there |-> TRUE, bal |-> days, used |-> 0, accrual |-> month, reset |-> call[c].at]]
       /\ NextRow(c, b)
  /\ UNCHANGED <<gate, snaps, outside, histories>>

\* A statement of the year end fails, the catch goes on with the next employee.
RowFails(c) ==
  /\ call[c].pc \in {"snapshot", "reset"}
  /\ NextRow(c, call[c].b)
  /\ UNCHANGED <<row, gate, snaps, outside, histories>>

-----------------------------------------------------------------------------
(* What else happens: approvals, cancellations, time, restarts *)

\* deductBalance, for an approved request (LeaveRequests).
DeductBalance(b, d) ==
  /\ "requests" \in Endpoints /\ row[b].there /\ row[b].bal >= d /\ taken[b] + d <= MaxUsed
  /\ row' = [row EXCEPT ![b].bal = @ - d, ![b].used = @ + d]
  /\ taken' = [taken EXCEPT ![b] = @ + d]
  /\ UNCHANGED <<gate, snaps, month, histories, call>>

\* restoreBalance, for a request that was approved.
RestoreBalance(b, d) ==
  /\ "requests" \in Endpoints /\ row[b].there /\ taken[b] >= d /\ row[b].bal + d <= MaxBalance
  /\ row' = [row EXCEPT ![b].bal = @ + d, ![b].used = @ - d]
  /\ taken' = [taken EXCEPT ![b] = @ - d]
  /\ UNCHANGED <<gate, snaps, month, histories, call>>

MonthPasses ==
  /\ month + 1 \in Months
  /\ month' = month + 1
  /\ UNCHANGED <<row, gate, snaps, taken, histories, call>>

\* The server restarts, or the statement fails: the call is gone (ensureAccrualRun
\* and the cron job swallow the error).
Restart(c) ==
  /\ "restart" \in Endpoints /\ ~At(c, "idle")
  /\ cut' = IF Accruing(c) THEN cut \cup {call[c].at} ELSE cut
  /\ Return(c)
  /\ UNCHANGED <<row, gate, snaps, outside, credited, due>>

-----------------------------------------------------------------------------
Start(c) ==
  \/ AccrualStart(c)
  \/ \E e \in Employees : InitializeStart(c, e)
  \/ \E b \in Balances, delta \in Credits : AddStart(c, b, delta)
  \/ \E y \in Years : YearEndStart(c, y)

Continue(c) ==
  \/ EnsureRows(c) \/ ReadBalances(c) \/ UpdateAccrual(c)
  \/ InsertRow(c) \/ ReadBereavement(c) \/ TopUp(c)
  \/ ReadBalance(c) \/ AddToBalance(c)
  \/ ReadRow(c) \/ SnapshotBalance(c) \/ ResetBalance(c) \/ RowFails(c)

Next ==
  \/ \E c \in Calls : Start(c) \/ Continue(c) \/ Restart(c)
  \/ \E b \in Balances :
       \/ BulkInit(b)
       \/ \E n \in Credits \cap Nat : AdjustBalance(b, n)
       \/ \E d \in Days : DeductBalance(b, d) \/ RestoreBalance(b, d)
  \/ MonthPasses

Spec == Init /\ [][Next]_vars

-----------------------------------------------------------------------------
(* Properties                                                              *)

\* The tables and the calls in progress hold values of their types.
TypeOK ==
  /\ row \in [Balances -> [there : BOOLEAN, bal : Int, used : Int, accrual : Months \cup {0}, reset : Years \cup {0}]]
  /\ gate \subseteq Months /\ month \in Months
  /\ snaps \in [Balances -> SUBSET Years]
  /\ taken \in [Balances -> 0..MaxUsed]
  /\ credited \in [Balances -> [Months -> Nat]]
  /\ due \in [Months -> SUBSET Balances] /\ cut \subseteq Months
  /\ call \in [Calls ->
       [pc : Labels, b : Balances \cup {"none"}, e : Employees \cup {"none"}, todo : SUBSET Balances, left : SUBSET Balances,
        nb : [Balances -> Int], at : Months \cup Years \cup {0}, delta : Credits \cup {0},
        then : {"idle", "readBalance", "readRow"}, found : BOOLEAN]]

\* Writes of balances worked out from stale reads, by accruals, credits and resets
\* that race with approvals, may be wrong but never put a row below zero
\* (LeaveService.ts:281-284, 678; LeaveRepository.ts:312).
BalanceNotNegative == \A b \in Balances : row[b].bal >= 0

\* A month is credited to a row at most once, however many servers start, cron
\* jobs fire and pages are read, also after a restart in the middle
\* (LeaveService.ts:267-268, 310-319).
CreditedOncePerMonth == \A b \in Balances, m \in Months : credited[b][m] <= 1

\* A balance is not reset for a year before its snapshot for that year is kept,
\* also when two year ends and a restart interleave (LeaveService.ts:741-742).
SnapshotBeforeReset == \A b \in Balances : row[b].reset # 0 => row[b].reset \in snaps[b]

\* Once the accrual of a month is over, and no restart or error cut it off, nobody
\* who was owed its credit when it read the balances is left without
\* (LeaveService.ts:269-308; app.ts:207).
AccrualComplete ==
  \A m \in gate \ cut :
    (\A c \in Calls : Accruing(c) => call[c].at # m) => due[m] = {}
=============================================================================
