# eHire in TLA+

eHire is an HR system: a TypeScript HTTP server (Express handlers over a Postgres database reached
through a shared client) and a React client. This directory models the parts of the server where
several people, or one person twice, work on the same rows: leave and leave balances, loans, equipment,
offboarding and onboarding, the recruitment pipeline and its emails, attendance, and the change requests
of employees. The modules are checked with TLC on small instances, and the properties
that matter most are proved with TLAPS for every instance.

`src/` below is the root of the repository; `src/server/modules/leave/LeaveService.ts` is shortened to
`LeaveService.ts` and so on. `PROJECT.json` maps every definition to the lines it models.

## 1. The system

### How it runs

One Node process (or several serverless instances of it) serves requests. A handler of a service
(`*Service.ts`) reads and writes through a repository (`*Repository.ts`), and every repository method
is one SQL statement on a shared client (`src/server/core/base/BaseRepository.ts`). There is no
transaction around a handler and no lock on a row. The consequence is the same everywhere, and is
what these models are about:

* a handler is a sequence of statements that commit one by one, and any other handler may run
  between two of them;
* what a handler read before is stale when it writes, unless the UPDATE repeats the test in its WHERE;
* a handler that throws half way leaves what it has written.

The guards that hold the system together are thus the conditional UPDATEs
(`... WHERE id = $1 AND status = 'pending'`), the unique indexes, the foreign keys, and a few
compensating statements. Which of the promises these keep, and which they do not, is the question.

### Components

| component | state | operations | what makes it correct | modelled in |
|---|---|---|---|---|
| leave requests | `leave_requests`, `leave_approvals`, `employee_leave_balances`, leave rows of `attendance_records` | submit, approve a step (with override), reject, cancel, delete | no overdraft, no two overlapping requests, decisions final, the balance is what the approved requests say | `LeaveRequests`, `LeaveLedger`, `LeaveRefinement` |
| leave balances | `employee_leave_balances`, `leave_accrual_run`, `leave_year_end_snapshots` | monthly accrual, initialization, credits and adjustments, year end | a month credited once and completely, no reset without a snapshot, no negative balance | `LeaveBalances` |
| loans | `loan_applications`, `loan_records`, `loan_payments` | approve, reject, create, update, delete, pay | every payment booked once, completed by its last month, no loan before a decision | `Loans` |
| assets | `stock_items`, `assigned_systems` | assign from stock, create, update, delete a system, return | no unit of the stock is lost | `AssetCustody` |
| offboarding | `offboarding_records`, `offboarding_tasks`, `employees.employment_status` | initiate, task, complete, cancel, exit date, delete | a completed leaver holds nothing, a completed return task is about a returned asset, a closed record stays closed | `Offboarding` |
| recruitment pipeline | `applications`, `offers`, `employees` | move stage, restore, schedule an interview, create and update an offer, review it, link, answer, hire, delete | nobody is hired on an unapproved offer, the stage agrees with the offer, approvals only advance | `Recruitment` |
| scheduled emails and reminders | `scheduled_recruitment_emails`, `interview_feedback` | queue with a stage transition, cancel, feedback, reminders, the two jobs that send | an email is sent once, none is queued for somebody in the pipeline, none is forgotten | `ScheduledMail` |
| onboarding | `onboarding_records`, `onboarding_tasks`, `employees`, `users.email` | initiate, tasks, complete, reopen, delete, the effects of a tick | completed means its tasks are done, one onboarding per person, the login follows the address | `Onboarding` |
| attendance | `attendance_records`, the legal audit | check in and out, sweep, manual entry, edit, delete, restore, leave rows | every change is logged, a forgotten row is closed if somebody calls the sweep, after its check-in | `AttendancePolicy`, `Attendance` |
| change requests, profile photos | `change_requests`, `employees`, photo files, a cache | submit, approve (bulk), reject, delete, view, migrations, direct edits | the profile holds what was approved, HR sees the photos a request is about | `ChangeRequests` |
| employees | `employees` | the edits that meet the above | as above | `ChangeRequests`, `Onboarding` |
| departments, compensation, benefits, tasks, feed, tickets | one row for an operation | CRUD | nothing across rows or statements | no |
| authentication, policy, regions | sessions, roles | decisions on who may call | outside the scope | no |
| audit, notifications, email, dashboard, settings, time zones, integrations, client | append-only or read-only, or none | | nothing reads them back into a decision | no |

`PROJECT.json` has the full list with the reason for every part left out.

### How they interact

* An approved leave request writes rows into attendance; cancelling and deleting take them back.
* An approved loan application opens a loan record; payments are entered against the record.
* An offboarding lists the leaver's assets to make one return task for each; completing a return task,
  or the whole offboarding, calls `AssetService` to return them; completing it also makes the employee
  inactive. The onboarding of an employee assigns a laptop from stock (an endpoint of `AssetCustody`) and
  makes them active; an offboarding may mark the same employee as departed (`Depart` in `Onboarding`).
* Approving a change request, HR's direct edits and the photo migrations write one row of `employees`.
* A stage transition to rejected queues an email that a job sends later; a transition away cancels it. Four other handlers write
  the stage and know nothing of the queue.
* A hire reads the offer's approval, inserts an employee and marks the application.

### What is hard here

Races between the statements of two handlers (two approvals, an approval and a cancellation, two
offboardings), reads that are stale when used, handlers that fail half way (a shortfall after the
approval row was written, an INSERT an index refuses after the stage was moved), counters without a
lower bound in their UPDATE, jobs whose ticks overlap or that list a limited number of rows, servers
that stop between two statements, and long legal sequences that end where a guard meant nobody to be. The
hazards in `PROJECT.json` give each with its line and the properties that watch it.

## 2. Conventions of the models

* A **step** is one SQL statement (or one read). Tests on values already read belong to the step
  that read them.
* A **call** is a handler in progress: a record whose `pc` names the statement it runs next and whose
  other fields are what the handler has read and still uses. `Calls` bounds how many run at a time;
  after `Return` the slot is free again, so the number of calls one after another is unbounded.
* `XStart` is the read at the start of a handler with all early returns; a handler that would throw
  before it writes is a step not taken. The other actions are the statements, named after the
  repository's methods where those have a name of their own.
* A conditional UPDATE that matches no row is a step that changes nothing, with the branch the code
  takes on it.
* `Endpoints` selects the handlers a run calls. The definitions stay the same.
* Who may call what is left out: an action may be taken by anyone. The safety properties hold for
  every assignment of roles.
* A definition whose comment begins `Mutant:` is a plausible bug in the definition after it. It is
  not part of the model; TLC shows that the property notices it.
* A **crash** ends every call in progress between two statements: an action of `Loans`, `Onboarding` and
  `ScheduledMail`, and of `LeaveBalances` as the restart. In the other modules it is a call that never goes on, which
  leaves the same tables; the safety runs include it, as nothing forces a call to continue.
* A **history** variable records what happened and is read by no action's guard; it lets a property name
  the cases the code does not protect, so that what remains is checked.
* `MaxStarts` bounds the calls ever made, `MaxCrashes` and `MaxFaults` the failures.
* `TypeOK` (`PipelineTypeOK` in `Recruitment`) of every module that is run is a theorem; where it is not an invariant of a run too, the theorem is all there is.
* Deadlock is not checked: the system rests whenever nobody calls an endpoint.

## 3. The modules and what their runs show

### Leave: `LeaveRequests`, `LeaveLedger`, `LeaveRefinement`

`req`, `appr`, `bal`, `used` are the columns of the four tables; `leaveRows` the attendance rows the
leave system wrote. Days are counted in half days. `Chain` is what `buildApprovalChain` returns,
`AutoApproved` what `shouldAutoApprove` says, both constants of a request. `submitRequest` checks
for overlap, inserts, checks again and withdraws its own row if it finds a rival
(`SubmitCheckOverlap`, `SubmitInsert`, `SubmitRaceCheck`, `SubmitRollback`), then inserts the chain row by
row or deducts at once. `approveRequest` approves the skipped steps (override) and its own, counts what is pending, reads the
request again, deducts with a guarded UPDATE, approves with another, and gives the days back when
that one matched nothing (`ApproveCompensate`).

`LeaveLedger` is the abstract specification: each endpoint atomic, a paid request is charged when it
is approved. `LeaveRefinement` maps the detailed one to it: a request is invisible while its
submission may still withdraw it, and the balance a reader should see is the initial one less the
approved requests.

| run | instance | shows |
|---|---|---|
| `leave_races` (1.25 M states) | three paid requests of one employee, two overlapping, one auto-approved; chains of one and two steps; balance enough for one; two calls of all five endpoints | `NoOverdraft`, `NoOverlappingLeave`, `DecisionFinal`, `NoFreeDays`, `LedgerSettled`, `LeaveRowsJustified` |
| `leave_refines_ledger` (152 k) | the same with two-step chains; submit, approve, reject | `LedgerSpec`: the refinement; `TypeOK` |
| `leave_progress` (163 k) | one request, two steps, three calls, a balance that suffices | `DecisionFollows` (liveness), `NobodyStuck`, `ApprovalWitness` |
| `leave_lost_refund` | one request, two calls | what the schema says and the code does not do (section 5) |

The refinement holds for submit, approve and reject only: a cancellation may keep the days, and a
deletion restores them in an order of its own.

### Leave balances: `LeaveBalances`

`row` is `employee_leave_balances`, one for an employee and a type, `gate` the months in
`leave_accrual_run`, `snaps` the years in `leave_year_end_snapshots`. `taken` is the days of approved
requests, which `LeaveRequests` knows in detail: here an approval is its one guarded UPDATE and a
cancellation its restoring one. `credited`, `due` and `cut` are history: how often a month was
credited to a row, whom its accrual still owes, and which accruals a restart (or a failing statement) cut off.
`AccrualStart` inserts the gate row and goes on only if it was new; `ReadBalances` works the new balances out,
`UpdateAccrual` writes them one by one. `initializeEmployeeBalances` is shared by three handlers: the
field `then` says where it returns to. The year end takes the rows by phase (earned, bereavement,
compensation); `RowFails` is the catch around each row. `Legacy` are rows an earlier version left
empty, for which `initializeEmployeeBalances` has its top-up.

`leave_balances` (2.6 M states; an earned and a bereavement row of one employee, two months, one
year, two calls of everything): `BalanceNotNegative`, `CreditedOncePerMonth`, `SnapshotBeforeReset`,
`AccrualComplete`. The accrual of a month that a restart cuts off is not completed by any later call (section
5), so `AccrualComplete` is about the others. That HR does not enter a negative balance by `adjustBalance` is
an assumption on the input; the code does not test it. The instance holds no compensation row: it would take the
branches the other two take, apart from the one that leaves it out where it is missing, and the maximum on credits.

### Loans: `Loans`

`app`, `rec` and `rows` are the three tables. `amended` remembers which records `updateRecord` wrote,
as the bookkeeping property speaks of the others, and `failed` the applications and records whose second
statement never came, by a crash or because the INSERT of the loan was refused. `loan_books` (1.09 M states; one application, one
record, two payments, two calls of all seven endpoints, a crash): `PaymentsBooked`, `CompletedByLastMonth`,
`LoanAfterDecision`, and `ApprovedHasLoan`: an approved application has a loan (or had one that was deleted), is being given one, or
is among the failed. The instance has one amount, deduction and total, chosen so that
the months deducted alone may exceed the total: the balance is cut off at zero, in the code as in the property.

### Equipment and offboarding: `AssetCustody`, `Offboarding`

`AssetCustody` has the stock, the rows of assigned systems and the returns. `Offboarding` EXTENDS it
with the records, their tasks and the employment status, and composes the steps: its `Next` interleaves the calls of both, over one set of calls, because an offboarding
handler runs the return statements of `AssetService` in its own call. `late` and `listed` are history:
rows handed to an employee after a release had listed what they hold, which no release can know of.
A row's `tag` is the number of its asset id, worked out from the largest one and unique in the
table. "Active" stands for initiated and in notice, and the four standard tasks are one.

`offboarding_assets` (1.08 M states; two employees, one unit, one row, one record, two calls):
`UnitsNotLost`, `CompletedHoldNothing`, `TaskDoneMeansReturned`, `ClosedStaysClosed`. The instance
with one employee and two rows passes as well (5.7 M states) and is left out for its time.

### Recruitment: `Recruitment`

`app`, `offer`, `emp` are the tables, an offer at most one for an application (unique index). Stages
before verbal acceptance are one, since only their rank below "offer" is tested. An identity is an
employee number with a work email, both unique. `recruitment_pipeline` (373 k states; one
application, two identities, two calls, here `Tasks`, of all endpoints): `PipelineTypeOK`, `HireIsBacked`,
`ApprovalOnlyAdvances`. Three calls pass too (3.7 M states).

### Recruitment's emails: `ScheduledMail`

`mail` is the queue, `review` the rows of feedback with the state of their interview, `stage` what was last written of
an application: rejected, hired, or live for everything between. A transition (`TransitionStart`, `TransitionCancel`, `TransitionUpdate`) cancels
the queued email before the stage leaves rejected; the email of a rejection is queued behind the answer (`TailCancel`, `TailInsert`), since the handler
does not wait for it. The other writers of the stage, `hireCandidate`, `sendInterviewSchedule`, `createOffer` and `updateOffer` when the offer is
rejected, are `HandlerStart` and `HandlerWrites`: a test of the stage (a rejected offer has none) and an UPDATE that leaves the queue alone. Their tests of
the offer and of the link to an employee are in `Recruitment` and left out here, so that they may write more often than in the code.

`PollStart` is the query of a tick, oldest first and limited; `Send`, `Mark` and `MarkFailed` are the body of its loop, row by
row. Both jobs have this shape, so one set of actions serves both. `notifyEmail` may also return without sending, as HR has switched the event off
(`Skip`), or throw (`SendThrows`, which it does only before it sends); and the UPDATE that marks may throw within the same try (`MarkThrows`), as may the
one in the catch (`FailThrows`). `tries` counts what was handed to the provider, `skipped` has what was passed over; `again` has the
rows two ticks held at once, or that a crash or a failing UPDATE caught between sending and marking; `mixed` the applications that two requests which write
the stage worked on at a time, tails included.

`scheduled_mail` (245 k states; two applications, two emails, one review, one row per tick, two requests, two workers, one fault):
`NoneQueuedInPipeline` (a candidate who is neither rejected nor hired has no rejection email queued, unless requests were mixed), `DeliveredAsMarked` (what is
marked as sent was sent or passed over, and sent once unless in `again`), `NothingLeftBehind` (liveness: whatever is due is dealt with, although each query takes
the oldest row only). A fault is a crash, a row passed over, or an exception within the try. Two things are left out: the deletion of an application,
which takes its emails with it (`ON DELETE CASCADE`), and a candidate hired keeps a queued email (section 5), which is why the first property is about the pipeline.

### Onboarding: `Onboarding`

`rec` and `task` are the tables, `status` and `work` columns of the employee, `login` the address of their user.
`InitiateStart`, `FindExisting`, `CreateRecord` and `InsertTasks` are `initiateOnboarding`, one INSERT a step;
`UpdateStart`, `SetStatus` and `Activate` complete or reopen a record; `WriteTask` ticks or unticks, and for the work-email task
goes on to `SetEmail` and then the login (`SyncRead`, `SyncWrite`), the same steps that end a direct edit of the profile
(`EditStart`, `EditWrite`). That edit may send the employment status too, with an address or without, and writes it unseen (`Employ`): `Edited` has the pairs it
sends. An UPDATE that a unique index refuses ends the call with the statements before it in place. `left` remembers that the
employee departed, `exposed` that there was an onboarding, or one being initiated, when they last did, and `rehired` that HR has set another status since.

`onboarding` (826 k states; two items, two records, five calls, two at a time, one crash; edits of an address, of the status, to departed or to active, and of
both): `CompletedMeansDone`, `OnboardedOnce` (a second onboarding takes two overlapping initiations; somebody who departed is active
again only by an onboarding they had when they last did, or after HR has edited their status), `LoginFollows` (when nobody writes addresses and no write failed or overlapped
another, the login has the work address). All four properties of the run are theorems (section 4).

### Attendance: `AttendancePolicy`, `Attendance`

`AttendancePolicy` translates `attendancePolicy.ts`: the window of a shift, the status and the overtime a day
earns. Time is in units of a day of `DayLength`; a policy is a name, so a row's frozen policy is compared and never computed with.
`row` is `attendance_records`, with soft deletion and the partial unique index on the date; `live` is the policy in effect, `leave` the
approved leave. Each handler is its reads and its one write, followed by the row of the legal audit: `audited` says whether the last
writer of a row has logged it. `SweepStart` lists open rows, oldest first; `SweepRow`, `SweepBefore`, `SweepUpdate` and `SweepAudit` are its loop. Nothing in the loop
catches an exception, so a statement that throws ends the sweep (`SweepThrows`) and leaves the rows behind it to the next. `asText` is whether the driver hands a
DATE column over as text, chosen once in `Init`: where it is a `Date`, the text the sweep makes of it is one the database refuses, every sweep throws at its first row,
and so does an edit of a row that has no check-in (`UpdateLeave`).

`attendance` (564 k states; a day and an overnight policy, two dates, two rows, three calls or throws of a sweep, two calls at a time, sweeps of one row, dates
as text or not): `AuditCovers` (the last change of a row by a check-in, check-out, HR or the sweep is logged or about to be, unless the sweep's log entry threw),
`AutoCloseAfterCheckIn` (an automatic check-out is not before its check-in, provided nobody may check in after the shift is over), `ForgottenRowsClosed`
(liveness: an open row does not stay open, where dates arrive as text and somebody calls the sweep again and again).

### Change requests: `ChangeRequests`

`profile` is the employee's row, `req` the requests, `file` the one photo file an employee has in SharePoint, `seen` the server's
cache of the pictures HR reviews. A value is its content and how it is held, since a photo may be base64, a link to a file of its
own, or a link to the employee's file, whose content the next upload replaces. Approval is find, upload, apply, mark
(`ApproveFind` to `ApproveMark`), for one request or in a loop for many, with a failing request passed over (`Skip`). The photo migrations
(`MigrateOld`, `MigrateNew`, `PhotoUpload`, `PhotoDownload`, `PhotoSave`) and HR's direct edits write the same rows.

`change_requests` (783 k states; two requests, the photo and another field, five calls, two at a time): `ProfileBacked` (what the
profile shows and a request put there belongs to an approved one, one being approved, or one deleted since), `ShowsItsPhotos` (the cached
picture of a request is the one it was submitted with). A photo submitted as a plain http link, which is stored as it is and whose
content is somebody else's, is left out of `StoredForms`.

### Bounds

One or two of everything that contends is enough for each race the handlers can run: every conflict is
between statements of two calls on one request, record, row or offer, and a slot that returns is used
again. Three calls add only that a third acts between two steps of the other two; the proofs
do without a bound. The runs with larger instances named above were made once and are not kept.

| bound | where | why it is enough |
|---|---|---|
| `Calls` = 2 (3 in `leave_progress`) | all | a race needs two; slots are reused |
| `MaxBalance`, `MaxUsed`, two months, one year | leave balances | a credit, a request and their cancellation meet each other; two accruals of a month, and one that outlasts its month |
| `MaxStep` = 2 | leave | a manager's step and a later one; longer chains repeat the pattern |
| `MaxRecords`, `MaxPayments` | loans | one record, two payments: the last month can be paid twice at once |
| `MaxRows`, `MaxRecords` | offboarding | a row and record that two calls contend for |
| `MaxStarts`, `MaxCrashes` | onboarding, change requests, attendance, loans | five calls are an initiation, a completion, a departure's follow-up and two that race; one crash shows what a crash leaves, as nothing is remembered of it; in attendance the throws of a sweep count as calls |
| `Apps`, `MaxMails`, `MaxStarts` = 2, `MaxFaults` = 1 | emails | two requests race for one application, or two applications' emails wait for each other; a fault is forgotten but for `again` and `skipped` |
| `Limit`, `SweepLimit` = 1 | emails, attendance | the smallest page, on which rows have to wait for each other |
| `MaxTime` | emails, attendance | the last moment at which something becomes due, and one after it |

### Fairness

Three runs use it. `leave_progress` assumes `WF_vars(Continue(c))` for every call: Node runs a handler that has
started to its end, since nothing in the handlers waits for anybody else. Nobody is obliged to start a
call, so there is no fairness on `Start`.

`attendance` assumes that calls continue and that the clock goes on (`Fairness`). The
clock only moves while no handler is between two statements (a bound: handlers are short beside a unit of time), so its
fairness is strong: calls keep disabling it for a while. That sweeps begin again and again is an assumption of its own (`SweptAgain`), about the outside:
the server starts four jobs (`app.ts:188` to `:203`) and none of them is the sweep, which is a script that runs once (`jobs/attendanceAutoCheckout.ts`) and an endpoint, whose header asks
whoever runs the server to schedule it. `ForgottenRowsClosed` says what the sweep does for those who do.

`scheduled_mail` assumes weak fairness of the handlers and of a tick's loop, and strong fairness of the polls of each job,
which a tick still in progress may disable: the server starts both jobs when it starts, and cron every minute (`app.ts:192` to `:203`). The number of faults is bounded, so a row that fails for ever is not covered.

## 4. What is proved

Every module `XProofs` EXTENDS the module of its component: `LeaveRequestsProofs`, `LeaveBalancesProofs`, `LoansProofs`,
`OffboardingProofs`, `RecruitmentProofs`, `OnboardingProofs`, `AttendanceProofs`, `ChangeRequestsProofs`. `RecruitmentProofs` EXTENDS both modules
of recruitment, `Recruitment` and `ScheduledMail`, whose names are kept apart for that: where both need one, the pipeline's says
`Pipeline` or `Task` (`PipelineSpec`, `PipelineTypeOK`, `task`, `TaskGoto`). Neither half cites anything of the other. The theorems hold for every
value of the constants that the named assumptions allow, and these only give types and say what the tables guarantee:

| assumption | beside the types of the constants |
|---|---|
| `ConstantsOK` (leave requests) | there is a request, a request takes at least half a day; finitely many requests and calls, as their days are added up |
| `BalanceConstants` | months and years are positive (0 stands for none), the first month is among them |
| `LoanConstants` | no application is the mark of a record made by hand; finitely many calls |
| `CustodyAssumption` | `NoItem` is no stock item; finitely many calls, as the units they carry are counted |
| `NoneIsNoId` (recruitment) | SQL's NULL is no id |
| `MailAssumption` | emails, reminders and the values that stand for none are kept apart |
| `OnboardingAssumption` | the employee's own address is nobody else's |
| `PolicyAssumption` (attendance) | a day is not empty, shifts begin and end within it, a half day is a percentage of 1 to 100, to which the update of a policy clamps it |
| `AttendanceAssumption` | dates are not negative, SQL's NULL is no policy, the marks of the log are no calls |
| `ChangeRequestsAssumption` | the photo is a field |

Two theorems have a hypothesis of their own. `NobodyLeftWaiting` assumes `[]BalanceSuffices` (whenever a final approval deducts, the balance
is there): without it the code leaves a request stuck (section 5), and the run of `NobodyStuck` has a balance that always suffices.
`ImplementsLedger` and its corollary assume `OnlyDecided`, the endpoints of their run: submit, approve, reject. A cancellation may
keep the days, and then no ledger is implemented.

Every module has its type theorem (`TypeCorrect`, `TypesHold`). With it go what the record of a call holds at each statement
(`Argued`, `ArguedCall`, `ArguedWork`) and, where rows are numbered, that the numbers are given out in order (`InOrder`, `RowsInOrder`), so that
the next one, a count of rows, is fresh.

### Leave requests

* `NeverOverdrawn`: `NoOverdraft`. Inductive with the types alone: a charge is guarded by
  the balance it is taken from in the same UPDATE, and everything else only adds.
* `NoTwoOverlap`: `NoOverlappingLeave`. A request is *settled* when it is active and its submission
  is past the race check. Only three statements can settle a request or make it active: the INSERT
  leaves it unsettled, the race check settles it only when no rival is active, hence
  none is settled, and the rollback removes it.
* `SubmitterIsAlone`, `DecisionsAreFinal`: the UPDATEs of a status are guarded, except the INSERT;
  that one acts on an absent row because no other call can know the row (the strengthening).
* `RowsAreJustified`: `LeaveRowsJustified`. Whoever is about to write attendance rows works on a request that was granted once
  (`SyncsGranted`), and a granted request never goes back to pending.
* `ApprovedByHand`: `ApprovalWitness`. The step a call has approved stands as long as the request is pending. That needs the order of the chain:
  nothing below a decided step is pending (`InOrder`), no call about to decide a step has a pending one below it (`Ordered`), and the steps still
  to be inserted are those above the ones that are there (`StepsToCome`), by the one submission of the request.
* `NobodyLeftWaiting`: `NobodyStuck`. Once a pending request has no pending step, some call is past the approval or rejection
  of a step and decides the request (`SomebodyFinishes`). A call that counts another step pending may leave, as the step it saw
  is what the invariant asks for.
* `BooksBalance`: `LedgerSettled`, and `NoDaysFromNowhere`: `NoFreeDays`. Between two statements, what was used is the days of the requests that hold theirs
  (`RowHeld`: approved and paid for, or their refund is still to come) plus those that calls have in hand (`InHand`: deducted and not
  yet approved), unless a cancellation has lost days (`LedgerKept`); balance and use add up to the initial balance (`Conserved`).
  Each statement moves the days of one request and one call from one of these to the other (`Booked`). `Places` says what
  a call at each statement knows of its request. Where nothing is cancelled or deleted, rollbacks count too: what one takes away is as its submission
  inserted it (`Undisturbed`).
* `ImplementsLedger`: `LedgerSpec`. Every step is a step of `LeaveLedger` or a stutter, from the invariants above (`Sound`). An insertion is invisible until the race
  check has passed (`HiddenUntil`), which is where a submission that waits for approval becomes visible; an automatic approval becomes visible with
  its deduction, and an approval at its last UPDATE, where the days it has in hand show that the visible balance was enough. One lemma for each handler
  (`SubmitImplements`, `DecideImplements`, `StartImplements`).
* `ReadersSeeOrder`: what the refinement is good for. The ledger itself keeps balances from going below zero and overlapping requests apart
  (`LedgerInOrder`), so that what readers see between any two statements is in order too (`SeenInOrder`); no run has this property.

Sums over sets: `MapThenSumSet` folds with a recursive function, and what it computes would take an induction over the set. The library's fact
that strict inclusion is well founded on the subsets of a finite set gives, without an operator as a parameter, that a non-empty set of
subsets has a smallest one (`SmallestSubset`), which does the work of the induction: the equation of the sum has a solution on all subsets
(`SumsSolvable`), two solutions agree, the fold is one, and adding or removing an element adds or removes its weight.

### Leave balances

* `NeverNegative`: `BalanceNotNegative`. A row's balance and every balance a call has worked out and is about to write are at least zero (`Argued`);
  the deduction is guarded in its UPDATE.
* `SnapshotsFirst`: `SnapshotBeforeReset`. A call about to reset a row has kept its snapshot (`Snapped`), and snapshots are only added.
* `CreditedOnce`, `NobodyForgotten`: `CreditedOncePerMonth`, `AccrualComplete`. One call accrues a month, the one whose gate row was new (`Gated`); the rows
  it has still to credit were not credited (`OnceCredited`), and what the month owes is on its list (`Followed`), unless
  the accrual is in `cut`.

### Loans

* `LoansAreDecided`: `LoanAfterDecision`. A call about to open a loan works on a decided application (`Foreseen`), and a decision is only ever
  replaced by another.
* `ApprovedLoansOpened`: `ApprovedHasLoan`. Every approved application has its loan, or a call about to open it, or is among the
  failed (`HasLoan`); a crash moves it from the second to the third.
* `CompletedOnTime`: `CompletedByLastMonth`. A record never amended is completed only when its months are all paid, and once they are, it is completed or the call that
  entered the last payment is about to book it (`InTime`).
* `PaymentsAreBooked`: `PaymentsBooked`. The balance of a record never amended is its opening balance less the payments entered, but for those that calls have in
  hand (`Due`). Entering a payment adds it to both, booking it takes it out of the calls' hands. The number and the sum in hand
  are values of additive functions over the sets of calls (`Adds`) that the invariant says exist; when no call is paying, they are zero (`AddsNothing`).

### Equipment and offboarding

* `ClosedForGood`: `ClosedStaysClosed`. A call about to delete a record works on one that is closed (`Knows`), the UPDATEs of the others test it, and a
  record inserted is a new one (`RecordsInOrder`).
* `NoUnitLost`: `UnitsNotLost`. The units on the shelf, in use and on their way back are never fewer than there were, and those being taken (`Stocked`); no row
  is returned or deleted without a call that carries its unit.
* `CompletionCollects`: `CompletedHoldNothing`. A record is completed before the equipment is listed, so the invariant (`Collected`) says: the completion has not listed yet, or it
  collects every row the employee holds that did not come later (`late`).
* `TasksTellTheTruth`: `TaskDoneMeansReturned`. A row whose task is done is gone, or the call that ticked the task is returning it (`Returned`).

### Recruitment

* `HiresAreBacked`: `HireIsBacked`. It is not inductive as it stands, as a hire inserts the employee two statements after it read the
  approval. `IInv` adds that a call about to insert works on an application whose offer has been approved or
  rejected since, or which is gone (`Reviewed`), that one about to mark has inserted its employee
  (`HiresChecked`), and that an offer is there as a whole or not at all (`OffersWhole`).
  `Reviewed` is never taken back (`TablesKept`), which is all that the other calls can do to it.
* `ReviewsAdvance`: `ApprovalOnlyAdvances`, from the same invariant.
* `QueueFollowsStage`: `NoneQueuedInPipeline`. Two requests that write the stage of one application are remembered (`Separate`); while none meet, the one
  in progress is past the UPDATE that rejects when it queues, and nothing is queued when it is about to put the candidate into the pipeline (`Poised`): a transition has
  cancelled it, and the other handlers started with a candidate who was there, for whom nothing waits (`QueuedRight`). A hire writes a stage the property does not speak of.
* `MarkedWasSent`: `DeliveredAsMarked`. Who is about to mark has sent or passed over; but for what is known to be sent twice (`again`), one tick holds a row and has not sent
  what is left of its list (`InHand`), and what was sent is either settled, so that no query lists it, or at one of the two UPDATEs that settle it (`Ends`, `SentOnce`).
  A crash, or an UPDATE that throws, there puts it into `again`.

### Onboarding

* `CompletedChecklistsDone`: `CompletedMeansDone`. A completion looks at the tasks one statement before it writes the status, so
  the invariant (`DoneSince`) speaks of every record that is completed *or about to be*: each of its required tasks is done or in `late`.
  Every write of a task either leaves it so or puts it there.
* `NoSecondOnboarding`: `OnboardedOnce`. The invariant (`Once`) ties the records to the initiations in progress: without an overlap
  there is one record or one initiation that has found none, and nobody who departed while there was neither comes into one, as
  `InitiateStart` refuses them, unless HR has edited their status since (`GoneForGood`). A step either makes no record and activates nobody without one (`Quiet`), or is of an initiation.
* `LoginsFollow`: `LoginFollows`. A write of addresses that nobody overlapped (`alone`) is the only one in progress, so login and work
  address agree up to what it has still to write (`Addressed`); every other way to end sets `split`.

### Attendance

* `EveryChangeLogged`: `AuditCovers`. One lemma for each kind of statement says who has to log a row after it (`LogMove`): the call that made it,
  which is then at the statement that logs, or whoever had to before, unless that one has just logged. With it the invariant is
  inductive as it stands, given the types; a start, or the beginning of a sweep, finds its slot idle, and an idle slot owes nothing. A sweep
  that throws at its log entry passes the row to nobody (`ThrowMoves`).
* `AutoClosesAfterCheckIn`: `AutoCloseAfterCheckIn`. The sweep works with what it has listed, while rows are closed, deleted, restored and edited and the
  policy in effect changes. The invariant (`InTime`) speaks of rows HR has not edited: a check-in lies before the end of the shift of the row's
  frozen policy (`Punched`), what a sweep has listed of a row is what the row still holds (`Faithful`), and a sweep about to close a row carries
  the end of its shift (`Closing`). The first holds of a row that is inserted because the check-in was let in, which `Argued` remembers of the call, and
  a shift is as long as its policy says (`ShiftLasts`, a theorem about `AttendancePolicy`, for day and overnight shifts). What the statements
  may do to a row is in `RowMove`; TLC checks `InTime` on the instance of the run.
* `PunchesStay`, an action property from the same lemmas, which no run has: nothing but an edit changes the check-in, the date or the frozen policy of a
  row, and no number is given to two rows, whatever is deleted.
* `SweepJudgesAlike`, `OvertimeIsNoShortDay`: the rules of `AttendancePolicy`. The sweep and a check-out at the same moment judge a day alike, but
  for the name of a short day, and a day that earns overtime is never a short one, for any percentage, minimum and leave.

### Change requests

* `OnlyApprovedShown`: `ProfileBacked`. Whatever a request put into the profile or into the photo file belongs to one that is approved or deleted, or there is a call that is past every refusal and bound to
  approve it (`Backed`, `Backing`; `Origins` for the two tables, `CallsKnow` for what the calls carry, among them what a migration has read and writes back).
* `ReviewShowsRequested`: `ShowsItsPhotos`. A photo that is not held in the employee's file keeps the content it was submitted with, and the cache has that content or
  nothing (`PhotosKept`); a migration carries what it has read of that very request (`Carries`).

### Only model-checked

The liveness properties (`DecisionFollows`, `NothingLeftBehind`, `ForgottenRowsClosed`), which need fairness and ENABLED and are beyond
TLAPS' backends, and `leave_lost_refund`, a counterexample. Every invariant and action property of the other runs is a theorem.

## 5. Disagreements

What the code does against its own documents, comments or guards. The first has a run that
finds the behaviour; the others were met while modelling and are the reason why a property is stated
as it is.

With a run:

1. **Lost refund** (`leave_lost_refund`). `cancelRequest` reads whether the request was approved before its
   UPDATE (`LeaveService.ts:906`); an approval in between is cancelled without a refund.
   `schema/leave.ts:239`: "Balance is deducted on approval, restored on cancellation."

Without one:

* Leave, approved over a rejection: between the first two of the three
  statements of `rejectApproval` the approval of the next step finds nothing pending and approves the request
  (`LeaveService.ts:1106`; `docs/LEAVE_MANAGEMENT_FLOW.md:88` has requests approved "only via the explicit auto-approve
  rule or after the full approval chain completes").
* Loans, two for one application: both approvals pass the read test ("cannot approve again", `LoansService.ts:96`); the
  UPDATE has none (`LoansRepository.ts:84`).
* Offboarding, two at once for one employee: both initiations find none active (`OffboardingService.ts:139`), which
  `schema/offboarding.ts:44` excludes: "employee_id is unique-per-active-offboarding".
* Recruitment, behind an active offer: scheduling an interview writes the stage without the
  floor that `workflowStage.ts:3` describes (`RecruitmentService.ts:1608`). No race is needed.
* Leave: a shortfall found after the approval row was written leaves the request pending with nothing
  to approve (`LeaveService.ts:1078`; `docs/LEAVE_IMPROVEMENTS.md:136` says one will fail and can
  retry). An approval between the INSERTs of the chain sees a short chain (`LeaveService.ts:879`). Cancelling unpaid
  leave does not take its attendance rows back (`LeaveService.ts:910`;
  `docs/LEAVE_MANAGEMENT_FLOW.md:161`). Two deletions, or a deletion and a cancellation, both restore the days. Two final
  approvals charge twice for a moment, and another request's approval may fail for it.
* Leave balances: a restart or an error between the gate row and the credits costs the remaining
  employees that month, since no later call passes the gate (`LeaveService.ts:316`; `app.ts:207`: "This ensures no month is
  ever missed due to a missed cron tick or a mid-month deploy"); so does a month in which no server started
  and nobody read a balance. An accrual that is still writing when the month changes sets `last_accrual_at` to the
  new month, whose own accrual then passes the row over. Accrual, `addBalance` and the reset write balances worked out from an
  earlier read, so a deduction or refund in between is lost (`schema/leave.ts:239`). Two year ends at
  once both pass the test of `last_reset_at` (`schema/leave.ts:222`: "idempotency"), keep two snapshots and reset twice;
  for a bereavement row neither found, the second forgets what was used meanwhile.
* Loans: a rejection overwrites an approval whose loan stays (`LoansRepository.ts:95`). The record's INSERT may fail, or the server
  stop, after the application was approved, which then stays without a loan and cannot be approved again (`LoansService.ts:127`); a
  payment cut off between its two statements is listed but not booked. A payment is accepted on a completed loan (`:282`).
  `updateRecord` always works the balance out anew (`:248`, against the comment at `:244`).
* Equipment: two assignments of the last unit take `available` to -1 (`AssetService.ts:269`: "No
  available units to assign"), two returns of one row count it twice (`AssetRepository.ts:76`), so
  `UnitsNotLost` states what remains: units are not lost, though they may be counted too often. Equipment can be
  assigned to an employee who has left; a row moved to somebody else after the listing is released all the same.
* Offboarding: a cancellation that read the record before its completion cancels it afterwards
  (`OffboardingService.ts:193`: "Cannot cancel a completed offboarding") and the employee stays departed. A
  record deleted between its completion and the audit row makes the audit INSERT fail, and the assets are not
  released. A completion between the INSERT of the record and those of its tasks finds nothing to wait for. Exit dates race with cancellations and
  with second initiations.
* Recruitment: an update of an offer's terms writes back the `sent_at` and `response_token` it read
  (`RecruitmentService.ts:2020`), so one that races the sending erases the token of the link just
  mailed (`schema/recruitment.ts:275`). Two hires of one application under two identities create two
  employees (`RecruitmentService.ts:2686`: "Already linked to an employee"). A stage move that read the application before
  a hire un-hires it (`:1150`: "Cannot change stage of a hired candidate"); one that races the creation of an offer leaves the stage behind it.
  An acceptance and a decline of one offer can both succeed. Rejecting an offer rejects its application even when that was hired.
* Emails: a candidate who is rejected, has an approved offer and is hired keeps the queued rejection email, which is then sent to a new employee
  (`RecruitmentRepository.ts:1322`, `RecruitmentService.ts:2698`; `RecruitmentRepository.ts:1853`: "Cancel queued emails that were not sent yet (e.g. candidate moved out of Rejected)."): no race is needed.
  An interview or an offer that races a rejection leaves the candidate in the pipeline with the email queued (`RecruitmentService.ts:1608`, `RecruitmentRepository.ts:1333`).
  An email whose event is switched off or unknown is not sent and marked as sent (`emailNotifications.ts:862`, `scheduledRecruitmentEmailCron.ts:51`). The try encloses the mark, so that
  an email already sent is marked as failed, and a reminder sent once more, if its UPDATE fails (`interviewFeedbackReminderCron.ts:38`).
  `notifyEmail` does not throw when the provider refuses (`emailNotifications.ts:886`), so a refused email is marked
  as sent; "failed" is reached by an exception of the database only, and is never retried. An email cancelled after a tick has listed
  it is sent and marked as sent all the same. The INSERT behind the answer may come after the candidate was taken back by another
  transition, and two transitions that both read the earlier stage may leave an email queued for somebody in the pipeline. A second
  INSERT the unique index refuses is swallowed, and its time with it. "Candidate has no email on file; cannot schedule" is thrown
  after the stage was changed. A crash loses what runs behind the answer. A reminder by hand is marked before it is sent.
* Onboarding: "Create record + sections + assignees + tasks atomically via sequential inserts." (`OnboardingRepository.ts:177`):
  a failure on the way leaves a part, and a second attempt is refused. Two initiations that race make two
  records. Completing an old record again makes somebody active who has left. HR's edit of the profile sets
  the status to any value (`EmployeeRepository.ts:4`, `ALLOWED_FIELDS`), so that it brings back somebody who has departed, without an onboarding, and ends an employment without an offboarding; the
  import from FreshTeam writes the status as well (`EmployeeService.ts:597`) and is not modelled. An edit of a task's details that races with a tick
  unticks it. A task may be unticked or emptied after the completion. The effects of a tick come about though the task was deleted. The
  address of the employee is set before the login's write is refused (409). The work-email task does not ask whether the address is in use, as the
  profile does: the unique index refuses it after the tick was saved.
* Attendance: where the driver hands a DATE column over as a `Date`, which the code reckons with (`AttendanceService.ts:79`: "may return string or Date"), `String(row.date).slice(0, 10)`
  is no date to the database (`:831`, `:747`; the cast is at `AttendanceRepository.ts:544`): every sweep throws at its first row and closes nothing, and HR's edit of a row without a check-in
  fails. No job of the server calls the sweep (`app.ts:188` to `:203`), and one row that throws ends it for the rows behind. A row closed whose log entry throws stays unlogged.
  Two check-outs, or one and the sweep, overwrite each other (`AttendanceService.ts:820`: "Idempotent per row; safe to run
  on a schedule"). The status is worked out from a read that is stale at the UPDATE. A manual entry may update a row deleted meanwhile, and
  a check-out of one is logged without a new value. With a check-in window up to 24 hours after the beginning of a shift the automatic check-out can precede
  the check-in. An overnight latecomer cannot check in after midnight, and whether a check-out after midnight belongs to the day before depends on the policy
  in effect by then. The leave system picks up deleted rows. Rows of leave are not in the legal
  audit, and a crash between a write and its row loses the row. The flags of a missed or automatic check-out survive a manual entry.
* Change requests: the photo file is named after the employee (`sharepoint.ts:166`), so a later upload changes what the
  "Previous value" (`schema/changeRequests.ts:39`) of a pending request shows. The upload precedes the UPDATE of an approval: a crash
  in between shows a photo nobody approved. An approval that races a rejection overwrites it, after the employee was told; one that races
  a deletion applies the value. The photo migration (`EmployeeService.ts:582`) writes back a photo it read before. HR may see a cached photo of the employee for up to ten minutes.

## 6. Not modelled, and why

* Roles, sessions and regions: an access decision restricts who takes an action, never what it does, and the safety
  properties hold for every assignment of roles.
* Audit rows other than attendance's, notifications, broadcasts and emails other than the scheduled ones: nothing reads them back.
* Departments, compensation, benefits, tasks, feed, tickets: one statement writes one row, and no other part decides by it.
  A model would restate the statement.
* Administrators' edits of policies and leave types, documents and templates, listings, imports and exports, the dashboard, the
  integrations: configuration, data conversion or I/O.
* The daily digest of missing check-ins (`missingCheckInAlertCron.ts`), which claims its day before it sends.
* The client: it keeps no state that outlives a page and decides nothing the server does not decide again. It is more than half of the code,
  which is why `PROJECT.json` maps a small part of the lines of the repository.
* A statement that fails for a reason of the database, except where the code has a branch for it or a property is about what remains.

## 7. Plan

In this order.

1. Leave with its ledger, loans, equipment and offboarding, recruitment; proofs for leave and
   recruitment. **Done.**
2. `LeaveBalances`: accrual, initialization, credits and year end. **Done.**
3. `ChangeRequests`. **Done.**
4. `AttendancePolicy`, `Attendance`. **Done.**
5. `Onboarding`, with its proofs. **Done.**
6. `ScheduledMail`. **Done.** Crashes and `createApplication` in `Loans`. **Done.**
7. Proofs for `Loans` and `ScheduledMail`. **Done.**
8. Theorems: `Offboarding` (`ClosedStaysClosed`, `UnitsNotLost`, `CompletedHoldNothing`, `TaskDoneMeansReturned`), `LeaveBalances` (all four of its
   run), `ChangeRequests` (both), the ledger and the chain of `LeaveRequests`, its refinement, `PaymentsBooked`. **Done.**
9. Theorems of `Attendance` (the types, `AuditCovers`, `AutoCloseAfterCheckIn`) and of the rules of `AttendancePolicy`. **Done.**

## 8. Running

    tlasany LeaveRequests.tla
    tlc -workers 2 -config LeaveRaces.cfg MCLeaveRequests.tla
    tlapm AttendanceProofs.tla

Every run of `PROJECT.json` ends within a few minutes on two workers.
