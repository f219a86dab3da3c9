--------------------------- MODULE ScheduledMail ---------------------------
(***************************************************************************)
(* The mail that recruitment sends by itself: rejection emails, queued by  *)
(* stage transitions for a later time, and interview feedback reminders,   *)
(* found by a query.  Two jobs look for what is due every minute, send it  *)
(* and mark it afterwards.  They are started by cron, by the start of a    *)
(* server and by other servers, so their ticks may overlap; a crash loses  *)
(* whatever is in progress.  A send that the provider refuses counts as    *)
(* tried: notifyEmail returns all the same.                                *)
(*                                                                         *)
(* Other handlers write the stage as well and know nothing of the queue:   *)
(* hireCandidate, sendInterviewSchedule, createOffer, and updateOffer when *)
(* the offer is rejected.  What else they do is in Recruitment, whose      *)
(* tests of the offer and of the link to an employee are left out here:    *)
(* these handlers may write more often here than there.                    *)
(***************************************************************************)
EXTENDS Integers, FiniteSets

CONSTANTS
  Apps,        \* the applications, in the pipeline to begin with
  MaxMails,    \* bound: rows of scheduled_recruitment_emails ever made
  Reviews,     \* rows of interview_feedback, seeded and with an email address
  ReviewOf,    \* the application of each
  EndOf,       \* the minute its interview ends
  Delays,      \* bound: how far ahead a rejection email is scheduled; 0: not at all
  Limit,       \* LIMIT of both queries
  MaxTime,     \* bound: the clock, in minutes
  MaxStarts,   \* bound: requests ever made
  MaxFaults,   \* bound: crashes, rows passed over, exceptions within a try (one in a catch follows such)
  Calls,       \* bound: requests in progress at a time
  Workers      \* bound: ticks of the jobs in progress at a time

MailIds == 1..MaxMails

ASSUME MailAssumption ==
  /\ MaxMails \in Nat /\ MaxTime \in Nat /\ MaxStarts \in Nat /\ MaxFaults \in Nat
  /\ Reviews \cap (MailIds \cup {0}) = {} /\ "none" \notin Apps
  /\ ReviewOf \in [Reviews -> Apps] /\ EndOf \in [Reviews -> Nat]
  /\ Delays \subseteq Nat /\ Limit \in Nat \ {0}

VARIABLES
  now,       \* the clock
  stage,     \* of each application: "rejected", "hired", or "live" for all the others
  mail,      \* scheduled_recruitment_emails
  review,    \* interview_feedback with the state of its interview
  call,      \* the requests in progress that write a stage, the tail a transition leaves behind included
  work,      \* the ticks in progress
  tries,     \* history: how often each mail and reminder was handed to the provider
  again,     \* history: those that may be sent twice, see below
  skipped,   \* history: those that were passed over, as HR had switched their event off
  mixed,     \* history: applications that two requests were in progress for at a time
  started,   \* requests made, of MaxStarts
  faults     \* so far, of MaxFaults

vars == <<now, stage, mail, review, call, work, tries, again, skipped, mixed, started, faults>>
queue == <<mail, review>>
bounds == <<started, faults>>
history == <<tries, again, skipped, mixed>>

Polled == MailIds \cup Reviews
NoMail == [st |-> "none", app |-> "none", due |-> 0]
NoCall == [pc |-> "idle", app |-> "none", to |-> "live", at |-> 0]
NoWork == [pc |-> "idle", rows |-> {}, x |-> 0]

Init ==
  /\ now = 0
  /\ stage = [a \in Apps |-> "live"]
  /\ mail = [i \in MailIds |-> NoMail]
  /\ review = [f \in Reviews |-> [st |-> "pending", reminded |-> "no"]]
  /\ call = [c \in Calls |-> NoCall]
  /\ work = [w \in Workers |-> NoWork]
  /\ tries = [x \in Polled |-> 0]
  /\ again = {} /\ skipped = {} /\ mixed = {}
  /\ started = 0 /\ faults = 0

PendingOf(a) == {i \in MailIds : mail[i].st = "pending" /\ mail[i].app = a}
NextMail == 1 + Cardinality({i \in MailIds : mail[i].st # "none"})

At(c, label) == call[c].pc = label
Goto(c, label) == call' = [call EXCEPT ![c].pc = label]
Return(c) == call' = [call EXCEPT ![c] = NoCall]

-----------------------------------------------------------------------------
(* applyApplicationStageTransition, and what it leaves to run behind the   *)
(* answer.                                                                 *)

\* Mutant: no email is cancelled when the application leaves rejected.
TransitionStartKeeps(c, a, to, at) ==
  /\ At(c, "idle") /\ stage[a] # "hired"
  /\ call' = [call EXCEPT ![c] = [pc |-> "update", app |-> a, to |-> to, at |-> at]]
  /\ mixed' = IF \E d \in Calls : call[d].app = a THEN mixed \cup {a} ELSE mixed
  /\ UNCHANGED <<now, stage, queue, work, tries, again, skipped>>

\* The application is read.  Leaving rejected cancels the queued email first.
TransitionStart(c, a, to, at) ==
  /\ At(c, "idle") /\ stage[a] # "hired"
  /\ call' = [call EXCEPT ![c] = [pc |-> IF stage[a] = "rejected" /\ to # "rejected" THEN "cancel" ELSE "update",
                                  app |-> a, to |-> to, at |-> at]]
  /\ mixed' = IF \E d \in Calls : call[d].app = a THEN mixed \cup {a} ELSE mixed
  /\ UNCHANGED <<now, stage, queue, work, tries, again, skipped>>

\* Mutant: a status that the CHECK of the table does not know.
CancelledMisspelt(a) ==
  mail' = [i \in MailIds |-> IF i \in PendingOf(a) THEN [mail[i] EXCEPT !.st = "canceled"] ELSE mail[i]]

Cancelled(a) ==
  mail' = [i \in MailIds |-> IF i \in PendingOf(a) THEN [mail[i] EXCEPT !.st = "cancelled"] ELSE mail[i]]

TransitionCancel(c) ==
  /\ At(c, "cancel")
  /\ Cancelled(call[c].app) /\ Goto(c, "update")
  /\ UNCHANGED <<now, stage, review, work, history>>

TransitionUpdate(c) ==
  /\ At(c, "update")
  /\ stage' = [stage EXCEPT ![call[c].app] = call[c].to]
  /\ IF call[c].to = "rejected" /\ call[c].at > 0 THEN Goto(c, "tailCancel") ELSE Return(c)
  /\ UNCHANGED <<now, queue, work, history>>

TailCancel(c) ==
  /\ At(c, "tailCancel")
  /\ Cancelled(call[c].app) /\ Goto(c, "tailInsert")
  /\ UNCHANGED <<now, stage, review, work, history>>

\* The unique index allows one pending email of an application; the error is
\* swallowed.
TailInsert(c) ==
  /\ At(c, "tailInsert")
  /\ IF PendingOf(call[c].app) # {} THEN UNCHANGED mail
     ELSE /\ NextMail \in MailIds
          /\ mail' = [mail EXCEPT ![NextMail] = [st |-> "pending", app |-> call[c].app, due |-> call[c].at]]
  /\ Return(c)
  /\ UNCHANGED <<now, stage, review, work, history>>

-----------------------------------------------------------------------------
(* The other writers of the stage.  One that throws before it writes       *)
(* changes nothing and is left out.                                        *)

\* The stage is tested first, but not when an offer is rejected.
HandlerStart(c, a, to) ==
  /\ At(c, "idle")
  /\ CASE to = "hired" -> stage[a] # "hired"
       [] to = "live" -> stage[a] = "live"
       [] to = "rejected" -> TRUE
  /\ call' = [call EXCEPT ![c] = [pc |-> "write", app |-> a, to |-> to, at |-> 0]]
  /\ mixed' = IF \E d \in Calls : call[d].app = a THEN mixed \cup {a} ELSE mixed
  /\ UNCHANGED <<now, stage, queue, work, tries, again, skipped>>

HandlerWrites(c) ==
  /\ At(c, "write")
  /\ stage' = [stage EXCEPT ![call[c].app] = call[c].to]
  /\ Return(c)
  /\ UNCHANGED <<now, queue, work, history>>

-----------------------------------------------------------------------------
(* Feedback: a reviewer submits it, the interview is cancelled or marked a *)
(* no-show, HR sends a reminder (marked first).                            *)

ReviewCloses(f) ==
  /\ review[f].st = "pending"
  /\ review' = [review EXCEPT ![f].st = "closed"]
  /\ UNCHANGED <<now, stage, mail, call, work, history>>

RemindByHand(f) ==
  /\ review[f].st = "pending"
  /\ review' = [review EXCEPT ![f].reminded = "by hand"]
  /\ UNCHANGED <<now, stage, mail, call, work, history>>

-----------------------------------------------------------------------------
(* The two polling jobs.                                                   *)

\* Mutant: the query leaves out rejected candidates, as that of the reminders does.
DueMailsJoined ==
  {i \in MailIds : mail[i].st = "pending" /\ mail[i].due <= now /\ stage[mail[i].app] # "rejected"}

DueMails == {i \in MailIds : mail[i].st = "pending" /\ mail[i].due <= now}

DueReviews ==
  {f \in Reviews : review[f].st = "pending" /\ review[f].reminded = "no" /\ EndOf[f] <= now
                   /\ stage[ReviewOf[f]] = "live"}

When(x) == IF x \in MailIds THEN mail[x].due ELSE EndOf[x]

\* ORDER BY the due time LIMIT Limit.
Lists(rows, due) ==
  /\ rows \subseteq due
  /\ Cardinality(rows) = IF Cardinality(due) < Limit THEN Cardinality(due) ELSE Limit
  /\ \A x \in rows, y \in due \ rows : When(x) <= When(y)

\* What a worker has listed and not marked.
Held(w) == work[w].rows \cup {work[w].x}

PollStart(w, due) ==
  \E rows \in SUBSET due :
    /\ work[w].pc = "idle"
    /\ rows # {} /\ Lists(rows, due)
    /\ work' = [work EXCEPT ![w] = [pc |-> "send", rows |-> rows, x |-> 0]]
    /\ again' = again \cup {x \in rows : \E v \in Workers : x \in Held(v)}
    /\ UNCHANGED <<now, stage, queue, call, tries, skipped, mixed>>

First(w) == {x \in work[w].rows : \A y \in work[w].rows : When(x) <= When(y)}

\* notifyEmail returns after it handed the mail to the provider.
Send(w) ==
  /\ work[w].pc = "send"
  /\ \E x \in First(w) :
       /\ work' = [work EXCEPT ![w] = [pc |-> "mark", rows |-> @.rows \ {x}, x |-> x]]
       /\ tries' = [tries EXCEPT ![x] = @ + 1]
  /\ UNCHANGED <<now, stage, queue, call, again, skipped, mixed>>

\* notifyEmail returns without sending, as the event is switched off or unknown.
Skip(w) ==
  /\ work[w].pc = "send"
  /\ \E x \in First(w) :
       /\ work' = [work EXCEPT ![w] = [pc |-> "mark", rows |-> @.rows \ {x}, x |-> x]]
       /\ skipped' = skipped \cup {x}
  /\ UNCHANGED <<now, stage, queue, call, tries, again, mixed>>

\* On to the next row, or the end.
Done(w) ==
  work' = [work EXCEPT ![w] = IF @.rows = {} THEN NoWork ELSE [@ EXCEPT !.pc = "send", !.x = 0]]

\* notifyEmail throws, which it does only before it sends: a mail is marked as
\* failed, a reminder left for the next tick.
SendThrows(w) ==
  /\ work[w].pc = "send"
  /\ \E x \in First(w) :
       LET rest == work[w].rows \ {x} IN
       work' = [work EXCEPT ![w] =
         IF x \in MailIds THEN [pc |-> "fail", rows |-> rest, x |-> x]
         ELSE IF rest = {} THEN NoWork ELSE [pc |-> "send", rows |-> rest, x |-> 0]]
  /\ UNCHANGED <<now, stage, queue, call, history>>

\* Mutant: what was sent is not marked.
MarkNever(w) ==
  /\ work[w].pc = "mark"
  /\ Done(w)
  /\ UNCHANGED <<now, stage, queue, call, history>>

\* The UPDATE of a mail asks for its id only, that of a reminder also that it is not marked.
Mark(w) ==
  LET x == work[w].x IN
  /\ work[w].pc = "mark"
  /\ IF x \in MailIds
       THEN mail' = [mail EXCEPT ![x].st = "sent"] /\ UNCHANGED review
       ELSE /\ review' = [review EXCEPT ![x].reminded = IF @ = "no" THEN "sent" ELSE @]
            /\ UNCHANGED mail
  /\ Done(w)
  /\ UNCHANGED <<now, stage, call, history>>

MarkFailed(w) ==
  /\ work[w].pc = "fail"
  /\ mail' = [mail EXCEPT ![work[w].x].st = "failed"]
  /\ Done(w)
  /\ UNCHANGED <<now, stage, review, call, history>>

\* What was handed over and is not marked as sent.
Unmarked(w) == {x \in {work[w].x} : work[w].pc \in {"mark", "fail"} /\ tries[x] > 0}

\* The UPDATE of Mark throws, within the same try: a mail goes on to be marked
\* as failed, a reminder is left for the next tick.
MarkThrows(w) ==
  /\ work[w].pc = "mark"
  /\ IF work[w].x \in MailIds
       THEN work' = [work EXCEPT ![w].pc = "fail"] /\ UNCHANGED again
       ELSE Done(w) /\ again' = again \cup Unmarked(w)
  /\ UNCHANGED <<now, stage, queue, call, tries, skipped, mixed>>

\* The UPDATE of MarkFailed throws as well, in the catch: this ends the tick.
FailThrows(w) ==
  /\ work[w].pc = "fail"
  /\ work' = [work EXCEPT ![w] = NoWork]
  /\ again' = again \cup Unmarked(w)
  /\ UNCHANGED <<now, stage, queue, call, tries, skipped, mixed>>

-----------------------------------------------------------------------------
Tick == now < MaxTime /\ now' = now + 1 /\ UNCHANGED <<stage, queue, call, work, history, bounds>>

\* The server dies and is started again: what it was doing is lost.
Crash ==
  /\ \/ \E c \in Calls : ~At(c, "idle")
     \/ \E w \in Workers : work[w].pc # "idle"
  /\ call' = [c \in Calls |-> NoCall]
  /\ work' = [w \in Workers |-> NoWork]
  /\ again' = again \cup UNION {Unmarked(w) : w \in Workers}
  /\ UNCHANGED <<now, stage, queue, tries, skipped, mixed>>

Request ==
  \/ \E c \in Calls, a \in Apps, at \in Delays : TransitionStart(c, a, "rejected", IF at = 0 THEN 0 ELSE now + at)
  \/ \E c \in Calls, a \in Apps : TransitionStart(c, a, "live", 0)
  \/ \E c \in Calls, a \in Apps, to \in {"live", "rejected", "hired"} : HandlerStart(c, a, to)
  \/ \E f \in Reviews : ReviewCloses(f) \/ RemindByHand(f)

Fault == Crash \/ \E w \in Workers : Skip(w) \/ SendThrows(w) \/ MarkThrows(w)

Continue(c) == TransitionCancel(c) \/ TransitionUpdate(c) \/ TailCancel(c) \/ TailInsert(c) \/ HandlerWrites(c)

Work(w) == Send(w) \/ Mark(w) \/ MarkFailed(w)

Next ==
  \/ Tick
  \/ Request /\ started < MaxStarts /\ started' = started + 1 /\ UNCHANGED faults
  \/ Fault /\ faults < MaxFaults /\ faults' = faults + 1 /\ UNCHANGED started
  \/ \E c \in Calls : Continue(c) /\ UNCHANGED bounds
  \/ \E w \in Workers : (PollStart(w, DueMails) \/ PollStart(w, DueReviews) \/ Work(w) \/ FailThrows(w)) /\ UNCHANGED bounds

Spec == Init /\ [][Next]_vars

Polls(due) == \E w \in Workers : PollStart(w, due) /\ UNCHANGED bounds

\* Node runs a handler it has started to its end, and cron starts the two polling
\* jobs every minute, whatever else runs; time goes on.
Fairness ==
  /\ WF_vars(Tick)
  /\ \A c \in Calls : WF_vars(Continue(c) /\ UNCHANGED bounds)
  /\ \A w \in Workers : WF_vars(Work(w) /\ UNCHANGED bounds)
  /\ SF_vars(Polls(DueMails)) /\ SF_vars(Polls(DueReviews))

FairSpec == Spec /\ Fairness

-----------------------------------------------------------------------------
(* What must hold. *)

StagesSeen == {"live", "rejected", "hired"}

TypeOK ==
  /\ now \in Nat
  /\ stage \in [Apps -> StagesSeen]
  /\ mail \in [MailIds -> [st : {"none", "pending", "sent", "failed", "cancelled"},
                           app : Apps \cup {"none"}, due : Nat]]
  /\ review \in [Reviews -> [st : {"pending", "closed"}, reminded : {"no", "sent", "by hand"}]]
  /\ call \in [Calls -> [pc : {"idle", "cancel", "update", "tailCancel", "tailInsert", "write"},
                         app : Apps \cup {"none"}, to : StagesSeen, at : Nat]]
  /\ work \in [Workers -> [pc : {"idle", "send", "mark", "fail"},
                           rows : SUBSET Polled, x : Polled \cup {0}]]
  /\ tries \in [Polled -> Nat] /\ again \subseteq Polled
  /\ skipped \subseteq Polled /\ mixed \subseteq Apps /\ started \in Nat /\ faults \in Nat

\* A candidate who is in the pipeline, neither rejected nor hired, has no
\* rejection email queued, whichever handler wrote the stage and whatever
\* crashes and ticks came in between, unless two requests that write the stage
\* of the application, their tails included, were in progress at the same time
\* (RecruitmentService.ts applyApplicationStageTransition).
NoneQueuedInPipeline ==
  \A i \in MailIds : mail[i].st = "pending" /\ mail[i].app \notin mixed => stage[mail[i].app] # "live"

\* A mail or reminder marked as sent was handed to the provider, or passed over
\* because its event was switched off; and it was handed over once, unless two
\* ticks listed it at a time, or the server died or an UPDATE failed between
\* the send and the mark (scheduledRecruitmentEmailCron.ts,
\* interviewFeedbackReminderCron.ts).
DeliveredAsMarked ==
  /\ \A i \in MailIds : mail[i].st = "sent" => tries[i] > 0 \/ i \in skipped
  /\ \A f \in Reviews : review[f].reminded = "sent" => tries[f] > 0 \/ f \in skipped
  /\ \A x \in Polled : tries[x] > 1 => x \in again

\* A queued email that is due leaves the queue and a reviewer who is late is
\* reminded or need not be any more, however few rows a tick lists and though
\* servers die and statements fail.
NothingLeftBehind ==
  /\ \A i \in MailIds : (mail[i].st = "pending" /\ mail[i].due <= now) ~> mail[i].st # "pending"
  /\ \A f \in Reviews :
       (review[f].st = "pending" /\ EndOf[f] <= now) ~>
         (review[f].st = "closed" \/ review[f].reminded # "no" \/ stage[ReviewOf[f]] # "live")
=============================================================================
