----------------------------- MODULE Reminders -----------------------------
(***************************************************************************)
(* The reminders of one kind about one invoice: delayed jobs of a queue    *)
(* that send an e-mail, record it and schedule the next job, the           *)
(* administrator who pauses and resumes them, and the invoice that is      *)
(* confirmed and paid meanwhile.  The reminders to confirm an invoice and  *)
(* those to pay it have rows, columns and jobs of their own, so that a     *)
(* behaviour is about one of the two kinds.                                *)
(*                                                                         *)
(* A chain is a job together with the jobs it schedules: one of them is    *)
(* queued or runs at a time, so the chain names it.  The first chain and   *)
(* the reminder of credit control start with an event of the invoice, and  *)
(* every request to resume reminders starts another.  The queue considers  *)
(* a job done as soon as its handler returns, which is before the use case *)
(* ends: jobs overlap, and a job that fails is not tried again.  Time      *)
(* passes in ticks; a job runs within one and starts at most MaxLate ticks *)
(* late.                                                                   *)
(***************************************************************************)
EXTENDS Integers, FiniteSets

CONSTANTS
  Resumes,            \* requests to resume the reminders
  Period,             \* ticks between two reminders
  CreditControlDelay, \* ticks from the confirmation to credit control
  MaxLate,            \* ticks that a job may wait after it is due
  MaxFailures         \* bound on failing calls and restarts

ASSUME ChainsAssumption == {"first", "credit"} \cap Resumes = {}
ASSUME DelaysAssumption ==
  /\ Period \in Nat \ {0} /\ CreditControlDelay \in Nat
  /\ CreditControlDelay >= 4 * Period
ASSUME BoundsAssumption == MaxLate \in Nat /\ MaxFailures \in Nat

VARIABLES
  kind,       \* the reminders are to confirm or to pay, and stay so
  status,     \* of the invoice, whose transaction is active
  accepted,   \* ticks since dateAccepted, modulo Period
  issued,     \* ticks since dateIssued
  paused,     \* the kind's column of paused_reminders
  sent,       \* ticks since the last row of notifications_sent
  count,      \* rows of notifications_sent, 3 for more
  job,        \* of each chain the queued job, or the job or request that runs
  failures,
  mailed,     \* history: ticks since the last e-mail
  template,   \* history: the last reminder to pay, 0 before the first
  overtaken,  \* history: jobs that overlap with one that sends an e-mail
  unrecorded, \* history: the last e-mail could not be recorded
  lost        \* history: a failure cut the chain

invoice == <<kind, status, accepted, issued>>
rows    == <<paused, sent, count>>
history == <<mailed, template, overtaken, unrecorded, lost>>
vars    == <<invoice, rows, job, failures, history>>

Kinds     == {"confirmation", "payment"}
Reminders == {"first"} \cup Resumes
Chains    == Reminders \cup {"credit"}

(* Nothing depends on times beyond these.                                    *)
Horizon == 4 * Period
Memory  == CreditControlDelay - 3 * Period
Later(n, max) == IF n < max THEN n + 1 ELSE max

(* A job or a request loads the status of the invoice, and a job the pause   *)
(* state; what is queued or ended holds neither.                             *)
At(l)     == [pc |-> l, due |-> 0, seen |-> "none", halted |-> FALSE]
Queued(d) == [pc |-> "queued", due |-> d, seen |-> "none", halted |-> FALSE]
Idle      == At("idle")

pc(c)         == job[c].pc
Running(c)    == pc(c) \notin {"idle", "queued"}
Becomes(c, j) == job' = [job EXCEPT ![c] = j]

(* The invoice was accepted: InvoiceCreated has been raised.                 *)
Init ==
  /\ kind \in Kinds
  /\ status = "DRAFT" /\ accepted = 0 /\ issued = 0
  /\ paused = FALSE /\ sent = Memory /\ count = 0
  /\ job = [c \in Chains |-> IF kind = "confirmation" /\ c = "first"
                             THEN At("announced") ELSE Idle]
  /\ failures = 0
  /\ mailed = Memory /\ template = 0
  /\ overtaken = {} /\ unrecorded = FALSE /\ lost = FALSE

-----------------------------------------------------------------------------
(* The invoice, and the subscribers that schedule the first jobs.            *)

ConfirmInvoice ==
  /\ status = "DRAFT"
  /\ status' = "ACTIVE" /\ issued' = 0
  /\ job' = IF kind = "payment"
            THEN [job EXCEPT !["credit"] = At("announced"), !["first"] = At("announced")]
            ELSE job
  /\ UNCHANGED <<kind, accepted, rows, failures, history>>

(* Paid, credited or withdrawn: a job that does not find the invoice ends    *)
(* like one that finds it final.                                             *)
CloseInvoice ==
  /\ status # "FINAL"
  /\ status' = "FINAL"
  /\ UNCHANGED <<kind, accepted, issued, rows, job, failures, history>>

(* One subscriber schedules the job of credit control, then the payment's.   *)
IsNext(c) == c = "first" /\ pc(c) = "announced" => pc("credit") # "announced"

ScheduleReminders(c) ==
  /\ pc(c) = "announced" /\ IsNext(c)
  /\ Becomes(c, Queued(IF c = "credit" THEN CreditControlDelay ELSE Period))
  /\ UNCHANGED <<invoice, rows, failures, history>>

-----------------------------------------------------------------------------
(* A job.                                                                    *)

StartJob(c) ==
  /\ pc(c) = "queued" /\ job[c].due <= 0
  /\ Becomes(c, [At("loaded") EXCEPT !.seen = status])
  /\ overtaken' = IF \E d \in Chains : pc(d) = "mailed"
                  THEN overtaken \cup {c} ELSE overtaken \ {c}
  /\ UNCHANGED <<invoice, rows, failures, mailed, template, unrecorded, lost>>

GetPauseStatus(c) ==
  /\ pc(c) = "loaded"
  /\ Becomes(c, [job[c] EXCEPT !.pc = "checked", !.halted = paused])
  /\ UNCHANGED <<invoice, rows, failures, history>>

IsPaymentReminder(c) == kind = "payment" /\ c # "credit"
Delay(c)             == IF c = "credit" THEN Memory ELSE Period
Remindable           == IF kind = "confirmation" THEN "DRAFT" ELSE "ACTIVE"

ShouldSendEmail(c) ==
  /\ job[c].seen = Remindable
  /\ IsPaymentReminder(c) => 10 * issued <= 32 * Period
  /\ ~job[c].halted

NotificationsSentInLastDelay(ago, delay) == 100 * ago < 85 * delay

(* Mutant: only another e-mail on the same day is too early.                 *)
NoneSentToday(c) == sent > 0

NoReminderSentRecently(c) == ~NotificationsSentInLastDelay(sent, Delay(c))

BellowEmailMaxCount(c) == IsPaymentReminder(c) => count < 3

(* The notifications are read last, and the job goes on or ends.             *)
AdvanceOrEnd(c) ==
  /\ pc(c) = "checked"
  /\ LET advances == ShouldSendEmail(c) /\ NoReminderSentRecently(c) /\ BellowEmailMaxCount(c)
     IN  \/ advances /\ Becomes(c, At("sending"))
         \/ ~advances /\ Becomes(c, Idle)
  /\ UNCHANGED <<invoice, rows, failures, history>>

(* There is a template for each of the first three periods only, and an      *)
(* e-mail without one is refused: TemplatesEscalate says that it never is.   *)
Template == issued \div Period

SendEmail(c) ==
  /\ pc(c) = "sending"
  /\ Becomes(c, At("mailed"))
  /\ mailed' = 0
  /\ template' = IF IsPaymentReminder(c) THEN Template ELSE template
  /\ overtaken' = overtaken \cup {d \in Chains \ {c} : Running(d)}
  /\ unrecorded' = FALSE
  /\ UNCHANGED <<invoice, rows, failures, lost>>

(* Mutant: the e-mail is recorded elsewhere.                                 *)
SaveUnrecorded(c) ==
  /\ pc(c) = "mailed"
  /\ Becomes(c, IF c = "credit" THEN Idle ELSE At("saved"))
  /\ UNCHANGED <<invoice, rows, failures, history>>

SaveNotification(c) ==
  /\ pc(c) = "mailed"
  /\ Becomes(c, IF c = "credit" THEN Idle ELSE At("saved"))
  /\ sent' = 0
  /\ count' = IF count < 3 THEN count + 1 ELSE count
  /\ UNCHANGED <<invoice, paused, failures, history>>

(* Mutant: the last reminder is taken for the second.                        *)
RescheduleTwice(c) == IsPaymentReminder(c) => issued < 2 * Period

ShouldRescheduleJob(c) == IsPaymentReminder(c) => issued < 3 * Period

ScheduleNextJob(c) ==
  /\ pc(c) = "saved"
  /\ Becomes(c, IF ShouldRescheduleJob(c) THEN Queued(Period) ELSE Idle)
  /\ UNCHANGED <<invoice, rows, failures, history>>

-----------------------------------------------------------------------------
(* The administrator.                                                        *)

PauseReminders ==
  /\ paused' = TRUE
  /\ UNCHANGED <<invoice, sent, count, job, failures, history>>

(* A request is issued again only when its chain has ended.                  *)
ValidatePauseState(r) ==
  /\ pc(r) = "idle"
  /\ paused
  /\ Becomes(r, At("validated"))
  /\ UNCHANGED <<invoice, rows, failures, history>>

GetInvoice(r) ==
  /\ pc(r) = "validated"
  /\ Becomes(r, [At("found") EXCEPT !.seen = status])
  /\ UNCHANGED <<invoice, rows, failures, history>>

Resume(r) ==
  /\ pc(r) = "found"
  /\ Becomes(r, [job[r] EXCEPT !.pc = "resumed"])
  /\ paused' = FALSE
  /\ UNCHANGED <<invoice, sent, count, failures, history>>

(* The repository returns the error of the database instead of throwing it,  *)
(* and the result is not looked at: the request goes on.                     *)
ResumeUnsaved(r) ==
  /\ pc(r) = "found" /\ failures < MaxFailures
  /\ Becomes(r, [job[r] EXCEPT !.pc = "resumed"])
  /\ failures' = failures + 1
  /\ UNCHANGED <<invoice, rows, history>>

(* Mutant: both kinds are resumed for an issued invoice only.                *)
ScheduleIfIssued(r) ==
  /\ job[r].seen = "ACTIVE"
  /\ kind = "payment" => issued \div Period < 3

ShouldScheduleJob(r) ==
  /\ job[r].seen = Remindable
  /\ kind = "payment" => issued \div Period < 3

(* Mutant: the operands of the subtraction are swapped.                      *)
CalculateElapsedDelay == (IF kind = "confirmation" THEN accepted ELSE issued % Period) - Period

CalculateRemainingDelay ==
  Period - (IF kind = "confirmation" THEN accepted ELSE issued % Period)

(* A chain that a failure cut goes on, but not when the new job will find a  *)
(* reminder that was sent too recently, and end.                             *)
Repairs(r) ==
  /\ ShouldScheduleJob(r)
  /\ ~NotificationsSentInLastDelay(sent + CalculateRemainingDelay, Period)

ScheduleJob(r) ==
  /\ pc(r) = "resumed"
  /\ Becomes(r, IF ShouldScheduleJob(r) THEN Queued(CalculateRemainingDelay) ELSE Idle)
  /\ lost' = (lost /\ ~Repairs(r))
  /\ UNCHANGED <<invoice, rows, failures, mailed, template, overtaken, unrecorded>>

-----------------------------------------------------------------------------
(* Failures, and time.                                                       *)

(* A request whose failure is answered by pausing the reminders again.       *)
Undoes(r) == pc(r) = "resumed" /\ ShouldScheduleJob(r)

GoesOn(c) ==
  \/ pc(c) \in {"announced", "queued", "loaded", "sending", "mailed", "saved"}
  \/ pc(c) = "checked" /\ ~job[c].halted
  \/ Undoes(c)

End(ended) ==
  /\ failures < MaxFailures
  /\ failures' = failures + 1
  /\ job' = [c \in Chains |-> IF c \in ended THEN Idle ELSE job[c]]
  /\ lost' = (lost \/ \E c \in ended \cap Reminders : GoesOn(c))
  /\ unrecorded' = (unrecorded \/ \E c \in ended : pc(c) = "mailed")
  /\ UNCHANGED <<invoice, sent, count, mailed, template, overtaken>>

(* A call of a job or of a request fails and it ends.  A request that cannot *)
(* schedule its job pauses the reminders again, but not when it cannot find  *)
(* the payer; a subscriber that cannot schedule the job of credit control    *)
(* does not schedule the other.                                              *)
Fail(c) ==
  /\ Running(c) /\ IsNext(c)
  /\ End(IF c = "credit" /\ pc(c) = "announced" THEN {"credit", "first"} ELSE {c})
  /\ \/ Undoes(c) /\ paused' = TRUE
     \/ (Undoes(c) => kind = "payment") /\ UNCHANGED paused

(* What is queued is in Redis and survives; what runs is lost.               *)
Restart ==
  /\ \E c \in Chains : Running(c)
  /\ End({c \in Chains : Running(c)})
  /\ UNCHANGED paused

(* Nobody reads dateAccepted after the confirmation, nor dateIssued after    *)
(* the payment, so that their ages need not be kept.                         *)
Tick ==
  /\ \A c \in Chains : ~Running(c) /\ (pc(c) = "queued" => job[c].due > -MaxLate)
  /\ accepted' = IF status = "DRAFT" THEN (accepted + 1) % Period ELSE 0
  /\ issued' = IF status = "ACTIVE" THEN Later(issued, Horizon) ELSE 0
  /\ sent' = Later(sent, Memory)
  /\ mailed' = Later(mailed, Memory)
  /\ job' = [c \in Chains |-> IF pc(c) = "queued" THEN Queued(job[c].due - 1) ELSE job[c]]
  /\ UNCHANGED <<kind, status, paused, count, failures, template, overtaken, unrecorded, lost>>

JobStep(c) ==
  \/ ScheduleReminders(c) \/ StartJob(c) \/ GetPauseStatus(c) \/ AdvanceOrEnd(c)
  \/ SendEmail(c) \/ SaveNotification(c) \/ ScheduleNextJob(c)

RequestStep(r) == GetInvoice(r) \/ Resume(r) \/ ScheduleJob(r)

Next ==
  \/ ConfirmInvoice \/ CloseInvoice \/ PauseReminders \/ Restart \/ Tick
  \/ \E c \in Chains : JobStep(c) \/ Fail(c)
  \/ \E r \in Resumes : ValidatePauseState(r) \/ RequestStep(r) \/ ResumeUnsaved(r)

Spec == Init /\ [][Next]_vars

(* Awaited calls are answered, the queue hands out jobs that are due, and    *)
(* time goes on.  Nobody has to pause, resume, confirm or pay.               *)
Fairness ==
  /\ \A c \in Chains : WF_vars(JobStep(c))
  /\ \A r \in Resumes : WF_vars(RequestStep(r))
  /\ WF_vars(Tick)

FairSpec == Spec /\ Fairness

-----------------------------------------------------------------------------
Statuses == {"DRAFT", "ACTIVE", "FINAL"}
Steps    == {"idle", "announced", "queued", "loaded", "checked", "sending", "mailed",
             "saved", "validated", "found", "resumed"}

TypeOK ==
  /\ kind \in Kinds /\ status \in Statuses
  /\ accepted \in 0..(Period - 1) /\ issued \in 0..Horizon
  /\ paused \in BOOLEAN /\ sent \in 0..Memory /\ count \in 0..3
  /\ job \in [Chains -> [pc : Steps, due : -MaxLate..CreditControlDelay,
                         seen : Statuses \cup {"none"}, halted : BOOLEAN]]
  /\ failures \in 0..MaxFailures
  /\ mailed \in 0..Memory /\ template \in 0..3
  /\ overtaken \subseteq Chains /\ unrecorded \in BOOLEAN /\ lost \in BOOLEAN

Expected == status = Remindable /\ (kind = "payment" => issued < 3 * Period /\ count < 3)

(* Reminders that are neither paused nor finished have a job that goes on:   *)
(* pausing, resuming, resuming twice, jobs that end because another one has  *)
(* just sent, and jobs that overlap never leave the invoice without one.     *)
(* Only a call that fails does, until reminders are paused and resumed.      *)
RemindersGoOn == Expected /\ ~paused /\ ~lost => \E c \in Reminders : GoesOn(c)

Sends(c) == pc(c) = "sending" /\ job'[c].pc = "mailed"

(* However often reminders are paused and resumed, two e-mails are 85        *)
(* percent of the delay apart, unless the second job started before the      *)
(* first had recorded its e-mail, or could not record it.                    *)
SpacedReminders ==
  [][\A c \in Chains : Sends(c) =>
       \/ ~NotificationsSentInLastDelay(mailed, Delay(c))
       \/ c \in overtaken \/ unrecorded]_vars

(* The reminders to pay escalate: every e-mail has one of the three          *)
(* templates, and none is sent twice or after a later one, with the same     *)
(* exceptions.                                                               *)
TemplatesEscalate ==
  [][\A c \in Chains : Sends(c) /\ IsPaymentReminder(c) =>
       /\ Template \in 1..3
       /\ Template > template \/ c \in overtaken \/ unrecorded]_vars

(* The author of a draft is reminded again and again, unless reminders are   *)
(* paused or a failure cut the chain.                                        *)
KeepsReminding ==
  []<>(\/ mailed = 0
       \/ kind # "confirmation" \/ status # "DRAFT" \/ paused \/ lost)
=============================================================================
