-------------------------- MODULE RemindersProofs --------------------------
(* Type correctness, RemindersGoOn and SpacedReminders, for any requests to  *)
(* resume, any delays and lateness, and any number of failures; and          *)
(* TemplatesEscalate, when no job is late by 70 percent of a period.         *)
EXTENDS Reminders, TLAPS

-----------------------------------------------------------------------------
(* The inductive invariant.                                                  *)

Job == [pc : Steps, due : -MaxLate..CreditControlDelay,
        seen : Statuses \cup {"none"}, halted : BOOLEAN]

(* A reminder to pay is sent in the first 3.2 periods.                       *)
SendingInv ==
  \A c \in Chains : IsPaymentReminder(c) /\ pc(c) = "sending" => 10 * issued <= 32 * Period

(* Nobody reminds a payer before there is an invoice to pay.                 *)
DraftInv ==
  kind = "payment" /\ status = "DRAFT" =>
    /\ sent = Memory
    /\ \A c \in Chains : /\ pc(c) \in {"idle", "validated", "found", "resumed"}
                         /\ job[c].seen \in {"none", "DRAFT"}

(* Credit control is reminded when the reminders to pay are over.            *)
CreditInv ==
  /\ kind = "confirmation" => pc("credit") = "idle"
  /\ status = "ACTIVE" /\ pc("credit") \notin {"idle", "announced"} =>
       \/ issued >= 3 * Period
       \/ pc("credit") = "queued" /\ job["credit"].due + issued >= CreditControlDelay

(* A job has seen what the invoice still is, ...                             *)
SeenInv ==
  \A c \in Chains :
    pc(c) \in {"loaded", "checked"} /\ status = Remindable => job[c].seen = Remindable

(* ... or a request has seen a draft that was issued since, so that the      *)
(* first job is announced or waits.                                          *)
Ahead(c) == pc(c) = "announced" \/ (pc(c) = "queued" /\ job[c].due > 0)

StaleInv ==
  \A r \in Chains :
    pc(r) \in {"found", "resumed"} /\ status = Remindable /\ job[r].seen # Remindable
      => lost \/ \E c \in Reminders : Ahead(c)

(* After an e-mail some job will find that e-mail old enough: jobs that end  *)
(* because of it leave that one.                                             *)
Follows(c) ==
  \/ pc(c) = "saved"
  \/ pc(c) = "queued" /\ ~NotificationsSentInLastDelay(job[c].due + sent, Period)

RecentInv ==
  Expected /\ ~lost /\ NotificationsSentInLastDelay(sent, Period)
    => \E c \in Reminders : Follows(c)

GoOnInv == TypeOK /\ SendingInv /\ DraftInv /\ CreditInv /\ SeenInv /\ StaleInv /\ RecentInv
IInv    == GoOnInv /\ RemindersGoOn

(* The last e-mail is the last one recorded, unless it is being recorded.    *)
MailedInv ==
  /\ \A d \in Chains : pc(d) = "mailed" => mailed = 0
  /\ ~unrecorded /\ (\A d \in Chains : pc(d) # "mailed") => mailed = sent

(* A job that is not overtaken has nobody's recording ahead.                 *)
OvertakenInv ==
  \A c, d \in Chains :
    pc(c) \in {"loaded", "checked", "sending"} /\ c \notin overtaken => pc(d) # "mailed"

SpacedInv ==
  \A c \in Chains :
    pc(c) = "sending" /\ c \notin overtaken /\ ~unrecorded
      => ~NotificationsSentInLastDelay(mailed, Delay(c))

SpacingInv == MailedInv /\ OvertakenInv /\ SpacedInv

-----------------------------------------------------------------------------
(* Arithmetic.                                                               *)

LEMMA ConstantFacts ==
  /\ Period \in Nat /\ Period >= 1 /\ CreditControlDelay \in Nat
  /\ CreditControlDelay >= 4 * Period /\ MaxLate \in Nat /\ MaxFailures \in Nat
  /\ Memory \in Nat /\ Memory >= Period
  /\ Horizon \in Nat /\ Horizon = 4 * Period
  /\ "credit" \notin Reminders /\ "first" \in Reminders /\ "credit" \in Chains
  /\ Reminders \subseteq Chains
  BY DelaysAssumption, BoundsAssumption, ChainsAssumption
     DEF Memory, Horizon, Reminders, Chains

LEMMA Remainder ==
  ASSUME NEW n \in Nat
  PROVE  n % Period \in 0..(Period - 1)
  BY ConstantFacts

LEMMA Division ==
  ASSUME NEW n \in Nat
  PROVE  n \div Period \in Nat /\ n = (Period * (n \div Period)) + (n % Period)
  BY ConstantFacts

LEMMA Quotient ==
  ASSUME NEW n \in Nat
  PROVE  /\ n \div Period \in Nat
         /\ n < 3 * Period <=> n \div Period < 3
         /\ 10 * n <= 32 * Period => n \div Period <= 3
  <1>1. n \div Period \in Nat /\ n = (Period * (n \div Period)) + (n % Period)
    BY Division
  <1> DEFINE q == n \div Period
  <1>2. q >= 3 => Period * q >= Period * 3
    BY <1>1, ConstantFacts
  <1>3. q <= 2 => Period * q <= Period * 2
    BY <1>1, ConstantFacts
  <1>4. q >= 4 => Period * q >= Period * 4
    BY <1>1, ConstantFacts
  <1>5. n % Period \in 0..(Period - 1)
    BY Remainder
  <1> HIDE DEF q
  <1> QED
    BY <1>1, <1>2, <1>3, <1>4, <1>5, ConstantFacts DEF q

LEMMA RemainingDelay ==
  ASSUME TypeOK
  PROVE  CalculateRemainingDelay \in 1..Period
  <1>1. issued % Period \in 0..(Period - 1)
    BY Remainder DEF TypeOK
  <1> QED
    BY <1>1, ConstantFacts DEF TypeOK, CalculateRemainingDelay, Kinds

-----------------------------------------------------------------------------
(* Jobs.                                                                     *)

LEMMA AtType ==
  /\ \A l \in Steps : At(l) \in Job
  /\ \A d \in -MaxLate..CreditControlDelay : Queued(d) \in Job
  /\ Idle \in Job
  <1>1. 0 \in -MaxLate..CreditControlDelay
    BY ConstantFacts
  <1>2. \A l \in Steps : At(l) \in Job
    BY <1>1 DEF At, Job
  <1>3. \A d \in -MaxLate..CreditControlDelay : Queued(d) \in Job
    BY DEF Queued, Job, Steps
  <1> QED
    BY <1>2, <1>3 DEF Idle, Steps

LEMMA BecomesFact ==
  ASSUME TypeOK, NEW c \in Chains, NEW j, Becomes(c, j)
  PROVE  /\ job'[c] = j
         /\ \A d \in Chains : d # c => job'[d] = job[d]
         /\ j \in Job => job' \in [Chains -> Job]
  BY DEF TypeOK, Becomes, Job

LEMMA TypeInit == Init => TypeOK
  <1> SUFFICES ASSUME Init PROVE TypeOK
    OBVIOUS
  <1>1. job \in [Chains -> Job]
    BY AtType DEF Init, Steps
  <1>2. /\ 0 \in 0..(Period - 1) /\ 0 \in 0..Horizon /\ Memory \in 0..Memory
        /\ 0 \in 0..3 /\ 0 \in 0..MaxFailures
    BY ConstantFacts
  <1> QED
    BY <1>1, <1>2 DEF Init, TypeOK, Job, Statuses

LEMMA TypeJob ==
  ASSUME TypeOK, SendingInv, NEW c \in Chains, JobStep(c)
  PROVE  TypeOK'
  <1> USE DEF invoice, rows, history
  <1>0. job \in [Chains -> Job]
    BY DEF TypeOK, Job
  <1>1. CASE ScheduleReminders(c)
    <2>1. (IF c = "credit" THEN CreditControlDelay ELSE Period) \in -MaxLate..CreditControlDelay
      BY ConstantFacts
    <2>2. job' \in [Chains -> Job]
      BY <1>1, <2>1, BecomesFact, AtType DEF ScheduleReminders
    <2> QED
      BY <1>1, <2>2 DEF ScheduleReminders, TypeOK, Job
  <1>2. CASE StartJob(c)
    <2>1. At("loaded") \in Job /\ status \in Statuses
      BY AtType DEF Steps, TypeOK
    <2>2. [At("loaded") EXCEPT !.seen = status] \in Job
      BY <2>1 DEF Job
    <2>3. job' \in [Chains -> Job]
      BY <1>2, <2>2, BecomesFact DEF StartJob
    <2>4. overtaken' \subseteq Chains
      BY <1>2 DEF StartJob, TypeOK
    <2> QED
      BY <1>2, <2>3, <2>4 DEF StartJob, TypeOK, Job
  <1>3. CASE GetPauseStatus(c)
    <2>1. [job[c] EXCEPT !.pc = "checked", !.halted = paused] \in Job
      BY <1>0 DEF Job, Steps, TypeOK
    <2>2. job' \in [Chains -> Job]
      BY <1>3, <2>1, BecomesFact DEF GetPauseStatus
    <2> QED
      BY <1>3, <2>2 DEF GetPauseStatus, TypeOK, Job
  <1>4. CASE AdvanceOrEnd(c)
    <2>1. Becomes(c, At("sending")) \/ Becomes(c, Idle)
      BY <1>4 DEF AdvanceOrEnd
    <2>2. job' \in [Chains -> Job]
      BY <2>1, BecomesFact, AtType DEF Steps
    <2> QED
      BY <1>4, <2>2 DEF AdvanceOrEnd, TypeOK, Job
  <1>5. CASE SendEmail(c)
    <2>1. job' \in [Chains -> Job]
      BY <1>5, BecomesFact, AtType DEF SendEmail, Steps
    <2>2. template' \in 0..3
      <3>1. CASE IsPaymentReminder(c)
        <4>1. 10 * issued <= 32 * Period
          BY <1>5, <3>1 DEF SendingInv, SendEmail
        <4>2. issued \div Period \in Nat /\ issued \div Period <= 3
          BY <4>1, Quotient DEF TypeOK
        <4> QED
          BY <1>5, <3>1, <4>2 DEF SendEmail, Template
      <3> QED
        BY <1>5, <3>1 DEF SendEmail, TypeOK
    <2>3. mailed' = 0 /\ unrecorded' = FALSE /\ 0 \in 0..Memory
      BY <1>5, ConstantFacts DEF SendEmail
    <2>4. overtaken' \subseteq Chains
      <3>1. overtaken' = overtaken \cup {d \in Chains \ {c} : Running(d)}
        BY <1>5 DEF SendEmail
      <3> QED
        BY <3>1 DEF TypeOK
    <2> QED
      BY <1>5, <2>1, <2>2, <2>3, <2>4 DEF SendEmail, TypeOK, Job
  <1>6. CASE SaveNotification(c)
    <2>1. Becomes(c, At("saved")) \/ Becomes(c, Idle)
      BY <1>6 DEF SaveNotification
    <2>2. job' \in [Chains -> Job]
      BY <2>1, BecomesFact, AtType DEF Steps
    <2>3. sent' \in 0..Memory /\ count' \in 0..3
      BY <1>6, ConstantFacts DEF SaveNotification, TypeOK
    <2> QED
      BY <1>6, <2>2, <2>3 DEF SaveNotification, TypeOK, Job
  <1>7. CASE ScheduleNextJob(c)
    <2>1. Becomes(c, Queued(Period)) \/ Becomes(c, Idle)
      BY <1>7 DEF ScheduleNextJob
    <2>2. Period \in -MaxLate..CreditControlDelay
      BY ConstantFacts
    <2>3. job' \in [Chains -> Job]
      BY <2>1, <2>2, BecomesFact, AtType
    <2> QED
      BY <1>7, <2>3 DEF ScheduleNextJob, TypeOK, Job
  <1> QED
    BY <1>1, <1>2, <1>3, <1>4, <1>5, <1>6, <1>7 DEF JobStep

LEMMA TypeRequest ==
  ASSUME TypeOK, NEW r \in Resumes, ValidatePauseState(r) \/ RequestStep(r) \/ ResumeUnsaved(r)
  PROVE  TypeOK'
  <1> USE DEF invoice, rows, history
  <1>0. job \in [Chains -> Job] /\ r \in Chains /\ status \in Statuses
    BY DEF TypeOK, Job, Chains, Reminders
  <1>1. CASE ValidatePauseState(r)
    <2>1. job' \in [Chains -> Job]
      BY <1>0, <1>1, BecomesFact, AtType DEF ValidatePauseState, Steps
    <2> QED
      BY <1>1, <2>1 DEF ValidatePauseState, TypeOK, Job
  <1>2. CASE GetInvoice(r)
    <2>1. At("found") \in Job
      BY AtType DEF Steps
    <2>2. [At("found") EXCEPT !.seen = status] \in Job
      BY <1>0, <2>1 DEF Job
    <2>3. job' \in [Chains -> Job]
      BY <1>0, <1>2, <2>2, BecomesFact DEF GetInvoice
    <2> QED
      BY <1>2, <2>3 DEF GetInvoice, TypeOK, Job
  <1>3. [job[r] EXCEPT !.pc = "resumed"] \in Job
    BY <1>0 DEF Job, Steps
  <1>4. CASE Resume(r)
    <2>1. job' \in [Chains -> Job]
      BY <1>0, <1>3, <1>4, BecomesFact DEF Resume
    <2> QED
      BY <1>4, <2>1 DEF Resume, TypeOK, Job
  <1>5. CASE ResumeUnsaved(r)
    <2>1. job' \in [Chains -> Job]
      BY <1>0, <1>3, <1>5, BecomesFact DEF ResumeUnsaved
    <2>2. failures' \in 0..MaxFailures
      BY <1>5, ConstantFacts DEF ResumeUnsaved, TypeOK
    <2> QED
      BY <1>5, <2>1, <2>2 DEF ResumeUnsaved, TypeOK, Job
  <1>6. CASE ScheduleJob(r)
    <2>1. Becomes(r, Queued(CalculateRemainingDelay)) \/ Becomes(r, Idle)
      BY <1>6 DEF ScheduleJob
    <2>2. CalculateRemainingDelay \in -MaxLate..CreditControlDelay
      BY RemainingDelay, ConstantFacts
    <2>3. job' \in [Chains -> Job]
      BY <1>0, <2>1, <2>2, BecomesFact, AtType
    <2>4. lost' \in BOOLEAN
      BY <1>6 DEF ScheduleJob, TypeOK
    <2> QED
      BY <1>6, <2>3, <2>4 DEF ScheduleJob, TypeOK, Job
  <1> QED
    BY <1>1, <1>2, <1>4, <1>5, <1>6 DEF RequestStep

LEMMA TypeEnd ==
  ASSUME TypeOK, NEW ended \in SUBSET Chains, End(ended), paused' \in BOOLEAN
  PROVE  TypeOK'
  <1>1. job' \in [Chains -> Job]
    BY AtType DEF End, TypeOK, Job
  <1>2. failures' \in 0..MaxFailures
    BY ConstantFacts DEF End, TypeOK
  <1>3. lost' \in BOOLEAN /\ unrecorded' \in BOOLEAN
    BY DEF End, TypeOK
  <1> QED
    BY <1>1, <1>2, <1>3 DEF End, TypeOK, Job, invoice

LEMMA FailEnds ==
  ASSUME NEW c \in Chains, Fail(c)
  PROVE  \E ended \in SUBSET Chains : End(ended)
  BY ConstantFacts DEF Fail

LEMMA TypeOthers ==
  ASSUME TypeOK, ConfirmInvoice \/ CloseInvoice \/ PauseReminders
  PROVE  TypeOK'
  <1> USE DEF invoice, rows, history
  <1>1. CASE ConfirmInvoice
    <2>1. At("announced") \in Job
      BY AtType DEF Steps
    <2>2. job' \in [Chains -> Job]
      BY <1>1, <2>1 DEF ConfirmInvoice, TypeOK, Job
    <2>3. status' \in Statuses /\ issued' \in 0..Horizon
      BY <1>1, ConstantFacts DEF ConfirmInvoice, Statuses
    <2> QED
      BY <1>1, <2>2, <2>3 DEF ConfirmInvoice, TypeOK, Job
  <1>2. CASE CloseInvoice
    BY <1>2 DEF CloseInvoice, TypeOK, Statuses
  <1>3. CASE PauseReminders
    BY <1>3 DEF PauseReminders, TypeOK
  <1> QED
    BY <1>1, <1>2, <1>3

LEMMA LaterType ==
  ASSUME NEW max \in Nat, NEW n \in 0..max
  PROVE  Later(n, max) \in 0..max /\ (n < max => Later(n, max) = n + 1)
  BY DEF Later

LEMMA TypeTick ==
  ASSUME TypeOK, Tick
  PROVE  TypeOK'
  <1>1. ASSUME NEW c \in Chains
        PROVE  (IF pc(c) = "queued" THEN Queued(job[c].due - 1) ELSE job[c]) \in Job
    <2>1. job[c] \in Job
      BY DEF TypeOK, Job
    <2>2. CASE pc(c) = "queued"
      <3>1. job[c].due - 1 \in -MaxLate..CreditControlDelay
        BY <2>1, <2>2, ConstantFacts DEF Tick, Job
      <3> QED
        BY <2>2, <3>1, AtType
    <2> QED
      BY <2>1, <2>2
  <1>2. job' \in [Chains -> Job]
    BY <1>1 DEF Tick
  <1>3. issued' \in 0..Horizon /\ sent' \in 0..Memory /\ mailed' \in 0..Memory
    BY LaterType, ConstantFacts DEF Tick, TypeOK
  <1>4. (accepted + 1) % Period \in 0..(Period - 1) /\ 0 \in 0..(Period - 1)
    BY Remainder, ConstantFacts DEF TypeOK
  <1> QED
    BY <1>2, <1>3, <1>4 DEF Tick, TypeOK, Job

-----------------------------------------------------------------------------
(* What a step of one chain leaves alone.                                    *)

ChainStep(c) ==
  \/ JobStep(c)
  \/ c \in Resumes /\ (ValidatePauseState(c) \/ RequestStep(c) \/ ResumeUnsaved(c))

LEMMA ChainFrame ==
  ASSUME TypeOK, NEW c \in Chains, ChainStep(c)
  PROVE  /\ UNCHANGED invoice
         /\ \A d \in Chains : d # c => job'[d] = job[d]
  <1>1. UNCHANGED invoice
    BY DEF ChainStep, JobStep, RequestStep, ScheduleReminders, StartJob, GetPauseStatus,
           AdvanceOrEnd, SendEmail, SaveNotification, ScheduleNextJob, ValidatePauseState,
           GetInvoice, Resume, ResumeUnsaved, ScheduleJob
  <1>2. \E j : Becomes(c, j)
    BY DEF ChainStep, JobStep, RequestStep, ScheduleReminders, StartJob, GetPauseStatus,
           AdvanceOrEnd, SendEmail, SaveNotification, ScheduleNextJob, ValidatePauseState,
           GetInvoice, Resume, ResumeUnsaved, ScheduleJob
  <1>3. PICK j : Becomes(c, j)
    BY <1>2
  <1> QED
    BY <1>1, <1>3, BecomesFact

LEMMA Moves ==
  ASSUME TypeOK, NEW c \in Chains
  PROVE  /\ ScheduleReminders(c) =>
              /\ pc(c)' = "queued"
              /\ job'[c].due = IF c = "credit" THEN CreditControlDelay ELSE Period
         /\ StartJob(c) => pc(c)' = "loaded" /\ job'[c].seen = status
         /\ GetPauseStatus(c) =>
              pc(c)' = "checked" /\ job'[c].halted = paused /\ job'[c].seen = job[c].seen
         /\ AdvanceOrEnd(c) =>
              \/ pc(c)' = "idle"
              \/ pc(c)' = "sending" /\ ShouldSendEmail(c)
         /\ SendEmail(c) => pc(c)' = "mailed"
         /\ SaveNotification(c) => pc(c)' = IF c = "credit" THEN "idle" ELSE "saved"
         /\ ScheduleNextJob(c) =>
              IF ShouldRescheduleJob(c) THEN pc(c)' = "queued" /\ job'[c].due = Period
                                        ELSE pc(c)' = "idle"
         /\ ValidatePauseState(c) => pc(c)' = "validated" /\ job'[c].seen = "none"
         /\ GetInvoice(c) => pc(c)' = "found" /\ job'[c].seen = status
         /\ Resume(c) \/ ResumeUnsaved(c) => pc(c)' = "resumed" /\ job'[c].seen = job[c].seen
         /\ ScheduleJob(c) =>
              IF ShouldScheduleJob(c)
              THEN pc(c)' = "queued" /\ job'[c].due = CalculateRemainingDelay
              ELSE pc(c)' = "idle" /\ job'[c].seen = "none"
  <1> USE DEF pc, At, Queued, Idle
  <1>0. job[c] = [pc |-> job[c].pc, due |-> job[c].due, seen |-> job[c].seen,
                  halted |-> job[c].halted]
    BY DEF TypeOK
  <1>1. ASSUME NEW j, Becomes(c, j) PROVE job'[c] = j
    BY <1>1, BecomesFact
  <1>2. ASSUME ScheduleReminders(c)
        PROVE  /\ pc(c)' = "queued"
               /\ job'[c].due = IF c = "credit" THEN CreditControlDelay ELSE Period
    BY <1>2, <1>0, <1>1 DEF ScheduleReminders
  <1>3. ASSUME StartJob(c)
        PROVE  pc(c)' = "loaded" /\ job'[c].seen = status
    BY <1>3, <1>0, <1>1 DEF StartJob
  <1>4. ASSUME GetPauseStatus(c)
        PROVE  /\ pc(c)' = "checked" /\ job'[c].halted = paused
               /\ job'[c].seen = job[c].seen
    BY <1>4, <1>0, <1>1 DEF GetPauseStatus
  <1>5. ASSUME AdvanceOrEnd(c)
        PROVE  \/ pc(c)' = "idle"
               \/ pc(c)' = "sending" /\ ShouldSendEmail(c)
    BY <1>5, <1>0, <1>1 DEF AdvanceOrEnd
  <1>6. ASSUME SendEmail(c)
        PROVE  pc(c)' = "mailed"
    BY <1>6, <1>0, <1>1 DEF SendEmail
  <1>7. ASSUME SaveNotification(c)
        PROVE  pc(c)' = IF c = "credit" THEN "idle" ELSE "saved"
    BY <1>7, <1>0, <1>1 DEF SaveNotification
  <1>8. ASSUME ScheduleNextJob(c)
        PROVE  IF ShouldRescheduleJob(c)
               THEN pc(c)' = "queued" /\ job'[c].due = Period
               ELSE pc(c)' = "idle"
    BY <1>8, <1>0, <1>1 DEF ScheduleNextJob
  <1>9. ASSUME ValidatePauseState(c)
        PROVE  pc(c)' = "validated" /\ job'[c].seen = "none"
    BY <1>9, <1>0, <1>1 DEF ValidatePauseState
  <1>10. ASSUME GetInvoice(c)
        PROVE  pc(c)' = "found" /\ job'[c].seen = status
    BY <1>10, <1>0, <1>1 DEF GetInvoice
  <1>11. ASSUME Resume(c) \/ ResumeUnsaved(c)
        PROVE  pc(c)' = "resumed" /\ job'[c].seen = job[c].seen
    BY <1>11, <1>0, <1>1 DEF Resume, ResumeUnsaved
  <1>12. ASSUME ScheduleJob(c)
        PROVE  IF ShouldScheduleJob(c)
               THEN pc(c)' = "queued" /\ job'[c].due = CalculateRemainingDelay
               ELSE pc(c)' = "idle" /\ job'[c].seen = "none"
    BY <1>12, <1>0, <1>1 DEF ScheduleJob
  <1> HIDE DEF pc, At, Queued, Idle
  <1> QED
    BY ONLY <1>2, <1>3, <1>4, <1>5, <1>6, <1>7, <1>8, <1>9, <1>10, <1>11, <1>12

LEMMA NextCases ==
  ASSUME Next
  PROVE  \/ ConfirmInvoice \/ CloseInvoice \/ PauseReminders \/ Tick
         \/ \E c \in Chains : ChainStep(c)
         \/ \E ended \in SUBSET Chains : End(ended) /\ (paused' = TRUE \/ UNCHANGED paused)
  <1>1. ASSUME NEW c \in Chains, Fail(c)
        PROVE  \E ended \in SUBSET Chains : End(ended) /\ (paused' = TRUE \/ UNCHANGED paused)
    BY <1>1, ConstantFacts DEF Fail
  <1>2. ASSUME Restart
        PROVE  \E ended \in SUBSET Chains : End(ended) /\ (paused' = TRUE \/ UNCHANGED paused)
    BY <1>2 DEF Restart
  <1>3. Resumes \subseteq Chains
    BY DEF Chains, Reminders
  <1> QED
    BY <1>1, <1>2, <1>3 DEF Next, ChainStep

LEMMA SendingStep ==
  ASSUME TypeOK, SendingInv, Next
  PROVE  SendingInv'
  <1> USE DEF SendingInv, IsPaymentReminder
  <1>1. CASE ConfirmInvoice
    BY <1>1, ConstantFacts DEF ConfirmInvoice
  <1>2. CASE CloseInvoice \/ PauseReminders
    BY <1>2 DEF CloseInvoice, PauseReminders, pc, invoice
  <1>3. CASE Tick
    BY <1>3 DEF Tick, Running, pc, Queued
  <1>4. ASSUME NEW c \in Chains, ChainStep(c)
        PROVE  SendingInv'
    <2>1. CASE AdvanceOrEnd(c)
      <3>1. pc(c)' = "sending" => ShouldSendEmail(c)
        BY <2>1, BecomesFact DEF AdvanceOrEnd, Idle, At, pc
      <3> QED
        BY <2>1, <3>1, <1>4, ChainFrame DEF ShouldSendEmail, pc, invoice
    <2>2. CASE ~AdvanceOrEnd(c)
      <3>1. pc(c)' # "sending"
        BY <1>4, <2>2, Moves DEF ChainStep, JobStep, RequestStep
      <3> QED
        BY <3>1, <1>4, ChainFrame DEF pc, invoice
    <2> QED
      BY <2>1, <2>2
  <1>5. ASSUME NEW ended \in SUBSET Chains, End(ended)
        PROVE  SendingInv'
    BY <1>5 DEF End, Idle, At, pc, invoice
  <1> QED
    BY <1>1, <1>2, <1>3, <1>4, <1>5, NextCases

LEMMA TypeStep ==
  ASSUME TypeOK, SendingInv, Next
  PROVE  TypeOK'
  <1>1. ASSUME NEW c \in Chains, ChainStep(c) PROVE TypeOK'
    BY <1>1, TypeJob, TypeRequest DEF ChainStep
  <1>2. ASSUME NEW ended \in SUBSET Chains, End(ended), paused' = TRUE \/ UNCHANGED paused
        PROVE  TypeOK'
    <2>1. paused' \in BOOLEAN
      BY <1>2 DEF TypeOK
    <2> QED
      BY <1>2, <2>1, TypeEnd
  <1> QED
    BY <1>1, <1>2, TypeOthers, TypeTick, NextCases

LEMMA DraftStep ==
  ASSUME TypeOK, DraftInv, Next
  PROVE  DraftInv'
  <1> SUFFICES ASSUME kind' = "payment", status' = "DRAFT"
               PROVE  /\ sent' = Memory
                      /\ \A c \in Chains :
                           /\ pc(c)' \in {"idle", "validated", "found", "resumed"}
                           /\ job'[c].seen \in {"none", "DRAFT"}
    BY DEF DraftInv, pc
  <1>1. CASE ConfirmInvoice \/ CloseInvoice
    BY <1>1 DEF ConfirmInvoice, CloseInvoice
  <1>2. CASE PauseReminders
    BY <1>2 DEF PauseReminders, DraftInv, pc, invoice
  <1>3. CASE Tick
    BY <1>3, ConstantFacts DEF Tick, DraftInv, Later, pc
  <1>4. ASSUME NEW c \in Chains, ChainStep(c)
        PROVE  /\ sent' = Memory
               /\ \A d \in Chains :
                    /\ pc(d)' \in {"idle", "validated", "found", "resumed"}
                    /\ job'[d].seen \in {"none", "DRAFT"}
    <2>1. /\ kind = "payment" /\ status = "DRAFT" /\ sent = Memory
          /\ \A d \in Chains : /\ pc(d) \in {"idle", "validated", "found", "resumed"}
                               /\ job[d].seen \in {"none", "DRAFT"}
      BY <1>4, ChainFrame DEF invoice, DraftInv
    <2>2. ~JobStep(c)
      BY <2>1 DEF JobStep, ScheduleReminders, StartJob, GetPauseStatus,
                  AdvanceOrEnd, SendEmail, SaveNotification, ScheduleNextJob
    <2>3. ~ShouldScheduleJob(c)
      BY <2>1 DEF ShouldScheduleJob, Remindable
    <2>4. /\ pc(c)' \in {"idle", "validated", "found", "resumed"}
          /\ job'[c].seen \in {"none", "DRAFT"}
      BY <1>4, <2>1, <2>2, <2>3, Moves DEF ChainStep, RequestStep
    <2>5. sent' = sent
      BY <1>4, <2>2 DEF ChainStep, RequestStep, ValidatePauseState, GetInvoice, Resume,
                        ResumeUnsaved, ScheduleJob, rows
    <2> QED
      BY <1>4, <2>1, <2>4, <2>5, ChainFrame DEF pc
  <1>5. ASSUME NEW ended \in SUBSET Chains, End(ended)
        PROVE  /\ sent' = Memory
               /\ \A c \in Chains :
                    /\ pc(c)' \in {"idle", "validated", "found", "resumed"}
                    /\ job'[c].seen \in {"none", "DRAFT"}
    BY <1>5 DEF End, DraftInv, pc, invoice, Idle, At
  <1> QED
    BY <1>1, <1>2, <1>3, <1>4, <1>5, NextCases

LEMMA CreditStep ==
  ASSUME TypeOK, CreditInv, Next
  PROVE  CreditInv'
  <1> DEFINE Sums == \/ issued >= 3 * Period
                     \/ pc("credit") = "queued" /\ job["credit"].due + issued >= CreditControlDelay
  <1> USE ConstantFacts
  <1>1. CASE ConfirmInvoice
    BY <1>1 DEF ConfirmInvoice, CreditInv, pc, TypeOK, At, Kinds
  <1>2. CASE CloseInvoice
    BY <1>2 DEF CloseInvoice, CreditInv, pc
  <1>3. CASE PauseReminders
    BY <1>3 DEF PauseReminders, CreditInv, pc, invoice
  <1>4. CASE Tick
    <2>1. kind' = "confirmation" => pc("credit")' = "idle"
      BY <1>4 DEF Tick, CreditInv, pc
    <2>2. ASSUME status' = "ACTIVE", pc("credit")' \notin {"idle", "announced"}
          PROVE  Sums'
      <3>1. status = "ACTIVE" /\ pc("credit") = "queued"
        BY <1>4, <2>2 DEF Tick, pc, Running
      <3>2. pc("credit")' = "queued" /\ job'["credit"].due = job["credit"].due - 1
        BY <1>4, <3>1 DEF Tick, pc, Queued
      <3>3. issued' = IF issued < Horizon THEN issued + 1 ELSE Horizon
        BY <1>4, <3>1 DEF Tick, Later
      <3>4. issued \in Nat /\ job["credit"].due \in Int
        BY DEF TypeOK
      <3>5. Sums
        BY <3>1 DEF CreditInv
      <3> QED
        BY <3>2, <3>3, <3>4, <3>5
    <2> QED
      BY <2>1, <2>2 DEF CreditInv, pc
  <1>5. ASSUME NEW c \in Chains, ChainStep(c)
        PROVE  CreditInv'
    <2>1. CASE c # "credit"
      BY <1>5, <2>1, ChainFrame DEF CreditInv, pc, invoice
    <2>2. CASE c = "credit"
      <3>1. JobStep(c)
        BY <1>5, <2>2 DEF ChainStep, Reminders
      <3>2. kind = "payment" /\ kind' = "payment"
        BY <1>5, <2>2, <3>1, ChainFrame
           DEF CreditInv, TypeOK, Kinds, invoice, JobStep, ScheduleReminders, StartJob,
               GetPauseStatus, AdvanceOrEnd, SendEmail, SaveNotification, ScheduleNextJob
      <3>3. issued \in Nat /\ issued' = issued /\ status' = status
        BY <1>5, ChainFrame DEF TypeOK, invoice
      <3>4. CASE ScheduleReminders(c)
        BY <2>2, <3>2, <3>3, <3>4, Moves DEF CreditInv, pc
      <3>5. CASE StartJob(c)
        BY <2>2, <3>2, <3>3, <3>5, Moves DEF CreditInv, pc, StartJob, TypeOK
      <3>6. CASE ~ScheduleReminders(c) /\ ~StartJob(c)
        <4>1. pc(c) \notin {"idle", "announced", "queued"}
          BY <3>1, <3>6 DEF JobStep, GetPauseStatus, AdvanceOrEnd, SendEmail,
                            SaveNotification, ScheduleNextJob
        <4> QED
          BY <2>2, <3>2, <3>3, <4>1 DEF CreditInv, pc
      <3> QED
        BY <3>4, <3>5, <3>6
    <2> QED
      BY <2>1, <2>2
  <1>6. ASSUME NEW ended \in SUBSET Chains, End(ended)
        PROVE  CreditInv'
    BY <1>6 DEF End, CreditInv, pc, invoice, Idle, At
  <1> QED
    BY <1>1, <1>2, <1>3, <1>4, <1>5, <1>6, NextCases

LEMMA SeenStep ==
  ASSUME TypeOK, DraftInv, SeenInv, Next
  PROVE  SeenInv'
  <1>1. CASE ConfirmInvoice
    BY <1>1 DEF ConfirmInvoice, SeenInv, DraftInv, Remindable, pc, TypeOK, At, Kinds
  <1>2. CASE CloseInvoice
    BY <1>2 DEF CloseInvoice, SeenInv, Remindable, pc
  <1>3. CASE PauseReminders
    BY <1>3 DEF PauseReminders, SeenInv, Remindable, pc, invoice
  <1>4. CASE Tick
    BY <1>4 DEF Tick, SeenInv, Running, pc, Queued
  <1>5. ASSUME NEW c \in Chains, ChainStep(c)
        PROVE  SeenInv'
    <2>1. Remindable' = Remindable /\ status' = status
      BY <1>5, ChainFrame DEF Remindable, invoice
    <2>2. pc(c)' \in {"loaded", "checked"} /\ status = Remindable => job'[c].seen = Remindable
      <3>1. CASE StartJob(c)
        BY <3>1, Moves
      <3>2. CASE GetPauseStatus(c)
        BY <3>2, Moves DEF SeenInv, GetPauseStatus
      <3>3. CASE ~StartJob(c) /\ ~GetPauseStatus(c)
        BY <1>5, <3>3, Moves DEF ChainStep, JobStep, RequestStep
      <3> QED
        BY <3>1, <3>2, <3>3
    <2> QED
      BY <1>5, <2>1, <2>2, ChainFrame DEF SeenInv, pc
  <1>6. ASSUME NEW ended \in SUBSET Chains, End(ended)
        PROVE  SeenInv'
    BY <1>6 DEF End, SeenInv, Remindable, pc, invoice, Idle, At
  <1> QED
    BY <1>1, <1>2, <1>3, <1>4, <1>5, <1>6, NextCases

(* A failure of a chain that goes on is remembered.                          *)
LEMMA EndFacts ==
  ASSUME TypeOK, NEW ended \in SUBSET Chains, End(ended)
  PROVE  /\ UNCHANGED <<kind, status, accepted, issued, sent, count>>
         /\ \A c \in Chains : job'[c] = IF c \in ended THEN Idle ELSE job[c]
         /\ ~lost' => ~lost /\ \A c \in Reminders : GoesOn(c) => job'[c] = job[c]
  BY ConstantFacts DEF End, invoice

LEMMA StaleStep ==
  ASSUME TypeOK, StaleInv, Next
  PROVE  StaleInv'
  <1> USE ConstantFacts
  <1>1. CASE ConfirmInvoice
    BY <1>1 DEF ConfirmInvoice, StaleInv, Ahead, Remindable, pc, TypeOK, At, Kinds, history
  <1>2. CASE CloseInvoice
    BY <1>2 DEF CloseInvoice, StaleInv, Remindable, pc
  <1>3. CASE PauseReminders
    BY <1>3 DEF PauseReminders, StaleInv, Ahead, Remindable, pc, invoice, history
  <1>4. CASE Tick
    BY <1>4 DEF Tick, StaleInv, Running, pc, Queued
  <1>5. ASSUME NEW c \in Chains, ChainStep(c)
        PROVE  StaleInv'
    <2>1. Remindable' = Remindable /\ status' = status
      BY <1>5, ChainFrame DEF Remindable, invoice
    <2>2. SUFFICES ASSUME NEW r \in Chains, pc(r)' \in {"found", "resumed"},
                          status = Remindable, job'[r].seen # Remindable, ~lost'
                   PROVE  \E d \in Reminders : Ahead(d)'
      BY <2>1 DEF StaleInv, pc
    <2>3. \/ pc(r) \in {"found", "resumed"} /\ job[r].seen # Remindable
          \/ \E d \in Reminders : Ahead(d)'
      <3>1. CASE r # c
        BY <1>5, <2>2, <3>1, ChainFrame DEF pc
      <3>2. CASE r = c
        BY <1>5, <2>2, <3>2, Moves DEF ChainStep, JobStep, RequestStep, Resume, ResumeUnsaved
      <3> QED
        BY <3>1, <3>2
    <2>4. CASE lost
      <3>1. ScheduleJob(c) /\ c \in Resumes /\ ShouldScheduleJob(c)
        BY <1>5, <2>2, <2>4
           DEF ChainStep, JobStep, RequestStep, ScheduleReminders, StartJob, GetPauseStatus,
               AdvanceOrEnd, SendEmail, SaveNotification, ScheduleNextJob, ValidatePauseState,
               GetInvoice, Resume, ResumeUnsaved, ScheduleJob, Repairs, history
      <3>2. c \in Reminders
        BY <3>1 DEF Reminders
      <3> QED
        BY <3>1, <3>2, Moves, RemainingDelay DEF Ahead, pc
    <2>5. CASE ~lost /\ (\E d \in Reminders : Ahead(d))
      <3>1. PICK d \in Reminders : Ahead(d)
        BY <2>5
      <3>2. CASE d # c
        BY <1>5, <3>1, <3>2, ChainFrame DEF Ahead, pc
      <3>3. CASE d = c
        <4>1. ScheduleReminders(c)
          BY <1>5, <3>1, <3>3
             DEF Ahead, TypeOK, ChainStep, JobStep, RequestStep, StartJob, GetPauseStatus,
                 AdvanceOrEnd, SendEmail, SaveNotification, ScheduleNextJob,
                 ValidatePauseState, GetInvoice, Resume, ResumeUnsaved, ScheduleJob
        <4> QED
          BY <3>1, <3>3, <4>1, Moves DEF Ahead, pc
      <3> QED
        BY <3>2, <3>3
    <2> QED
      BY <2>2, <2>3, <2>4, <2>5 DEF StaleInv
  <1>6. ASSUME NEW ended \in SUBSET Chains, End(ended)
        PROVE  StaleInv'
    <2>1. SUFFICES ASSUME NEW r \in Chains, pc(r)' \in {"found", "resumed"},
                          status' = Remindable', job'[r].seen # Remindable', ~lost'
                   PROVE  \E d \in Reminders : Ahead(d)'
      BY DEF StaleInv, pc
    <2>2. job'[r] = job[r] /\ Remindable' = Remindable /\ status' = status
      BY <1>6, <2>1, EndFacts DEF pc, Idle, At, Remindable
    <2>3. PICK d \in Reminders : Ahead(d)
      BY <1>6, <2>1, <2>2, EndFacts DEF StaleInv, pc
    <2>4. job'[d] = job[d]
      BY <1>6, <2>1, <2>3, EndFacts DEF Ahead, GoesOn
    <2> QED
      BY <2>3, <2>4 DEF Ahead, pc
  <1> QED
    BY <1>1, <1>2, <1>3, <1>4, <1>5, <1>6, NextCases

(* Reminders that are over stay so, but for the confirmation of an invoice.  *)
LEMMA ExpectedBefore ==
  ASSUME TypeOK, Next, ~ConfirmInvoice, Expected'
  PROVE  Expected
  <1> USE DEF Expected, Remindable, invoice, rows
  <1>1. CASE CloseInvoice \/ PauseReminders
    BY <1>1 DEF CloseInvoice, PauseReminders, TypeOK, Statuses, Kinds
  <1>2. CASE Tick
    BY <1>2, ConstantFacts DEF Tick, Later, TypeOK, Kinds
  <1>3. ASSUME NEW c \in Chains, ChainStep(c)
        PROVE  Expected
    <2>1. count' < 3 => count < 3
      BY <1>3 DEF TypeOK, ChainStep, JobStep, RequestStep, ScheduleReminders, StartJob,
               GetPauseStatus, AdvanceOrEnd, SendEmail, SaveNotification, ScheduleNextJob,
               ValidatePauseState, GetInvoice, Resume, ResumeUnsaved, ScheduleJob
    <2> QED
      BY <1>3, <2>1, ChainFrame DEF TypeOK
  <1>4. ASSUME NEW ended \in SUBSET Chains, End(ended)
        PROVE  Expected
    BY <1>4, EndFacts
  <1> QED
    BY <1>1, <1>2, <1>3, <1>4, NextCases

LEMMA RecentStep ==
  ASSUME TypeOK, DraftInv, CreditInv, RecentInv, Next
  PROVE  RecentInv'
  <1> USE ConstantFacts DEF NotificationsSentInLastDelay
  <1> SUFFICES ASSUME Expected', ~lost', 100 * sent' < 85 * Period
               PROVE  \E d \in Reminders : Follows(d)'
    BY DEF RecentInv
  <1>1. CASE ConfirmInvoice
    <2>1. kind = "payment" /\ status = "DRAFT"
      BY <1>1 DEF ConfirmInvoice, Expected, Remindable, TypeOK, Kinds
    <2>2. sent' = Memory
      BY <1>1, <2>1 DEF ConfirmInvoice, DraftInv, rows
    <2> QED
      BY <2>2
  <1>2. Expected \/ ConfirmInvoice
    BY ExpectedBefore
  <1>3. CASE CloseInvoice
    BY <1>3 DEF CloseInvoice, Expected, Remindable
  <1>4. CASE PauseReminders /\ Expected
    <2>1. PICK d \in Reminders : Follows(d)
      BY <1>4 DEF PauseReminders, RecentInv, history
    <2> QED
      BY <1>4, <2>1 DEF PauseReminders, Follows, pc
  <1>5. CASE Tick /\ Expected
    <2>1. sent' = sent + 1 /\ 100 * sent < 85 * Period /\ sent \in Nat
      BY <1>5 DEF Tick, Later, TypeOK
    <2>2. PICK d \in Reminders : Follows(d)
      BY <1>5, <2>1 DEF Tick, RecentInv
    <2>3. pc(d) = "queued" /\ job[d].due \in Int
      BY <1>5, <2>2 DEF Tick, Follows, Running, TypeOK
    <2>4. pc(d)' = "queued" /\ job'[d].due = job[d].due - 1
      BY <1>5, <2>3 DEF Tick, Queued, pc
    <2> QED
      BY <2>1, <2>2, <2>3, <2>4 DEF Follows, pc
  <1>6. ASSUME NEW c \in Chains, ChainStep(c), Expected
        PROVE  \E d \in Reminders : Follows(d)'
    <2>1. issued' = issued /\ issued \in Nat /\ kind' = kind /\ status' = status
      BY <1>6, ChainFrame DEF invoice, TypeOK
    <2>2. CASE SaveNotification(c)
      <3>1. c # "credit"
        BY <1>6, <2>2 DEF SaveNotification, CreditInv, Expected, Remindable, TypeOK, Kinds
      <3> QED
        BY <2>2, <3>1, Moves DEF Follows, pc, Chains
    <2>3. CASE ~SaveNotification(c)
      <3>1. sent' = sent
        BY <1>6, <2>3
           DEF ChainStep, JobStep, RequestStep, ScheduleReminders, StartJob, GetPauseStatus,
               AdvanceOrEnd, SendEmail, ScheduleNextJob, ValidatePauseState,
               GetInvoice, Resume, ResumeUnsaved, ScheduleJob, rows
      <3>2. CASE lost
        <4>1. ScheduleJob(c) /\ c \in Resumes /\ Repairs(c)
          BY <1>6, <2>3, <3>2
             DEF ChainStep, JobStep, RequestStep, ScheduleReminders, StartJob, GetPauseStatus,
                 AdvanceOrEnd, SendEmail, ScheduleNextJob, ValidatePauseState,
                 GetInvoice, Resume, ResumeUnsaved, ScheduleJob, history
        <4>2. pc(c)' = "queued" /\ job'[c].due = CalculateRemainingDelay
          BY <4>1, Moves DEF Repairs
        <4>3. CalculateRemainingDelay \in Int /\ sent \in Int
          BY RemainingDelay DEF TypeOK
        <4> QED
          BY <3>1, <4>1, <4>2, <4>3 DEF Repairs, Follows, pc, Reminders
      <3>3. CASE ~lost
        <4>1. PICK d \in Reminders : Follows(d)
          BY <1>6, <3>1, <3>3 DEF RecentInv
        <4>2. CASE d # c
          BY <1>6, <3>1, <4>1, <4>2, ChainFrame DEF Follows, pc
        <4>3. CASE d = c
          <5>1. sent \in Nat /\ job[c].due \in Int
            BY DEF TypeOK
          <5>2. ScheduleNextJob(c)
            BY <1>6, <2>3, <3>1, <4>1, <4>3, <5>1
               DEF Follows, ChainStep, JobStep, RequestStep, ScheduleReminders, StartJob,
                   GetPauseStatus, AdvanceOrEnd, SendEmail, ValidatePauseState,
                   GetInvoice, Resume, ResumeUnsaved, ScheduleJob
          <5>3. ShouldRescheduleJob(c)
            BY <1>6 DEF Expected, ShouldRescheduleJob, IsPaymentReminder
          <5>4. pc(c)' = "queued" /\ job'[c].due = Period
            BY <5>2, <5>3, Moves
          <5> QED
            BY <3>1, <4>1, <4>3, <5>1, <5>4 DEF Follows, pc
        <4> QED
          BY <4>2, <4>3
      <3> QED
        BY <3>2, <3>3
    <2> QED
      BY <2>2, <2>3
  <1>7. ASSUME NEW ended \in SUBSET Chains, End(ended), Expected
        PROVE  \E d \in Reminders : Follows(d)'
    <2>1. PICK d \in Reminders : Follows(d)
      BY <1>7, EndFacts DEF RecentInv
    <2>2. job'[d] = job[d] /\ sent' = sent
      BY <1>7, <2>1, EndFacts DEF Follows, GoesOn
    <2> QED
      BY <2>1, <2>2 DEF Follows, pc
  <1> QED
    BY <1>1, <1>2, <1>3, <1>4, <1>5, <1>6, <1>7, NextCases

LEMMA GoOnStep ==
  ASSUME IInv, Next
  PROVE  RemindersGoOn'
  <1> USE ConstantFacts
  <1> SUFFICES ASSUME Expected', ~paused', ~lost'
               PROVE  \E d \in Reminders : GoesOn(d)'
    BY DEF RemindersGoOn
  <1>0. TypeOK
    BY DEF IInv, GoOnInv
  <1>1. CASE ConfirmInvoice
    <2>1. kind = "payment"
      BY <1>0, <1>1 DEF ConfirmInvoice, Expected, Remindable, TypeOK, Kinds
    <2> QED
      BY <1>0, <1>1, <2>1 DEF ConfirmInvoice, GoesOn, pc, At, TypeOK
  <1>2. Expected \/ ConfirmInvoice
    BY <1>0, ExpectedBefore
  <1>3. CASE CloseInvoice \/ PauseReminders
    BY <1>3 DEF CloseInvoice, PauseReminders, Expected, Remindable
  <1>4. CASE Tick /\ Expected
    <2>1. PICK d \in Reminders : GoesOn(d)
      BY <1>4 DEF Tick, IInv, RemindersGoOn
    <2>2. pc(d) = "queued"
      BY <1>4, <2>1 DEF Tick, GoesOn, Undoes, Running
    <2> QED
      BY <1>4, <2>2 DEF Tick, Queued, GoesOn, pc
  <1>5. ASSUME NEW c \in Chains, ChainStep(c), Expected
        PROVE  \E d \in Reminders : GoesOn(d)'
    <2>1. /\ issued' = issued /\ issued \in Nat /\ kind' = kind /\ status' = status
          /\ \A d \in Chains : d # c => job'[d] = job[d]
      BY <1>0, <1>5, ChainFrame DEF invoice, TypeOK
    <2>2. ASSUME NEW d \in Reminders, d # c, GoesOn(d)
          PROVE  GoesOn(d)'
      BY <2>1, <2>2 DEF GoesOn, Undoes, ShouldScheduleJob, Remindable, pc
    <2>3. CASE lost
      <3>1. ScheduleJob(c) /\ c \in Reminders /\ ShouldScheduleJob(c)
        BY <1>5, <2>3
           DEF ChainStep, JobStep, RequestStep, ScheduleReminders, StartJob, GetPauseStatus,
               AdvanceOrEnd, SendEmail, SaveNotification, ScheduleNextJob, ValidatePauseState,
               GetInvoice, Resume, ResumeUnsaved, ScheduleJob, history, Repairs, Reminders
      <3> QED
        BY <1>0, <3>1, Moves DEF GoesOn, pc
    <2>4. CASE ~lost /\ paused
      <3>1. Resume(c) /\ c \in Reminders
        BY <1>5, <2>4
           DEF ChainStep, JobStep, RequestStep, ScheduleReminders, StartJob, GetPauseStatus,
               AdvanceOrEnd, SendEmail, SaveNotification, ScheduleNextJob, ValidatePauseState,
               GetInvoice, ResumeUnsaved, ScheduleJob, rows, Reminders
      <3>2. pc(c)' = "resumed" /\ job'[c].seen = job[c].seen
        BY <1>0, <3>1, Moves
      <3>3. CASE job[c].seen = Remindable
        <4>1. kind = "payment" => issued \div Period < 3
          BY <1>5, <2>1, Quotient DEF Expected
        <4>2. Undoes(c)'
          BY <2>1, <3>2, <3>3, <4>1 DEF Undoes, ShouldScheduleJob, Remindable, pc
        <4> QED
          BY <3>1, <4>2 DEF GoesOn
      <3>4. CASE job[c].seen # Remindable
        <4>1. PICK d \in Reminders : Ahead(d)
          BY <1>5, <2>4, <3>1, <3>4 DEF IInv, GoOnInv, StaleInv, Resume, Expected
        <4>2. d # c /\ GoesOn(d)
          BY <3>1, <4>1 DEF Ahead, GoesOn, Resume
        <4> QED
          BY <2>2, <4>2
      <3> QED
        BY <3>3, <3>4
    <2>5. CASE ~lost /\ ~paused
      <3>1. PICK d \in Reminders : GoesOn(d)
        BY <1>5, <2>5 DEF IInv, RemindersGoOn
      <3>2. CASE d # c
        BY <2>2, <3>1, <3>2
      <3>3. CASE d = c /\ JobStep(c) /\ ~AdvanceOrEnd(c)
        <4>1. ShouldRescheduleJob(c)
          BY <1>5 DEF Expected, ShouldRescheduleJob, IsPaymentReminder
        <4>2. \/ pc(c)' \in {"queued", "loaded", "mailed", "saved"}
              \/ pc(c)' = "checked" /\ ~job'[c].halted
          BY <1>0, <2>5, <3>1, <3>3, <4>1, Moves DEF JobStep
        <4> QED
          BY <3>1, <3>3, <4>2 DEF GoesOn, pc
      <3>4. CASE d = c /\ AdvanceOrEnd(c) /\ pc(c)' = "sending"
        BY <3>4 DEF GoesOn, pc
      <3>5. CASE d = c /\ AdvanceOrEnd(c) /\ pc(c)' # "sending"
        <4>1. job[c].seen = Remindable /\ ~job[c].halted /\ c # "credit"
          BY <1>5, <3>1, <3>5
             DEF IInv, GoOnInv, SeenInv, Expected, AdvanceOrEnd, GoesOn, Undoes
        <4>2. ShouldSendEmail(c) /\ BellowEmailMaxCount(c)
          BY <1>5, <2>1, <4>1 DEF ShouldSendEmail, BellowEmailMaxCount, Expected, IsPaymentReminder
        <4>3. ~NoReminderSentRecently(c)
          BY <1>0, <3>5, <4>2, BecomesFact DEF AdvanceOrEnd, pc, At
        <4>4. PICK e \in Reminders : Follows(e)
          BY <1>5, <2>5, <4>1, <4>3
             DEF NoReminderSentRecently, Delay, IInv, GoOnInv, RecentInv
        <4>5. e # c /\ GoesOn(e)
          BY <3>5, <4>4 DEF Follows, GoesOn, AdvanceOrEnd
        <4> QED
          BY <2>2, <4>5
      <3>6. CASE d = c /\ ~JobStep(c)
        <4>1. ScheduleJob(c) /\ ShouldScheduleJob(c)
          BY <1>5, <3>1, <3>6
             DEF GoesOn, Undoes, ChainStep, RequestStep, ValidatePauseState,
                 GetInvoice, Resume, ResumeUnsaved, ScheduleJob
        <4> QED
          BY <1>0, <3>1, <3>6, <4>1, Moves DEF GoesOn, pc
      <3> QED
        BY <3>2, <3>3, <3>4, <3>5, <3>6
    <2> QED
      BY <2>3, <2>4, <2>5, <1>0 DEF TypeOK
  <1>6. ASSUME NEW ended \in SUBSET Chains, End(ended), Expected,
               paused' = TRUE \/ UNCHANGED paused
        PROVE  \E d \in Reminders : GoesOn(d)'
    <2>1. PICK d \in Reminders : GoesOn(d)
      BY <1>0, <1>6, EndFacts DEF IInv, RemindersGoOn
    <2>2. job'[d] = job[d] /\ kind' = kind /\ issued' = issued
      BY <1>0, <1>6, <2>1, EndFacts
    <2> QED
      BY <2>1, <2>2 DEF GoesOn, Undoes, ShouldScheduleJob, Remindable, pc
  <1> QED
    BY <1>1, <1>2, <1>3, <1>4, <1>5, <1>6, NextCases

-----------------------------------------------------------------------------
(* The recorded e-mail, and the jobs that have not seen it.                  *)

LEMMA MailedStep ==
  ASSUME TypeOK, DraftInv, MailedInv, Next
  PROVE  MailedInv'
  <1>1. CASE ConfirmInvoice
    <2>1. \A d \in Chains : pc(d) # pc(d)' => pc(d) # "mailed" /\ pc(d)' # "mailed"
      BY <1>1 DEF ConfirmInvoice, DraftInv, pc, At, TypeOK
    <2> QED
      BY <1>1, <2>1 DEF ConfirmInvoice, MailedInv, rows, history
  <1>2. CASE CloseInvoice \/ PauseReminders
    BY <1>2 DEF CloseInvoice, PauseReminders, MailedInv, rows, history, pc
  <1>3. CASE Tick
    <2>1. \A d \in Chains : pc(d) # "mailed" /\ pc(d)' # "mailed"
      BY <1>3 DEF Tick, Running, pc, Queued
    <2> QED
      BY <1>3, <2>1 DEF Tick, MailedInv, pc
  <1>4. ASSUME NEW c \in Chains, ChainStep(c)
        PROVE  MailedInv'
    <2>1. CASE SendEmail(c)
      BY <1>4, <2>1, Moves, ChainFrame DEF SendEmail, MailedInv, pc
    <2>2. CASE SaveNotification(c)
      BY <1>4, <2>2, Moves, ChainFrame DEF SaveNotification, MailedInv, pc, history
    <2>3. CASE ~SendEmail(c) /\ ~SaveNotification(c)
      <3>1. pc(c) # "mailed" /\ pc(c)' # "mailed"
        BY <1>4, <2>3, Moves
           DEF ChainStep, JobStep, RequestStep, ScheduleReminders, StartJob, GetPauseStatus,
               AdvanceOrEnd, ScheduleNextJob, ValidatePauseState, GetInvoice, Resume,
               ResumeUnsaved, ScheduleJob
      <3>2. UNCHANGED <<sent, mailed, unrecorded>>
        BY <1>4, <2>3
           DEF ChainStep, JobStep, RequestStep, ScheduleReminders, StartJob, GetPauseStatus,
               AdvanceOrEnd, ScheduleNextJob, ValidatePauseState, GetInvoice, Resume,
               ResumeUnsaved, ScheduleJob, rows, history
      <3> QED
        BY <1>4, <3>1, <3>2, ChainFrame DEF MailedInv, pc
    <2> QED
      BY <2>1, <2>2, <2>3
  <1>5. ASSUME NEW ended \in SUBSET Chains, End(ended)
        PROVE  MailedInv'
    BY <1>5 DEF End, MailedInv, pc, Idle, At
  <1> QED
    BY <1>1, <1>2, <1>3, <1>4, <1>5, NextCases

LEMMA OvertakenStep ==
  ASSUME TypeOK, DraftInv, OvertakenInv, Next
  PROVE  OvertakenInv'
  <1>1. CASE ConfirmInvoice
    <2>1. \A d \in Chains : pc(d) # pc(d)' =>
            /\ pc(d) # "mailed" /\ pc(d)' = "announced"
      BY <1>1 DEF ConfirmInvoice, DraftInv, pc, At, TypeOK
    <2> QED
      BY <1>1, <2>1 DEF ConfirmInvoice, OvertakenInv, history
  <1>2. CASE CloseInvoice \/ PauseReminders
    BY <1>2 DEF CloseInvoice, PauseReminders, OvertakenInv, history, pc
  <1>3. CASE Tick
    BY <1>3 DEF Tick, Running, OvertakenInv, pc, Queued
  <1>4. ASSUME NEW c \in Chains, ChainStep(c)
        PROVE  OvertakenInv'
    <2>1. CASE SendEmail(c)
      BY <1>4, <2>1, Moves, ChainFrame DEF SendEmail, OvertakenInv, pc, Running
    <2>2. CASE StartJob(c)
      BY <1>4, <2>2, Moves, ChainFrame DEF StartJob, OvertakenInv, pc
    <2>3. CASE ~SendEmail(c) /\ ~StartJob(c)
      <3>1. /\ pc(c)' # "mailed"
            /\ pc(c)' \in {"loaded", "checked", "sending"} =>
                 pc(c) \in {"loaded", "checked", "sending"}
        BY <1>4, <2>3, Moves
           DEF ChainStep, JobStep, RequestStep, GetPauseStatus, AdvanceOrEnd
      <3>2. UNCHANGED overtaken
        BY <1>4, <2>3
           DEF ChainStep, JobStep, RequestStep, ScheduleReminders, GetPauseStatus,
               AdvanceOrEnd, SaveNotification, ScheduleNextJob, ValidatePauseState,
               GetInvoice, Resume, ResumeUnsaved, ScheduleJob, history
      <3> QED
        BY <1>4, <3>1, <3>2, ChainFrame DEF OvertakenInv, pc
    <2> QED
      BY <2>1, <2>2, <2>3
  <1>5. ASSUME NEW ended \in SUBSET Chains, End(ended)
        PROVE  OvertakenInv'
    BY <1>5 DEF End, OvertakenInv, pc, Idle, At
  <1> QED
    BY <1>1, <1>2, <1>3, <1>4, <1>5, NextCases

LEMMA SpacedStep ==
  ASSUME TypeOK, DraftInv, SpacingInv, Next
  PROVE  SpacedInv'
  <1> USE DEF SpacingInv
  <1>1. CASE ConfirmInvoice
    <2>1. \A d \in Chains : pc(d)' = "sending" => pc(d) = "sending"
      BY <1>1 DEF ConfirmInvoice, pc, At, TypeOK
    <2> QED
      BY <1>1, <2>1 DEF ConfirmInvoice, SpacedInv, Delay, NotificationsSentInLastDelay, history
  <1>2. CASE CloseInvoice \/ PauseReminders
    BY <1>2 DEF CloseInvoice, PauseReminders, SpacedInv, history, pc, Delay
  <1>3. CASE Tick
    BY <1>3 DEF Tick, Running, SpacedInv, pc, Queued
  <1>4. ASSUME NEW c \in Chains, ChainStep(c)
        PROVE  SpacedInv'
    <2>1. CASE SendEmail(c)
      BY <1>4, <2>1, Moves, ChainFrame DEF SendEmail, SpacedInv, pc, Running
    <2>2. CASE AdvanceOrEnd(c)
      <3>1. UNCHANGED <<mailed, overtaken, unrecorded>>
        BY <2>2 DEF AdvanceOrEnd, history
      <3>2. ASSUME pc(c)' = "sending", c \notin overtaken, ~unrecorded
            PROVE  ~NotificationsSentInLastDelay(mailed, Delay(c))
        <4>1. mailed = sent
          BY <2>2, <3>2 DEF AdvanceOrEnd, OvertakenInv, MailedInv
        <4>2. NoReminderSentRecently(c)
          BY <2>2, <3>2, BecomesFact DEF AdvanceOrEnd, pc, Idle, At
        <4> QED
          BY <4>1, <4>2 DEF NoReminderSentRecently
      <3> QED
        BY <1>4, <3>1, <3>2, ChainFrame
           DEF SpacedInv, pc, Delay, NotificationsSentInLastDelay
    <2>3. CASE ~SendEmail(c) /\ ~AdvanceOrEnd(c)
      <3>1. pc(c)' # "sending"
        BY <1>4, <2>3, Moves DEF ChainStep, JobStep, RequestStep
      <3>2. UNCHANGED <<mailed, unrecorded>> /\ overtaken \subseteq overtaken' \cup {c}
        BY <1>4, <2>3
           DEF ChainStep, JobStep, RequestStep, ScheduleReminders, StartJob, GetPauseStatus,
               SaveNotification, ScheduleNextJob, ValidatePauseState, GetInvoice, Resume,
               ResumeUnsaved, ScheduleJob, history
      <3> QED
        BY <1>4, <3>1, <3>2, ChainFrame
           DEF SpacedInv, pc, Delay, NotificationsSentInLastDelay
    <2> QED
      BY <2>1, <2>2, <2>3
  <1>5. ASSUME NEW ended \in SUBSET Chains, End(ended)
        PROVE  SpacedInv'
    BY <1>5 DEF End, SpacedInv, pc, Idle, At, Delay, NotificationsSentInLastDelay
  <1> QED
    BY <1>1, <1>2, <1>3, <1>4, <1>5, NextCases

-----------------------------------------------------------------------------
(* The theorems.                                                             *)

LEMMA Initially == Init => IInv /\ SpacingInv
  <1> SUFFICES ASSUME Init PROVE IInv /\ SpacingInv
    OBVIOUS
  <1>1. \A c \in Chains : pc(c) = IF kind = "confirmation" /\ c = "first"
                                 THEN "announced" ELSE "idle"
    BY DEF Init, pc, Idle, At
  <1>2. \A c \in Chains : job[c].seen = "none"
    BY DEF Init, Idle, At
  <1>3. TypeOK
    BY TypeInit
  <1>4. SendingInv /\ SeenInv /\ StaleInv /\ OvertakenInv /\ SpacedInv
    BY <1>1 DEF SendingInv, SeenInv, StaleInv, OvertakenInv, SpacedInv
  <1>5. DraftInv /\ CreditInv
    BY <1>1, <1>2, ConstantFacts DEF Init, DraftInv, CreditInv, Kinds
  <1>6. RecentInv
    BY ConstantFacts DEF Init, RecentInv, NotificationsSentInLastDelay
  <1>7. RemindersGoOn
    BY <1>1, ConstantFacts DEF Init, RemindersGoOn, GoesOn, Expected, Remindable, Kinds
  <1>8. MailedInv
    BY <1>1 DEF Init, MailedInv
  <1> QED
    BY <1>3, <1>4, <1>5, <1>6, <1>7, <1>8 DEF IInv, GoOnInv, SpacingInv

LEMMA Preserved ==
  ASSUME IInv, SpacingInv, [Next]_vars
  PROVE  IInv' /\ SpacingInv'
  <1>1. CASE Next
    BY <1>1, TypeStep, SendingStep, DraftStep, CreditStep, SeenStep, StaleStep, RecentStep,
       GoOnStep, MailedStep, OvertakenStep, SpacedStep
       DEF IInv, GoOnInv, SpacingInv
  <1>2. CASE UNCHANGED vars
    BY <1>2
       DEF vars, invoice, rows, history, IInv, GoOnInv, TypeOK, SendingInv, DraftInv,
           CreditInv, SeenInv, StaleInv, RecentInv, Follows, Ahead, Remindable, Expected,
           RemindersGoOn, GoesOn, Undoes, ShouldScheduleJob, IsPaymentReminder, Delay, pc,
           SpacingInv, MailedInv, OvertakenInv, SpacedInv, NotificationsSentInLastDelay
  <1> QED
    BY <1>1, <1>2

LEMMA Invariance == Spec => [](IInv /\ SpacingInv)
  BY Initially, Preserved, PTL DEF Spec

(* Every variable keeps its type: there is a template for every reminder to  *)
(* pay, and no job waits longer than the lateness allows.                    *)
THEOREM TypeCorrect == Spec => []TypeOK
  BY Invariance, PTL DEF IInv, GoOnInv

(* Reminders that are neither paused nor finished have a job that goes on,   *)
(* unless a failure cut the chain, whatever is paused, resumed, confirmed    *)
(* and paid meanwhile.                                                       *)
THEOREM NoChainIsLost == Spec => []RemindersGoOn
  BY Invariance, PTL DEF IInv

(* E-mails are 85 percent of the delay apart, unless jobs overlap or an      *)
(* e-mail is not recorded.                                                   *)
THEOREM EmailsAreSpaced == Spec => SpacedReminders
  <1>1. ASSUME SpacingInv
        PROVE  \A c \in Chains : Sends(c) =>
                 \/ ~NotificationsSentInLastDelay(mailed, Delay(c))
                 \/ c \in overtaken \/ unrecorded
    BY <1>1 DEF SpacingInv, SpacedInv, Sends
  <1> QED
    BY <1>1, Invariance, PTL DEF SpacedReminders

-----------------------------------------------------------------------------
(* The reminders to pay escalate.  A chain is due after one, two or three    *)
(* periods when it starts on time, and is later by what its first jobs were  *)
(* late.  Two of the e-mails that would have the second template could be    *)
(* spaced by 85 percent of a period only if a job were late by 70 percent.   *)

Prompt == 10 * MaxLate < 7 * Period

(* A reminder was recorded at age x of the invoice, and since then nobody    *)
(* has sent, nor is about to send, an e-mail that would be too early.        *)
Quiet(x) ==
  /\ sent <= issued - x
  /\ \/ mailed = Memory
     \/ issued - mailed <= x
     \/ ~NotificationsSentInLastDelay(issued - mailed - x, Period)
  /\ (\E d \in Chains : pc(d) = "sending")
       => issued <= x \/ ~NotificationsSentInLastDelay(issued - x, Period)

(* The ages of the invoice at which a job is due, and at which one that is   *)
(* late runs.                                                                *)
Slot(n, late) ==
  \/ Period <= n /\ n <= Period + late
  \/ /\ 2 * Period <= n
     /\ \/ n <= 2 * Period + late
        \/ \E x \in Period..(Period + MaxLate) : n <= x + Period + late /\ Quiet(x)
  \/ 3 * Period <= n

Goes(c) == \/ pc(c) \in {"loaded", "checked"} /\ job[c].seen = "ACTIVE"
           \/ pc(c) \in {"sending", "mailed", "saved"}

Slotted(c) ==
  /\ pc(c) = "announced" /\ status = "ACTIVE" => issued = 0
  /\ pc(c) = "queued" /\ status = "ACTIVE" => Slot(issued + job[c].due, 0)
  /\ Goes(c) => Slot(issued, MaxLate)
  /\ pc(c) = "saved" => sent = 0

SlotInv == kind = "payment" => \A c \in Reminders : Slotted(c)

(* The last reminder to pay was not sent before its template's period.       *)
TemplateInv ==
  kind = "payment" =>
    /\ status = "DRAFT" => template = 0
    /\ template > 0 => \/ issued >= template * Period + mailed
                       \/ issued = Horizon
                       \/ status = "FINAL" /\ issued = 0

EscalationInv == SlotInv /\ TemplateInv

LEMMA ChainRows ==
  ASSUME NEW c \in Chains, ChainStep(c)
  PROVE  /\ ~SendEmail(c) => UNCHANGED <<mailed, template>>
         /\ ~SaveNotification(c) => UNCHANGED sent
  BY DEF ChainStep, JobStep, RequestStep, ScheduleReminders, StartJob, GetPauseStatus,
         AdvanceOrEnd, SendEmail, SaveNotification, ScheduleNextJob, ValidatePauseState,
         GetInvoice, Resume, ResumeUnsaved, ScheduleJob, rows, history

LEMMA QuietStep ==
  ASSUME TypeOK, Next, ~ConfirmInvoice, Tick => status = "ACTIVE" /\ issued < Horizon,
         NEW x \in Int, Quiet(x)
  PROVE  Quiet(x)'
  <1> USE DEF NotificationsSentInLastDelay
  <1>0. /\ issued \in Nat /\ sent \in Nat /\ mailed \in Nat
        /\ mailed <= Memory /\ sent <= Memory
    BY ConstantFacts DEF TypeOK
  <1>1. CASE CloseInvoice \/ PauseReminders
    BY <1>1 DEF CloseInvoice, PauseReminders, Quiet, invoice, rows, history, pc
  <1>2. CASE Tick
    <2>0. status = "ACTIVE" /\ issued < Horizon
      BY <1>2
    <2>1. \A d \in Chains : pc(d)' # "sending"
      BY <1>2 DEF Tick, Running, pc, Queued
    <2>2. issued' = issued + 1 /\ sent' \in Nat /\ sent' <= sent + 1
      BY <1>0, <1>2, <2>0, ConstantFacts DEF Tick, Later
    <2>3. \/ mailed' = Memory
          \/ mailed' = mailed + 1 /\ mailed # Memory
      BY <1>0, <1>2, ConstantFacts DEF Tick, Later
    <2> QED
      BY <1>0, <2>1, <2>2, <2>3, ConstantFacts DEF Quiet
  <1>3. ASSUME NEW c \in Chains, ChainStep(c)
        PROVE  Quiet(x)'
    <2>1. issued' = issued
      BY <1>3, ChainFrame DEF invoice
    <2>2. CASE SendEmail(c)
      <3>1. mailed' = 0 /\ sent' = sent /\ pc(c) = "sending"
        BY <2>2 DEF SendEmail, rows
      <3>2. \A d \in Chains : pc(d)' = "sending" => pc(d) = "sending"
        BY <1>3, <2>2, Moves, ChainFrame DEF pc
      <3> QED
        BY <1>0, <2>1, <3>1, <3>2, ConstantFacts DEF Quiet
    <2>3. CASE SaveNotification(c)
      <3>1. sent' = 0 /\ UNCHANGED mailed
        BY <2>3 DEF SaveNotification, history
      <3>2. \A d \in Chains : pc(d)' = "sending" => pc(d) = "sending"
        BY <1>3, <2>3, Moves, ChainFrame DEF pc
      <3> QED
        BY <1>0, <2>1, <3>1, <3>2, ConstantFacts DEF Quiet
    <2>4. CASE AdvanceOrEnd(c) /\ pc(c)' = "sending"
      <3>1. UNCHANGED <<sent, mailed>>
        BY <2>4 DEF AdvanceOrEnd, rows, history
      <3>2. 100 * sent >= 85 * Delay(c) /\ Delay(c) \in Nat /\ Delay(c) >= Period
        <4>1. NoReminderSentRecently(c)
          BY <2>4, BecomesFact DEF AdvanceOrEnd, pc, Idle, At
        <4> QED
          BY <1>0, <4>1, ConstantFacts DEF NoReminderSentRecently, Delay
      <3>3. ~NotificationsSentInLastDelay(issued - x, Period)
        BY <1>0, <3>2, ConstantFacts DEF Quiet
      <3> QED
        BY <2>1, <3>1, <3>3 DEF Quiet
    <2>5. CASE ~SendEmail(c) /\ ~SaveNotification(c) /\ ~(AdvanceOrEnd(c) /\ pc(c)' = "sending")
      <3>1. UNCHANGED <<sent, mailed>>
        BY <1>3, <2>5, ChainRows
      <3>2. pc(c)' # "sending"
        BY <1>3, <2>5, Moves DEF ChainStep, JobStep, RequestStep
      <3>3. \A d \in Chains : pc(d)' = "sending" => pc(d) = "sending"
        BY <1>3, <3>2, ChainFrame DEF pc
      <3> QED
        BY <2>1, <3>1, <3>3 DEF Quiet
    <2> QED
      BY <2>2, <2>3, <2>4, <2>5
  <1>4. ASSUME NEW ended \in SUBSET Chains, End(ended)
        PROVE  Quiet(x)'
    BY <1>4 DEF End, Quiet, pc, Idle, At, invoice
  <1> QED
    BY <1>1, <1>2, <1>3, <1>4, NextCases

(* A job that is due starts at most MaxLate later.                           *)
LEMMA SlotLate ==
  ASSUME NEW n \in Int, NEW m \in Int, n <= m, m <= n + MaxLate, Slot(n, 0)
  PROVE  Slot(m, MaxLate)
  BY ConstantFacts DEF Slot

LEMMA SlotStep ==
  ASSUME Prompt, TypeOK, DraftInv, SlotInv, Next
  PROVE  SlotInv'
  <1> SUFFICES ASSUME kind' = "payment", NEW c \in Reminders
               PROVE  Slotted(c)'
    BY DEF SlotInv
  <1>0. /\ issued \in Nat /\ issued <= Horizon /\ sent \in Nat /\ mailed \in Nat
        /\ job[c].due \in Int /\ job[c].due >= -MaxLate /\ c \in Chains
        /\ MaxLate < Period
    BY ConstantFacts DEF TypeOK, Prompt
  <1>1. CASE ConfirmInvoice
    <2>1. kind = "payment" /\ status = "DRAFT" /\ issued' = 0
      BY <1>1 DEF ConfirmInvoice
    <2>2. pc(c) \in {"idle", "validated", "found", "resumed"}
      BY <1>0, <2>1 DEF DraftInv
    <2>3. pc(c)' \in {"idle", "validated", "found", "resumed", "announced"}
      BY <1>0, <1>1, <2>1, <2>2 DEF ConfirmInvoice, pc, At, TypeOK
    <2> QED
      BY <2>1, <2>3 DEF Slotted, Goes, pc
  <1>2. ~ConfirmInvoice => kind = "payment" /\ Slotted(c)
    <2>1. ~ConfirmInvoice => kind = "payment"
      <3>1. ASSUME NEW d \in Chains, ChainStep(d) PROVE kind' = kind
        BY <3>1, ChainFrame DEF invoice
      <3> QED
        BY <3>1, NextCases DEF CloseInvoice, PauseReminders, Tick, End, invoice
    <2> QED
      BY <2>1 DEF SlotInv
  <1>3. CASE CloseInvoice \/ PauseReminders
    <2>1. UNCHANGED <<issued, sent, mailed, job>>
      BY <1>3 DEF CloseInvoice, PauseReminders, invoice, rows, history
    <2>2. status' = "ACTIVE" => status = "ACTIVE"
      BY <1>3 DEF CloseInvoice, PauseReminders, invoice
    <2>3. Slotted(c)
      BY <1>2, <1>3 DEF CloseInvoice, PauseReminders, ConfirmInvoice, invoice
    <2> QED
      BY <2>1, <2>2, <2>3 DEF Slotted, Goes, Slot, Quiet, pc
  <1>4. CASE Tick
    <2>1. kind = "payment" /\ pc(c)' = pc(c) /\ pc(c) \in {"idle", "queued"} /\ status' = status
      BY <1>0, <1>4 DEF Tick, Running, pc, Queued
    <2>2. ASSUME pc(c) = "queued", status = "ACTIVE"
          PROVE  Slot(issued + job[c].due, 0)'
      <3>1. Slot(issued + job[c].due, 0)
        BY <2>1, <2>2 DEF SlotInv, Slotted
      <3>2. job'[c].due = job[c].due - 1 /\ job[c].due > -MaxLate
        BY <1>0, <1>4, <2>2 DEF Tick, Queued, pc
      <3>3. CASE issued = Horizon
        <4>1. issued' = Horizon
          BY <1>0, <1>4, <2>2, <3>3, ConstantFacts DEF Tick, Later
        <4>2. 3 * Period <= issued' + job'[c].due
          BY <1>0, <3>2, <4>1, ConstantFacts
        <4> QED
          BY <4>2 DEF Slot
      <3>4. CASE issued < Horizon
        <4>1. ~ConfirmInvoice
          BY <2>2 DEF ConfirmInvoice
        <4>2. \A x \in Int : Quiet(x) => Quiet(x)'
          BY <2>2, <3>4, <4>1, QuietStep
        <4>3. issued' + job'[c].due = issued + job[c].due
          BY <1>0, <1>4, <2>2, <3>2, <3>4 DEF Tick, Later
        <4> QED
          BY <3>1, <4>2, <4>3, ConstantFacts DEF Slot
      <3> QED
        BY <1>0, <3>3, <3>4, ConstantFacts
    <2> QED
      BY <2>1, <2>2 DEF Slotted, Goes, pc
  <1>5. ASSUME NEW d \in Chains, ChainStep(d), ~ConfirmInvoice, ~Tick
        PROVE  Slotted(c)'
    <2>1. /\ kind = "payment" /\ Slotted(c)
          /\ UNCHANGED invoice /\ issued' = issued /\ status' = status
          /\ \A e \in Chains : e # d => job'[e] = job[e]
      BY <1>2, <1>5, ChainFrame DEF invoice
    <2>2. \A x \in Int : Quiet(x) => Quiet(x)'
      BY <1>5, QuietStep
    <2>3. Slot(issued, MaxLate) => Slot(issued, MaxLate)'
      BY <2>1, <2>2, ConstantFacts DEF Slot
    <2>4. CASE c # d
      <3>1. job'[c] = job[c]
        BY <1>0, <2>1, <2>4
      <3>2. sent = 0 => sent' = 0
        BY <1>5, ChainRows DEF SaveNotification
      <3>3. Slot(issued + job[c].due, 0) => Slot(issued + job[c].due, 0)'
        BY <2>1, <2>2, <3>1, ConstantFacts DEF Slot
      <3> QED
        BY <2>1, <2>3, <3>1, <3>2, <3>3 DEF Slotted, Goes, pc
    <2>5. CASE c = d /\ ScheduleReminders(d)
      <3>1. pc(c) = "announced" /\ pc(c)' = "queued" /\ job'[c].due = Period
        BY <2>5, Moves, ConstantFacts DEF ScheduleReminders
      <3>2. status = "ACTIVE" => issued' + job'[c].due = Period
        BY <1>0, <2>1, <3>1, ConstantFacts DEF Slotted
      <3>3. status = "ACTIVE" => Slot(issued + job[c].due, 0)'
        BY <3>2, ConstantFacts DEF Slot
      <3> QED
        BY <2>1, <3>1, <3>3 DEF Slotted, Goes, pc
    <2>6. CASE c = d /\ StartJob(d)
      <3>1. pc(c)' = "loaded" /\ job'[c].seen = status /\ pc(c) = "queued" /\ job[c].due <= 0
        BY <2>6, Moves DEF StartJob
      <3>2. ASSUME status = "ACTIVE"
            PROVE  Slot(issued, MaxLate)
        <4>1. Slot(issued + job[c].due, 0)
          BY <2>1, <3>1, <3>2 DEF Slotted
        <4> QED
          BY <1>0, <3>1, <4>1, SlotLate, ConstantFacts
      <3> QED
        BY <2>3, <3>1, <3>2 DEF Slotted, Goes, pc
    <2>7. CASE c = d /\ (GetPauseStatus(d) \/ AdvanceOrEnd(d) \/ SendEmail(d))
      <3>1. Goes(c)' => Goes(c)
        BY <2>1, <2>7, Moves DEF Goes, pc, GetPauseStatus, AdvanceOrEnd, SendEmail,
                                 ShouldSendEmail, Remindable
      <3>2. pc(c)' \in {"checked", "sending", "mailed", "idle"}
        BY <2>7, Moves
      <3> QED
        BY <2>1, <2>3, <3>1, <3>2 DEF Slotted, pc
    <2>8. CASE c = d /\ SaveNotification(d)
      <3>1. Goes(c) /\ sent' = 0 /\ pc(c)' = "saved"
        BY <2>8, Moves, ConstantFacts DEF Goes, SaveNotification
      <3> QED
        BY <2>1, <2>3, <3>1 DEF Slotted, pc
    <2>9. CASE c = d /\ ScheduleNextJob(d)
      <3>1. pc(c) = "saved" /\ sent' = 0 /\ Slot(issued, MaxLate)
        BY <1>5, <2>1, <2>9, ChainRows DEF ScheduleNextJob, Slotted, Goes, SaveNotification
      <3>2. \/ pc(c)' = "queued" /\ job'[c].due = Period /\ issued < 3 * Period
            \/ pc(c)' = "idle"
        BY <2>1, <2>9, Moves, ConstantFacts DEF ShouldRescheduleJob, IsPaymentReminder
      <3>3. Slot(issued + Period, 0)'
        <4>1. PICK x : x = issued
          OBVIOUS
        <4>2. mailed' \in Nat /\ x \in Int /\ issued' = x
          BY <1>0, <1>5, <2>1, <2>9, <4>1 DEF ScheduleNextJob, history
        <4>3. Quiet(x)'
          <5>1. sent' = 0
            BY <3>1
          <5>2. sent' <= issued' - x
            BY <4>2, <5>1
          <5>3. issued' - mailed' <= x
            <6>1. \A m \in Nat : x - m <= x
              BY <4>2
            <6> QED
              BY <4>2, <6>1, Zenon
          <5>4. issued' <= x
            BY <4>2
          <5> QED
            BY <5>2, <5>3, <5>4 DEF Quiet
        <4>4. \/ x \in Period..(Period + MaxLate)
              \/ 2 * Period <= x
          BY <1>0, <3>1, <4>1, <4>2, ConstantFacts DEF Slot
        <4> QED
          BY <4>2, <4>3, <4>4, ConstantFacts DEF Slot
      <3>4. pc(c)' = "queued" => Slot(issued + job[c].due, 0)'
        BY <3>2, <3>3
      <3> QED
        BY <3>2, <3>4 DEF Slotted, Goes, pc
    <2>10. CASE c = d /\ ~JobStep(d)
      <3>1. \/ pc(c)' \in {"validated", "found", "resumed", "idle"}
            \/ /\ ScheduleJob(c) /\ ShouldScheduleJob(c) /\ pc(c)' = "queued"
               /\ job'[c].due = CalculateRemainingDelay
        BY <1>5, <2>10, Moves DEF ChainStep, RequestStep
      <3>2. ASSUME ShouldScheduleJob(c), job'[c].due = CalculateRemainingDelay
            PROVE  Slot(issued + job[c].due, 0)'
        <4>1. /\ issued \div Period \in Nat /\ issued \div Period < 3
              /\ issued = (Period * (issued \div Period)) + (issued % Period)
              /\ issued % Period \in 0..(Period - 1)
          <5>1. issued \div Period \in Nat /\ issued % Period \in 0..(Period - 1)
            BY <1>0, Quotient, Remainder
          <5>2. issued = (Period * (issued \div Period)) + (issued % Period)
            BY <1>0, Division
          <5>3. issued \div Period < 3
            BY <2>1, <3>2 DEF ShouldScheduleJob
          <5> QED
            BY <5>1, <5>2, <5>3
        <4>2. issued' + job'[c].due = (Period * (issued \div Period)) + Period
          BY <1>0, <2>1, <3>2, <4>1, ConstantFacts DEF CalculateRemainingDelay
        <4>3. issued \div Period \in {0, 1, 2}
          BY <4>1
        <4>4. issued' + job'[c].due \in {Period, 2 * Period, 3 * Period}
          BY <4>2, <4>3, ConstantFacts
        <4> QED
          BY <4>4, ConstantFacts DEF Slot
      <3> QED
        BY <3>1, <3>2 DEF Slotted, Goes, pc
    <2> QED
      BY <2>4, <2>5, <2>6, <2>7, <2>8, <2>9, <2>10 DEF JobStep
  <1>6. ASSUME NEW ended \in SUBSET Chains, End(ended), ~ConfirmInvoice, ~Tick
        PROVE  Slotted(c)'
    <2>1. Slotted(c) /\ UNCHANGED <<status, issued, sent, mailed>>
      BY <1>2, <1>6 DEF End, invoice
    <2>2. \A x \in Int : Quiet(x) => Quiet(x)'
      BY <1>6, QuietStep
    <2>3. job'[c] = Idle \/ job'[c] = job[c]
      BY <1>0, <1>6 DEF End
    <2>4. CASE job'[c] = Idle
      BY <2>4 DEF Slotted, Goes, pc, Idle, At
    <2>5. CASE job'[c] = job[c]
      <3>1. Slot(issued, MaxLate) => Slot(issued, MaxLate)'
        BY <2>1, <2>2, ConstantFacts DEF Slot
      <3>2. Slot(issued + job[c].due, 0) => Slot(issued + job[c].due, 0)'
        BY <2>1, <2>2, <2>5, ConstantFacts DEF Slot
      <3> QED
        BY <2>1, <2>5, <3>1, <3>2 DEF Slotted, Goes, pc
    <2> QED
      BY <2>3, <2>4, <2>5
  <1> QED
    BY <1>1, <1>3, <1>4, <1>5, <1>6, NextCases

LEMMA TemplateStep ==
  ASSUME TypeOK, DraftInv, TemplateInv, Next
  PROVE  TemplateInv'
  <1> SUFFICES ASSUME kind' = "payment"
               PROVE  /\ status' = "DRAFT" => template' = 0
                      /\ template' > 0 => \/ issued' >= (template' * Period) + mailed'
                                          \/ issued' = Horizon
                                          \/ status' = "FINAL" /\ issued' = 0
    BY DEF TemplateInv
  <1>0. /\ issued \in Nat /\ mailed \in Nat /\ template \in Nat
        /\ issued <= Horizon /\ mailed <= Memory /\ template * Period \in Nat
    BY ConstantFacts DEF TypeOK
  <1>1. CASE ConfirmInvoice
    BY <1>0, <1>1 DEF ConfirmInvoice, TemplateInv, history
  <1>2. CASE CloseInvoice \/ PauseReminders
    BY <1>0, <1>2 DEF CloseInvoice, PauseReminders, TemplateInv, invoice, history
  <1>3. CASE Tick
    <2>1. kind = "payment" /\ status' = status /\ template' = template
      BY <1>3 DEF Tick
    <2>2. status \in {"DRAFT", "ACTIVE", "FINAL"}
      BY DEF TypeOK, Statuses
    <2>3. status = "DRAFT" => template = 0
      BY <2>1 DEF TemplateInv
    <2>4. CASE status = "ACTIVE" /\ issued < Horizon
      <3>1. issued' = issued + 1 /\ mailed' <= mailed + 1 /\ mailed' \in Nat
        BY <1>0, <1>3, <2>4, ConstantFacts DEF Tick, Later
      <3>2. template > 0 => issued >= (template * Period) + mailed
        BY <1>0, <2>1, <2>4 DEF TemplateInv
      <3> QED
        BY <1>0, <2>1, <2>4, <3>1, <3>2
    <2>5. CASE status = "ACTIVE" /\ issued = Horizon
      BY <1>3, <2>1, <2>5, ConstantFacts DEF Tick, Later
    <2>6. CASE status = "FINAL"
      BY <1>3, <2>1, <2>6 DEF Tick
    <2>7. CASE status = "DRAFT"
      BY <2>1, <2>3, <2>7
    <2> QED
      BY <1>0, <2>2, <2>4, <2>5, <2>6, <2>7, ConstantFacts
  <1>4. ASSUME NEW c \in Chains, ChainStep(c)
        PROVE  /\ status' = "DRAFT" => template' = 0
               /\ template' > 0 => \/ issued' >= (template' * Period) + mailed'
                                   \/ issued' = Horizon
                                   \/ status' = "FINAL" /\ issued' = 0
    <2>1. kind = "payment" /\ status' = status /\ issued' = issued
      BY <1>4, ChainFrame DEF invoice
    <2>2. CASE SendEmail(c) /\ IsPaymentReminder(c)
      <3>1. template' = issued \div Period /\ mailed' = 0 /\ status # "DRAFT"
        BY <2>1, <2>2 DEF SendEmail, Template, DraftInv
      <3>2. /\ issued \div Period \in Nat
            /\ issued = (Period * (issued \div Period)) + (issued % Period)
        BY <1>0, Division
      <3>3. issued % Period \in 0..(Period - 1)
        BY <1>0, Remainder
      <3>4. (issued \div Period) * Period = Period * (issued \div Period)
        BY <3>2, ConstantFacts
      <3>5. Period * (issued \div Period) \in Nat
        BY <3>2, ConstantFacts
      <3>6. issued >= (issued \div Period) * Period + 0
        BY <1>0, <3>2, <3>3, <3>4, <3>5
      <3> QED
        BY <2>1, <3>1, <3>6
    <2>3. CASE ~(SendEmail(c) /\ IsPaymentReminder(c))
      <3>1. template' = template /\ (mailed' = mailed \/ mailed' = 0)
        BY <1>4, <2>3, ChainRows DEF SendEmail
      <3> QED
        BY <1>0, <2>1, <3>1 DEF TemplateInv
    <2> QED
      BY <2>2, <2>3
  <1>5. ASSUME NEW ended \in SUBSET Chains, End(ended)
        PROVE  UNCHANGED <<kind, status, issued, mailed, template>>
    BY <1>5 DEF End, invoice
  <1> QED
    BY <1>1, <1>2, <1>3, <1>4, <1>5, NextCases DEF TemplateInv

LEMMA EscalationInitially == Init => EscalationInv
  <1> SUFFICES ASSUME Init PROVE EscalationInv
    OBVIOUS
  <1>1. \A c \in Chains : pc(c) = IF kind = "confirmation" /\ c = "first"
                                 THEN "announced" ELSE "idle"
    BY DEF Init, pc, Idle, At
  <1>2. SlotInv
    BY <1>1, ConstantFacts DEF SlotInv, Slotted, Goes
  <1>3. TemplateInv
    BY DEF Init, TemplateInv
  <1> QED
    BY <1>2, <1>3 DEF EscalationInv

LEMMA EscalationPreserved ==
  ASSUME Prompt, IInv, EscalationInv, [Next]_vars
  PROVE  EscalationInv'
  <1>1. CASE Next
    BY <1>1, SlotStep, TemplateStep DEF IInv, GoOnInv, EscalationInv
  <1>2. CASE UNCHANGED vars
    <2>1. UNCHANGED <<kind, status, issued, sent, job, mailed, template>>
      BY <1>2 DEF vars, invoice, rows, history
    <2>2. \A c \in Reminders : Slotted(c) => Slotted(c)'
      BY <2>1 DEF Slotted, Goes, Slot, Quiet, pc
    <2> QED
      BY <2>1, <2>2 DEF EscalationInv, SlotInv, TemplateInv
  <1> QED
    BY <1>1, <1>2

LEMMA EscalationInvariance ==
  ASSUME Prompt
  PROVE  Spec => [](IInv /\ SpacingInv /\ EscalationInv)
  BY Prompt, Initially, Preserved, EscalationInitially, EscalationPreserved, PTL DEF Spec

LEMMA Escalates ==
  ASSUME Prompt, IInv, SpacingInv, EscalationInv, NEW c \in Chains, Sends(c),
         IsPaymentReminder(c)
  PROVE  /\ Template \in 1..3
         /\ Template > template \/ c \in overtaken \/ unrecorded
  <1> USE ConstantFacts
  <1>1. pc(c) = "sending" /\ c \in Reminders /\ kind = "payment"
    BY DEF Sends, IsPaymentReminder, Chains
  <1>2. /\ issued \in Nat /\ mailed \in Nat /\ mailed <= Memory /\ sent \in Nat
        /\ template \in 0..3 /\ 10 * issued <= 32 * Period
    BY <1>1 DEF IInv, GoOnInv, TypeOK, SendingInv, IsPaymentReminder
  <1>3. Slot(issued, MaxLate)
    BY <1>1 DEF EscalationInv, SlotInv, Slotted, Goes
  <1>4. Period <= issued
    BY <1>2, <1>3 DEF Slot
  <1> DEFINE k == issued \div Period
  <1>5. /\ k \in Nat /\ issued = (Period * k) + (issued % Period)
        /\ issued % Period \in 0..(Period - 1)
    BY <1>2, Division, Remainder
  <1>6. k <= 3
    BY <1>2, Quotient
  <1> HIDE DEF k
  <1>7. k \in {1, 2, 3}
    <2>1. k # 0
      BY <1>2, <1>4, <1>5
    <2> QED
      BY <1>5, <1>6, <2>1
  <1>8. k * Period <= issued /\ issued < (k * Period) + Period
    BY <1>2, <1>5, <1>7
  <1>9. ASSUME template >= k, c \notin overtaken, ~unrecorded
        PROVE  FALSE
    <2>1. 100 * mailed >= 85 * Period
      BY <1>1, <1>2, <1>9 DEF SpacingInv, SpacedInv, Delay, NotificationsSentInLastDelay
    <2>2. issued >= (template * Period) + mailed
      BY <1>1, <1>2, <1>4, <1>7, <1>9 DEF EscalationInv, TemplateInv
    <2>3. template * Period >= k * Period
      BY <1>2, <1>7, <1>9
    <2>4. mailed <= issued - (k * Period) /\ mailed < Period
      BY <1>2, <1>7, <1>8, <2>2, <2>3
    <2>5. CASE k = 1
      <3>1. issued < 2 * Period
        BY <1>8, <2>5
      <3>2. issued <= Period + MaxLate
        BY <1>2, <1>3, <3>1 DEF Slot
      <3> QED
        BY <1>2, <2>1, <2>4, <2>5, <3>2 DEF Prompt
    <2>6. CASE k = 2
      <3>1. issued < 3 * Period /\ 2 * Period <= issued
        BY <1>8, <2>6
      <3>2. CASE issued <= 2 * Period + MaxLate
        BY <1>2, <2>1, <2>4, <2>6, <3>2 DEF Prompt
      <3>3. ASSUME NEW x \in Period..(Period + MaxLate),
                   issued <= x + Period + MaxLate, Quiet(x)
            PROVE  FALSE
        <4>1. mailed # Memory
          BY <1>2, <2>4
        <4>2. CASE issued - mailed <= x
          BY <1>2, <2>2, <2>3, <2>6, <3>3, <4>2 DEF Prompt
        <4>3. CASE 100 * (issued - mailed - x) >= 85 * Period
          BY <1>2, <2>1, <3>3, <4>3 DEF Prompt
        <4> QED
          BY <1>2, <3>3, <4>1, <4>2, <4>3 DEF Quiet, NotificationsSentInLastDelay
      <3> QED
        BY <1>2, <1>3, <3>1, <3>2, <3>3 DEF Slot, Prompt
    <2>7. CASE k = 3
      BY <1>2, <2>1, <2>4, <2>7
    <2> QED
      BY <1>7, <2>5, <2>6, <2>7
  <1>10. Template = k
    BY DEF Template, k
  <1> QED
    BY <1>2, <1>7, <1>9, <1>10

(* Every reminder to pay has one of the three templates, and none is sent    *)
(* twice or after a later one, with the same exceptions: when no job is late *)
(* by 70 percent of a period.                                                *)
THEOREM TemplatesEscalateCorrect ==
  ASSUME Prompt
  PROVE  Spec => TemplatesEscalate
  <1>1. ASSUME IInv, SpacingInv, EscalationInv
        PROVE  \A c \in Chains : Sends(c) /\ IsPaymentReminder(c) =>
                 /\ Template \in 1..3
                 /\ Template > template \/ c \in overtaken \/ unrecorded
    BY Prompt, <1>1, Escalates
  <1> QED
    BY <1>1, EscalationInvariance, PTL DEF TemplatesEscalate
=============================================================================
