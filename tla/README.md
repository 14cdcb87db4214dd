# A TLA+ model of the invoicing system

This directory holds TLA+ specifications of the invoicing services of this
repository (`apps/invoicing-graphql` and `libs/shared`), the configurations
TLC checks them with, and proofs the TLA+ proof system checks.
`PROJECT.json` maps every definition to the source lines it stands for.

## 1. The system

The backend turns accepted manuscripts into invoices, has payers confirm and
pay them, and registers the results in an ERP. One Node.js process holds an
HTTP/GraphQL server, consumers of a message queue, cron jobs and handlers of
delayed jobs. Every request, message or job runs a use case: a chain of queries
and writes with an `await` at each, so executions interleave at those points.
No database transaction and no lock spans two of them. A repository's `update`
writes all columns of a row from the object the use case holds. What a use case
changes is told to others through domain events kept in memory.

| Component | State | Operations | What makes it correct |
|---|---|---|---|
| Domain event dispatcher (`core/domain`) | callbacks per class, marked objects, event list per object | register, mark, dispatch by identity | every event once, in order, to all subscribers; nothing left behind |
| Invoice aggregate, repository | row of `invoices`, objects in memory | mutators, load, update, last number | status, issue date, number and reference belong together |
| Invoice confirmation | rows of invoices, payers, items | `ConfirmInvoice` by payer, administrator, published article, acceptance | one confirmation, one distinct reference, published as stored |
| Acceptance of a manuscript | status of the transaction, waivers, `dateAccepted` | queue handler, `UpdateTransactionOnAcceptManuscript` | survives redelivery and failure, does not undo a confirmation |
| Payments | rows of `payments`, provider's orders and charges | `RecordPayment`, PayPal approval and webhook, `AfterPaymentCompleted` | an invoice is charged once, every charge is recorded, paid invoices become final |
| Credit notes | rows of `credit_notes` | `CreateCreditNote` | an invoice with a credit note is final for good, a second note only for a second delivery, a refund only of money that came in |
| Registration in the ERP | `erp_references` | cron jobs for invoices, payments, revenue, credit notes | no document twice without a failure, but a reversal for every credit note, books and references agree, nothing starves |
| Reminders | delayed jobs, pause flags | schedule, send, pause, resume | one chain per invoice, ended by confirmation or payment |
| Submission events, transactions | `transactions`, manuscripts, soft deletion | submitted, edited, returned, rejected, withdrawn, accepted, published, decisions on transformative agreements | rows deleted and restored together, eligibility of the right author, nothing left to pay after a withdrawal, approvals applied |
| Coupons, waivers | links to invoice items, redeem counts | apply, remove, recompute | a single-use coupon is redeemed once |
| AsyncEither, Either | - | chains of steps that end at the first left | steps run once and in order |
| Access control, reporting, user interfaces | - | - | tables, SQL views, presentation: not modelled |

Hard behaviours: interleaved executions over stale objects; failures between
two writes; the queue's at-least-once delivery; a restart losing undispatched
events; numbering across the fiscal year. `PROJECT.json` lists them at their
lines under `hazards`, with the properties that cover them.

## 2. The modules

`DomainEvents` is the static class `DomainEvents` and the event lists of
`AggregateRoot`. Aggregates are *objects in memory*; several may have one
identity, which is what the code's search by identity is about. `raised` and
`dispatched` are history variables. `RaiseAndDispatch` is the composition of
`AddDomainEvent` and the dispatch right after it, with no `await` in between.

`UnitOfWork` adds the callers: a request loads its own object, raises events,
writes, and dispatches by identity, or fails on the way with its object still
marked. Subscriptions are registered while requests already run
(`main.ts` pushes the express loader before the subscriptions).

`EventDelivery` is the abstract specification: objects raise events, and a
delivery hands over everything an object has raised so far. `UnitOfWork`
implements it with `delivered[a] = raised[a] - Len(domainEvents[a])`.

`InvoiceAggregate` has the fields of an invoice that decide its life, its
mutators and `toPersistence`. A date is the fiscal year it falls in, and a
reference number is the pair of number and year.

`InvoiceConfirmation` is `ConfirmInvoice` together with the acceptance of a
manuscript, which confirms an invoice of total 0 itself. Every execution is a
process; an action is what runs between two awaits. `GetInvoiceDetails`,
`ShouldConfirmInvoice`, `GetInvoiceItems`, `SavePayer`, `ReadLastNumber`,
`WriteNumber`, `RereadInvoice`, `UpdateInvoiceStatus`, `WriteStatus` and
`DispatchEvents` are the steps of `confirmInvoice.ts`; `ReceiveAcceptance` to
`CheckTotal` are those of the queue handler and
`updateTransactionOnAcceptManuscript.ts`. `Fail` is a left or an exception at
an await; `Restart` ends all executions and forgets the dispatcher's lists;
`NewFiscalYear` lets the numbers start anew. The dispatcher is an instance of
`DomainEvents` whose objects are the executions' invoices; an acceptance and
the confirmation it starts load two different ones.

`Payments` has four kinds of processes: requests (executions of `RecordPayment`
by card, PayPal order or bank transfer, the last through its resolver),
approvals (`PayPalPaymentApproved`), deliveries of PayPal's webhook
(`PayPalProcessFinished`), and the completions `AfterPaymentCompleted` starts.
A row of the payments table is named by the request that created it; a foreign
id is a charge, an order, a capture or a bank reference. `CheckReference` to
`DispatchReplaced` are the steps of a request: what it looks at before it pays,
`Pay` at the provider, and `savePayment`. That method executes one chain of
queries twice, once to create a payment and once to update one it finds, and
the second time whether or not the first succeeded: a new PayPal payment is
found again and written once more, and a left of `CreatePayment` is kept in
`unsaved` until the end. `CaptureMoney`, `AttachPayment` and
`SavePaymentChanges` are the approval, which captures first and looks up the
payment afterwards; `UpdatePaymentStatus`, `SavePaymentStatus` and
`DispatchEvents` the webhook. Dispatching a `PaymentCompleted` puts a
completion in flight (`Notify`), which runs on its own from its first await:
`OnPaymentCompleted`, `UpdateInvoice`, `DispatchInvoiceEvents`. `Settle` is
PayPal, which settles or denies a capture and may refund it. A webhook that
finds no pending payment with its capture's id is answered 500 and changes
nothing; PayPal sends it again, so its action stays enabled until it succeeds.

Left out of `Payments`: the date and proof of a payment, authorization codes,
the audit log, payer and manuscript (reads that only can fail), an invoice's
other columns (its row is its status). Invoices start active: a draft is
refused by `shouldPayInvoice` as a final invoice is.

`Submissions` is everything the queue's editorial messages do to one
submission: its rows in `articles`, `invoices`, `invoice_items` and
`transactions`, and its credit notes. A message is received (`Receives`), its
handler runs one read or write at a time (`Handle`), and it is due again until
the handler returns: a left or an exception puts it back. The groups of the
module are the handlers. `ReceiveSubmission` to `WriteAuthor` create a draft or
restore a deleted one and change its author; `FindManuscript` to `DeleteRow` are
`SoftDeleteDraftInvoice`, four whole-row writes one after the other;
`ReceiveNotice` to `Refund` are a withdrawal, or an approval of an invoice that
is issued, which credits it through `CreateCreditNote`; `WriteEligible` to
`Activate` are a decision on a transformative agreement (TA);
`ReceiveAcceptance` to `AutoConfirm` the acceptance, `ReceivePublication` to
`DatePublished` the published article. The payer acts in between
(`ConfirmInvoice`, `PayInvoice`). Failures come in four forms, because the code
answers them in four ways: the message comes again (`Fail`, `Redeliver`), the
error is caught (`Swallow`), or the left of a `save` is not looked at
(`LoseItem`, `LoseCreditNote`); the last three are remembered in `unnoticed`.

What the code does here that a reader may not expect, and the model keeps: an
acceptance of a free article type calls the deletion without a context, and
fails at every delivery. The publication does not look at `deleted`, so it
confirms a deleted draft too. An approval that comes before the acceptance finds
no decision to take; the use case returns `undefined`, the handler throws, and
the queue repeats it until the article is accepted. An approval or a withdrawal
between acceptance and confirmation neither credits nor deletes: the payable
draft stays. `ApprovalIsApplied` and `WithdrawnIsClosed` name these exceptions.
A confirmation, by the payer or after a publication, may leave the invoice
PENDING instead of ACTIVE: the payer is from a sanctioned country and the total
is above 0. (A publication fills in the author's country.) A PENDING invoice is
never paid here; a withdrawal credits it, an approval leaves it alone, and the
publication has done its work, so `PublicationConfirms` says confirmed, not
issued.

`ErpRegistration` is the scheduler with its five jobs (invoices, revenue
recognitions, credit notes, payments, reversals) and NetSuite as a count of
documents of each kind. `Select` is a repository's selection, `EndJob` the
scheduler's next job, `Publish...` the start of a use case, with the rows it
loads; `UpdateInvoice`, `RegisterInErp`, `SaveReference` and `WriteBack` are the
awaits after it. A failing call may have made the document (`RegistrationFails`),
a failing `save` loses the answer (`SaveFails`), and `Restart` does either
and begins with the first job. Payers, editors and administrators write the same
rows between any two steps. Also kept: the call of a reversal returns its
error instead of throwing it, so `object Object` is stored as the reference and
the reversal is never tried again; an invoice whose answer was lost before it is
credited has its credit note given up as `NONEXISTENT_INVOICE`; and
`invoiceRepo.update` after the load may write an old status over `FINAL`
(`reopened`), after which the reversal is never selected. Credit notes are rows of
their own, and nothing limits an invoice to one: `CreateCreditNote` refuses only
drafts. The selection of reversals joins invoices with credit notes and yields
the invoice once for every registered note, and nothing asks whether a reversal
exists: an invoice with two notes is reversed twice without a failure, which
`OncePerFailure` says. A PENDING invoice is not selected, like a draft.

`Reminders` is the delayed jobs that remind an author to confirm an invoice or a
payer to pay it, and the administrator who pauses and resumes them; a behaviour
is about one of the two kinds, which share no row and no job. A *chain* is a
job and the jobs it schedules. `ScheduleReminders` are the subscribers that
start the first one, `StartJob` to `ScheduleNextJob` the use cases
`SendInvoice...Reminder`, `ValidatePauseState` to `ScheduleJob` the requests to
resume. The handler of a job does not await its use case, so the queue takes the
job for done at once: jobs overlap, and none that fails is tried again. `Fail`
ends one job or request, `Restart` all that run; what waits in Redis survives.
`Tick` is the passing of time: jobs take no time, but start up to `MaxLate` late.
Also kept: `resume` does not look at the left of `setReminderPauseState`
(`ResumeUnsaved`); a request that cannot schedule its job pauses the reminders
again, but one that cannot find the payer leaves them unpaused without a job;
the e-mail to credit control is recorded as a reminder to pay, and counts as one.

`MC*` modules give the constants values. `*Proofs` modules hold theorems.

Left out of `InvoiceConfirmation`: amounts (a total is 0 or positive), the
contents of payers and addresses, the e-mail at the end of the acceptance, a
change of journal and the agreement branch of the handler. `SavePayer` takes
address, payer and VAT as one step: no other step of the model reads between
them. Invoices issued before 2021 use another year in their reference.

Left out of `Submissions`: prices and waivers, the switch to another journal,
the reminders' state, `InvoiceDraft*` events, and the contents of rows except
status, acceptance, author and the two TA flags. Confirmation is one step here.
Left out of `ErpRegistration`: each job's feature flag, customers, amounts, and
Sage, which is no longer scheduled. Left out of `Reminders`: recipients, texts, the
switch of credit control, and the repair of rows without a pause state.

## 3. The runs

| Run | What it shows |
|---|---|
| `unit_of_work` | three objects, two of one aggregate, two events each: events are dispatched once and in the order raised (`DeliveredInOrder`), a request without a rival leaves nothing behind (`SoleWriterDelivers`), no aggregate is marked twice (`MarkedUnique`), and the dispatcher implements `EventDelivery` |
| `unit_of_work_committed` | *violated*: the comment on `markAggregateForDispatch` does not hold while another request on the aggregate, in flight or failed, has marked its object and not dispatched: that object's events are sent in place of the writer's |
| `confirmation_races` | two confirmations and an acceptance of one invoice in every interleaving, with one failure or restart: an invoice that left the draft state has an active transaction and a payer (`ConfirmedIsBillable`), and its issue date agrees with its status (`IssueDateMatchesStatus`) |
| `confirmation_isolated` | executions on one invoice kept apart, one failure, two fiscal years, two invoices, one of them with a redelivered acceptance: references are distinct unless two executions number at the same time (`ReferencesDistinct`), a confirmation is published at most once (`PublishedOnce`), and unless an execution on them fails, confirmed invoices are published and accepted ones announced (`ConfirmedIsPublished`, `AcceptedIsAnnounced`) |
| `confirm_second_time` | *violated*: two concurrent confirmations both succeed |
| `payment_races` | two orders, a partial transfer, an approval and a webhook of one invoice in every interleaving, with one failure or restart: a completed payment stands for money that moved (`CompletedHasMoney`), and an invoice is final only for a last payment whose money moved (`FinalHasCause`) |
| `payments_isolated` | all methods, with requests and approvals kept apart, webhooks of completion and of failure at any time, one failure: foreign ids are distinct (`ForeignIdsDistinct`), a card is charged only while nothing else stands for the invoice (`ChargedOnlyIfUnpaid`), a capture without a payment is one whose order was replaced (`LostCaptureWasReplaced`) |
| `payments_liveness` | a recorded capture that PayPal settles completes its payment even when the webhook comes first or another event of the capture does (`RecordedCaptureSettles`), and a fully paid invoice becomes final (`PaidBecomesFinal`), unless an execution fails |
| `capture_after_payment` | *violated*: an order created before a card payment is captured although the invoice is final, so the payer pays twice |
| `submissions` | two submission messages of different authors, a return, a withdrawal, an acceptance, an approval, a refusal and the publication in every order, one failure or redelivery: a draft is deleted and restored with all its rows (`DeletedTogether`), the TA eligibility is that of the author it was decided for (`EligibilityOfAuthor`), a credited invoice is final (`CreditedIsFinal`) and credited twice only after a second delivery (`CreditedOncePerDelivery`), refunds have money and a credit note behind them (`RefundIsCredited`), confirmed invoices, issued or PENDING, are neither made drafts nor deleted (`ConfirmedIsKept`), and withdrawals, publications and approvals reach what they are for (`WithdrawnIsClosed`, `PublicationConfirms`, `ApprovalIsApplied`) |
| `erp_registration` | three invoices (one that can be published and gets up to two credit notes, one whose publishing always throws, one with nothing to pay) while payers pay, editors publish and administrators credit, one failure or restart: documents are doubled only by a failure, and reversals also by a second credit note (`OncePerFailure`), what depends on an invoice is in the ERP only if the invoice is, and a stored reference has its document (`BooksAgree`), a broken invoice does not starve the others (`IssuedIsRegistered`), recognized revenue of a credited invoice is reversed (`RecognizedIsReversed`), the last two with the exceptions in their text |
| `reminders` | three periods and credit control, pausing at any time, one request to resume that may be made again, two failures or restarts, jobs up to a tick late: while reminders are expected and not paused some chain goes on (`RemindersGoOn`), and an author is reminded again and again (`KeepsReminding`), unless a failure cut the chain; two chains of jobs never remind within 85 percent of the delay (`SpacedReminders`), and the reminders to pay come in the order of their templates (`TemplatesEscalate`), unless a job started before the one before it had recorded its e-mail |

Bounds. Three objects are enough for a rival and a bystander; two events show
an order. Two confirmations and an acceptance are the smallest set in which
each of the three pairs of executions overlaps; `confirmation_isolated` adds a
second invoice because distinctness needs two. `MaxFailures` bounds failing
queries and restarts; one and its retry are enough to leave a number or an event
behind. `MaxYear` 2 has one change of
year. `OneAtATime` keeps executions on one invoice apart; the code does not
enforce it, and the properties that need it say so in their text. Without it
`confirm_second_time` shows what happens. Payments of different
invoices share no row, so one invoice suffices; two orders are needed for one to
replace the other, two transfers for a reference used twice and for a partial
and a final one, and an approval with a webhook of each kind for one order meet
in every order. In `Payments`, `OneAtATime` keeps requests and approvals apart
from each other and webhooks apart from each other, while a webhook, its
completion and a request do overlap; again the code does not enforce it, and
only the properties that say so rely on it. Deadlock is not checked: a system
whose requests are all answered may stop.

In `submissions`, `MaxHandled` lets any three of the messages that are not
decisions be handled, with both decisions: three are enough for a deletion, its
undoing and an acceptance, or for an acceptance, a withdrawal and a publication.
`OneAtATime` is TRUE: the handlers of one submission do not overlap each other,
only the payer; the queue's consumer does not promise that, and the run is no
evidence about overlapping handlers. In `erp_registration` two
notes of one invoice are enough for a double reversal and for a note whose
invoice the ERP lacks, and `Sanctioned` lets that invoice become PENDING. A third
note, of the broken invoice, makes the run too long with its liveness; the safety
properties and all parts of `IInv` were checked with it once, and the proofs
hold for any notes. `Limit` is not reached: with more broken invoices than
`LIMIT` (25 in the code) the selections have no order and may return the same
broken rows for ever, so `IssuedIsRegistered` would be false; its comment says
so.

In `reminders` a period has three ticks, so that an e-mail of the last two ticks
is within 85 percent of it and one of three is not: a job in time, one a tick
late and one that comes too early are told apart. Four periods until credit
control give it a delay of its own after the third reminder. One request may be
made again when its chain has ended; with two requests the safety properties
were checked once for one failure, but take longer than the run may.

Fairness. `FairSpec` has weak fairness for each execution that is in flight:
Node runs the continuation of every answered promise, and a query that never
answers ends as a failure by its timeout. Nothing forces an execution to start
or a failure to happen. In `Payments` a webhook also starts in the end, for
PayPal repeats it until it is answered 200; so does a completion, which a
dispatch has already called.

In `Submissions`, weak fairness says that some handler in flight goes on, and
strong fairness that an approval which is not settled is received again and
again: the queue keeps it, and other messages only delay it. No other message
has to arrive. In `ErpRegistration` only the scheduler is fair:
`setIntervalAsync` starts the next job when one ends, and the chart runs a
single replica. Payers, editors and administrators need not act at all. In `Reminders` a job
or request that runs goes on, a job that is due starts, and time passes.

## 4. The proofs

`UnitOfWorkProofs` proves, for any objects, identities, classes, subscriptions
and bound, `TypeOK`, `MarkedUnique`, `DeliveredInOrder`, `SoleWriterDelivers`
and the refinement of `EventDelivery`. The inductive invariant joins the type
with `MarkedUnique` (which makes the last match of the search the first match
of the removal), `DeliveredInOrder`, the fact that an object with undispatched
events has a marked object of its identity, and the fact that a marked object
raised an event. `DomainEventsProofs` has the lemmas about the dispatcher's
operations, used again by the other component.

`InvoiceConfirmationProofs` proves `TypeOK`, `ConfirmedIsBillable` and
`IssueDateMatchesStatus` for any invoices, executions and bounds. The
properties are about rows, but rows are overwritten by objects, so the
inductive invariant states them of every object in flight as well: an object
that is past the check has an active transaction, one past `SavePayer` has a
payer, and a held object's issue date agrees with its status.

`NumberingProofs` adds `ReferencesDistinct`, for executions on one invoice kept
apart (`ASSUME OneAtATime`). Numbers are the last number read plus one, so the
argument is about who is numbering. Beside `IInv` the invariant has two parts.
`RowInv` holds always: an execution in flight is alone with its row (`Apart`) and
holds it (`HeldInv`), the row is a draft until its status is written (`DraftInv`)
and has the number given to it (`NumberedInv`), a reference belongs to the number
and date beside it (`ReferencedInv`), and nothing is issued in a year to come
(`YearInv`). `NumberingInv` holds while no two executions have numbered at the
same time: one execution at most is `Issuing`, no other invoice has the number it
is giving (`FreshInv`), and no two issued invoices share number and year
(`DistinctInv`). A draft keeps the number of a failed attempt, which is harmless
because only the date makes it count; a year that begins while an execution is
numbering leaves it with a number nobody has in that year. All parts were
checked by TLC before they were proved.

The same module proves `PublishedOnce`. A failed attempt leaves its object
marked and its event in the object, and the dispatch of the retry, or of an
acceptance, may find that object in place of its own. So `PublicationInv` says
what is left behind: an execution raises one event, it stays only with an
execution that has ended or is about to dispatch, and by then the manuscript was
accepted, so that no acceptance is still on its way to a dispatch (`LeftBehind`);
an object holds its own events (`EventsInv`); an execution about to dispatch is
the first to (`Unpublished`), for a published invoice is no draft and nobody gets
past the check again (`PublishedInv`). It was checked by TLC with up to three
failures before it was proved.

`PaymentsProofs` proves, for any requests, approvals, webhooks and failures,
overlapping or not, `TypeOK`, `CompletedHasMoney` and `FinalHasCause`. A row is
overwritten by an object that somebody loaded earlier, and an invoice is
finalised by an event raised earlier, so the invariant `IInv` speaks of all
three: `RowInv` says that every row is `Sound` (only an order is CREATED, an
order's row carries the order of its own invoice, a COMPLETED row has its
money), `ProcessInv` says the same of the object an execution holds and of how
far it has come, and `EventInv` that an event waiting under the name of a payment
is `Caused` by money that moved. That what was sound or caused once stays so is
the other half: charges stay, settled captures stay settled, and the completed
row of a transfer is never reopened. The lemmas about the dispatcher are those
of `DomainEventsProofs`.

`ForeignIdsDistinct`, `LostCaptureWasReplaced` and `ChargedOnlyIfUnpaid` hold
when executions are kept apart (`OneAtATime`); webhooks still come while a
request or an approval is under way. What is proved is
`Spec => [](OneAtATime => IsoInv)`, and the second invariant has one part for
each kind of thing:
- the table: rows are about different orders (`Distinct`, which counts an order
  and its capture as one, because an approval replaces the first by the second),
  an invoice waits for one payer at most (`OneOpen`), and a row of an order holds
  the id or the capture of an order of the same invoice (`RowOf`);
- requests (`RequestOf`): no row is about what a request pays with until it
  inserts its own; an order that PayPal has created gets a row, its own or the
  one it takes over, unless a later order takes its place (`OpensRow`,
  `Placed`); what made an invoice payable is still so when the card is charged
  (`Decided`); and a charge is recorded, about to be, or its execution failed
  (`Charged`);
- approvals and webhooks (`ApprovalOf`, `WebhookOf`): the row that an approval
  or a webhook is going to overwrite is still as it was found, although a
  webhook and an approval may hold the same row;
- captures (`CaptureOf`): one that PayPal has not given back is recorded, or its
  approval is under way, failed or lost.

`ChargedOnlyIfUnpaid` follows from these and from the check of `makePayment`,
which compares the sum of the completed payments with the total. The sum is a
fold, that is a recursive function over the subsets of the rows. That a sum of
natural numbers is one and no smaller than any of them (`SumBounds`) is proved
by looking at the smallest set for which it would fail (`LeastNumber`), and that
the recursion has a solution at all (`SumsExist`) in the same way.

`ErpRegistrationProofs` proves `TypeOK`, `OncePerFailure` and `BooksAgree` for
any set of invoices, any limit and any number of failures. Neither property is
inductive: a document is made between the selection and the saved reference, so
the invariant `IInv` says what a row in progress knows. `BatchInv` keeps what
was true of a row at its selection and nobody can undo (its invoice is
registered, its article published, it is credited); `StepInv` says the same of
the row being published, with what its object holds; `ReferenceInv` ties every
stored reference to the documents; `CountInv` is the bound on the documents,
one lower while no answer is out; `DocumentInv` is the order in which the
documents of one invoice come; `ReversalInv` counts reversals. Before the first
reference of an invoice's reversal every reversal but the one being saved has
cost a failure; after it the batch of that round may still hold rows of the same
invoice that are `Waiting`, each of another registered credit note, and no later
round selects the invoice again. All six are checked by TLC as well. The
cardinalities rest on the theorems about finite sets.

`SubmissionsProofs` proves, for any set of deliveries, authors and failures:
- whether or not handlers overlap, `TypeOK`, `CreditedOncePerDelivery` and
  `RefundIsCredited`, from `GeneralInv`: the kind of a message fits the step of
  its handler (`KindInv`), a handler saves the rows in their order (`RowInv`)
  and deletes or restores only what is stored (`StoredInv`), a message has at
  most one credit note more than failures explain and one fewer until it inserts
  it (`CreditInv`), and a refund is asked for by a handler that saw the payment
  and has inserted its credit note (`RefundInv`);
- when one message is handled at a time (`ASSUME OneAtATime`), `CreditedIsFinal`,
  `ConfirmedIsKept`, `PublicationConfirms` and `WithdrawnIsClosed`, from
  `SequentialInv`. These need an invariant of the objects held: a handler saves
  the invoice it loaded earlier, so the row is as good as the object. `HeldInv`
  says that the object is as old as the row unless the payer acted in between,
  and that an object held beside a credit note is FINAL; `FinalInv`,
  `PublishedInv` and `WithdrawnInv` say how far each kind of handler is. Without
  the assumption the four fail: the object may be older than another handler's
  write;
- under the same assumption `DeletedTogether` and `EligibilityOfAuthor`, from
  `RestInv`. Both speak of the time when no delivery is pending, so the
  invariant has to say what a pending delivery makes up for. A draft that is
  partly deleted has a message that still owes the rest (`TogetherInv`,
  `Owing`): it is at one of the four writes, or failed and will be delivered
  again, and then deletes or restores all the rows, whatever it finds. An
  eligibility that is not `Justified` by the present author has a handler that
  is comparing the authors or about to reset it (`AuthorInv`). `FreshInv` says
  that what a handler holds is the row, but for what the payer changes, and
  `PathInv` how it came to its step. An acceptance that names another author
  keeps the eligibility, which is why the property excepts it.

`RemindersProofs` proves `TypeOK`, `RemindersGoOn` and `SpacedReminders` for any
requests to resume, any delays and lateness and any number of failures, and
`TemplatesEscalate` when jobs are not too late.
- `RemindersGoOn` is not inductive, because a job ends when it finds a recent
  reminder, and some other chain must go on then: `RecentInv` says that after a
  reminder some chain waits that will find it old enough, so that it is never
  the one that ends. `StaleInv` is about a request that found a draft which was
  issued since, resumes and schedules nothing: the first job is still ahead.
  `DraftInv` and `CreditInv` keep the kinds of reminders apart that share the
  table of notifications (nothing is sent about a draft to pay, credit control
  only when the reminders to pay are over), and `SeenInv` says that a job's
  invoice is not outdated while reminders are expected.
- `SpacedReminders` follows from `SpacingInv`: the last e-mail is the last one
  recorded unless somebody is recording it (`MailedInv`), a job nobody overtook
  started when nobody was (`OvertakenInv`), and so a job that is about to send
  has seen the last e-mail (`SpacedInv`).
- `TemplatesEscalate` needs `Prompt`: no job starts 70 percent of a period late
  (4.2 of the 6 days), which the queue does not promise. The bound is exact:
  with a period of 20 ticks TLC finds no error when jobs are up to 13 ticks
  late, and when they are 14 late the second reminder sent twice. (The first
  one is sent at tick 23, so that its chain is due at 43; a resumed chain sends
  the second at 40; and the first chain, late at 57, does so again.) In the run
  a job is at most one tick of three late. `SlotInv` gives the ages of the invoice at which a chain is
  due: a period, when it starts; two or a little more, when its first job was
  late; or at least three. A chain that waits for its second job has reminded
  itself, and nobody has done so too soon after it (`Quiet`). `TemplateInv` says
  that the last e-mail was not sent before its template's period.

Assumptions are the named `ASSUME`s of the modules; TLC evaluates them in the
runs.
Every safety and action property that a run expects to hold is now stated by a
theorem, under the assumptions named above. Only model-checked: the liveness
properties, which are out of the prover's reach.

## 5. Plan, and what is not modelled

1. Done: `DomainEvents`, `UnitOfWork`, `EventDelivery`; `InvoiceAggregate`,
   `InvoiceConfirmation`; `Payments`; `Submissions`, with soft deletion and
   credit notes; `ErpRegistration`; `Reminders`; the proofs of section 4.
2. A credit note with a new draft (`createDraft`), an administrator's copy of a
   credited invoice whose items are saved in callbacks nobody awaits.

Not modelled:
- Coupons, waivers and prices: `applyCouponToInvoice` tests a single-use coupon,
  links it and counts it in three steps (listed as a hazard). The rest is
  arithmetic and tables of countries.
- Access control: a static table of roles. AsyncEither and Either: their use is
  in every module as the order of the steps, the combinators themselves are
  library code with unit tests.
- Reporting: SQL migrations, views and triggers, half of the repository's lines
  and no control flow of the program. Web and admin user interfaces, generated
  GraphQL types, seeds: presentation and data.
- Customers, taxes and the layout of documents in NetSuite, and Sage.
