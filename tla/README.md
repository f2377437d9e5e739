# Verification of agentplain's approvals, queues, billing and closing

agentplain runs "fleets" of language-model agents for small businesses.  Its
standing promise is that *agents draft, a human approves*: nothing an agent
writes takes effect before a person has decided it.  This directory models the
parts of the code that carry the promise, the queues that must not lose or
repeat work behind it, and the paths that take, return and erase what customers
entrust to it, in TLA+; TLC checks the models on small instances, and
TLAPS proves the safety guarantees of all of them for instances of any size.

Paths below are relative to the repository root.

## 1. Inventory

The program is a Next.js application (`app/`, `apps/mobile`) over a library
(`lib/`), a PostgreSQL database (`prisma/schema.prisma`) and background
functions fired by Inngest (`lib/inngest/functions`: crons and events, retried
by the platform).  Nothing is kept in memory between calls; all shared state is
rows, and every transaction runs at READ COMMITTED (no `isolationLevel` appears
in the repository).

| Component | State | Operations | Hard behaviour | Correct when |
|---|---|---|---|---|
| Approval queue, `lib/approvals/decisions.ts` | `WorkApprovalQueueItem` rows, `AuditLog`, preference signals | `applyApprovalDecisionTx`, `decideApproval`, `editApprovalDraft` | several tabs, a phone and the operator decide or edit one item; read-then-write under READ COMMITTED | an item is decided once, with one audit row; a decided text is final |
| Executors, `lib/approvals/dispatch.ts`, `executors.ts`, `executors/` | an `artifact` key inside the row's payload | `dispatchApprovalExecutors`, `writeKey` | run after the commit, swallow failures, merge into a payload others write | only the approving call executes; an artifact stays, and belongs to a row with an approval on record, which may have expired |
| Instruction drafter, `lib/plaino/*instruction*` | `draftBody` inside the payload | `readForDrafting`, `attachDraft` | a model call takes seconds between read and write; Inngest retries | a draft is attached without disturbing decisions |
| Retry queue, `lib/integrations/retry-*.ts` | `RetryableAction` rows, the audit rows that mark an action as executed | enqueue, hold, resume, dead-letter | three overlapping sweeps, stale batches, crashes, a ledger read that may fail | resolved means marked as done in the ledger; no row dies early, silently, or waits for ever |
| Integration health sweep | `IntegrationHealth` rows | probe, notify, escalate, flush the retry queue | overlaps the others | as above (only the flush is modelled) |
| Support replies, `lib/support` | `SupportRequest` status, reply log (`AuditLog`), e-mails sent | approve and send, reject, set status | an e-mail leaves between two transactions; two operators; the owner's own page | one story per draft; never "sent" without a mail |
| Support handler and triage, `lib/skills/support-handler`, `customer-support-triage` | drafts, escalation and decision rows | triage, escalate, draft, mark IN_REVIEW | retried from the start; best-effort writes | IN_REVIEW means something waits; an operator's status is kept |
| Connector gate, `lib/integrations/approval` | approval rows as grants, the connector audit | `gateAndRun`: check, expire, find or create, execute, record | find-or-create races, expiry by id, a grant that stays valid for a day | no write without an approval of that very action; the audit tells the truth |
| Client portal chat, `lib/portal`, `app/portal/[customerSlug]/chat` | `PortalThread`, `PortalMessage`, the owner's cards | open a thread, send, draft, find or open a card, store the reply, show the page | what the client sees depends on another row's live status, found by fingerprint; the card is committed before its message | nothing unapproved is shown; an approval is not in vain |
| Webhook inbox, `lib/integrations/webhook-idempotency.ts`, `process-webhook-event.ts`, `lib/skills/persist-artifacts.ts` | `WebhookEvent` rows, the cards of a run | receive, drain, pause, persist, complete, back off, dead-letter | redelivery, drains that overlap with no claim, crashes between the steps | each event processed or given up after its attempts, none lost |
| Usage meter, `lib/billing/usage` | `LlmUsageRecord.stripeReportedAt` | record, sum, list, report, mark | sum and list are two reads, report and mark two systems | usage billed, and billed once |
| Billing, `lib/billing`, `app/api/stripe/webhook` | `Subscription`, `BillingEvent`, the workspace's setup columns | receive and apply Stripe's events; dunning mails and suspension; nudge, go dark and archive | events repeated, late and out of order; daily sweeps that act on what they read earlier | the row follows Stripe; dunning suspends nobody unwarned; unfinished accounts with an owner to write to come to an end |
| Closing, `lib/customer-data`, `lib/guarantee/walk-away.ts`, `lib/billing/unsupported-vertical-refund.ts` | `closureStatus`, the purge date, the tenant's rows, refunds at Stripe, guards and pages (`OpsFlag`) | close, cancel, purge, walk away, refund | four flows that read, refund, page, erase and write the status in transactions of their own; purges that overlap | no money kept quietly; a closing ends |
| Others | see `PROJECT.json`, "components" | | | |

How they meet.  Producers (skills, the chat, the support handler) create rows of
`WorkApprovalQueueItem`.  `/approvals`, the mobile API and `/operator/support`
decide them, all through `applyApprovalDecisionTx`; the first two then dispatch
executors, the third sends the e-mail *first* and decides after.  The drafter
writes into rows that may be decided meanwhile.  Producers whose integration is
down enqueue in the retry queue instead; the backstop (every six hours), the
health sweep (daily, on recovery) and an on-demand event resume it.  Providers'
webhooks leave `WebhookEvent` rows; a cron drains them through the skills, whose
drafts become rows of `WorkApprovalQueueItem`.  A connector's write and a portal
reply each find or create such a row and go on when it is approved; the gate lets
the approval of a connector write lapse after a day.  Model calls
leave usage rows, which a daily sweep reports to Stripe; Stripe's events write the
subscription, which pauses the drain; closing a workspace refunds and erases.

The hazards - what a unit test would hardly reach - are listed at their lines in
`PROJECT.json`, each with the properties that would catch it.

## 2. Modules

| Module | What it is |
|---|---|
| `ApprovalRecord` | the abstract promise: an item leaves PENDING once, and the step that moves it leaves its evidence |
| `ApprovedFirst` | the standing promise itself: what leaves the product was approved in an earlier step |
| `ApprovalQueue` | the queue, its executors and the instruction drafter, transactions split where others may commit |
| `ApprovalQueueProofs` | TLAPS proofs about `ApprovalQueue` |
| `RetryQueue` | producers, overlapping sweeps, crashes, time |
| `RetryQueueProofs` | TLAPS proofs about `RetryQueue` |
| `SupportReply` | handler, operators and owner around one support request; takes its decisions from `ApprovalRecord` |
| `SupportReplyProofs` | TLAPS proofs about `SupportReply` |
| `WebhookInbox` | receipt of notifications, overlapping drains, the skill chain's outcome, backoff and dead letters |
| `WebhookInboxProofs` | TLAPS proofs about `WebhookInbox` |
| `ConnectorGate` | calls of a gated connector write and the approvals they use |
| `ConnectorGateProofs` | TLAPS proofs about `ConnectorGate` |
| `PortalChat` | visits of clients to the portal chat, and the owner's cards |
| `PortalChatProofs` | TLAPS proofs about `PortalChat` |
| `Billing` | Stripe's subscription and events, the webhook, the dunning and the abandoned-signup sweep |
| `UsageMeter` | the usage rows and the sweeps that report them |
| `UsageMeterProofs` | TLAPS proofs about `UsageMeter` |
| `Closure` | closing, cancelling, purging, and the two flows that refund |
| `AccountProofs` | TLAPS proofs about `Billing` and about `Closure`, which share no variable |
| `MC...` | the instances: symmetry sets, the owners of rows, amounts, the backoff function |

### ApprovalQueue

`row[i]` is the `WorkApprovalQueueItem` (status, decider, payload), `audit` the
`work_approval.*` rows, `signals` the captured preference signals.  A *task* is
one call: `job[t]` says what it was asked, `pc[t]` how far it is, `snap[t]` the
payload it holds in memory, `seen[t]` the text on its owner's screen.  A payload
keeps the three fields the properties tell apart: `body` (what an edit
replaces), `draft` (`draftBody`) and `artifact` (what the executor stores).  An
item is a reply, an instruction (`Instructions`) or a connector write (`Writes`).
Approvals of the last may lapse, by a write of another component that names the
row's id alone, so a row that was approved may be `EXPIRED`; `Decided(i)` is what
was decided of a row, whichever of the two it says.

| Action | Code |
|---|---|
| `View` | the approvals page reads the items |
| `FindForDecision`, `ApplyApprovalDecision`, `Refuse` | `applyApprovalDecisionTx`: its `findFirst`; its conditional `updateMany`, audit row and commit; ALREADY_DECIDED from either |
| `FindForWriteKey`, `WriteKey` | `dispatchApprovalExecutors` down to `writeKey`'s read and its write |
| `FindForEdit`, `EditApprovalDraft` | `editApprovalDraft`, likewise split |
| `CaptureRejectSignal`, `CaptureEditSignal` | the best-effort signal after either; after an edit the mobile call goes on to decide |
| `ReadForDrafting`, `FindForAttach`, `AttachDraft` | the drafter |
| `FindExpired`, `Expire` | the connector gate's `check` of a connector write that finds its approval a day old, and the update to EXPIRED (`approval-gate-prisma.ts:112`) |
| `Abandon` | the instance dies, the model fails or an executor throws |

A SELECT and the later UPDATE of a transaction are separate steps, and the
UPDATE and COMMIT are one: a second UPDATE of the row waits for the first
commit and then evaluates its WHERE clause afresh, which is what the comment in
`decisions.ts` relies on.

### RetryQueue

`row[k]` is the `RetryableAction` of one idempotency key; `executed[k]` counts
its done markers, the audit rows `retry.<kind>.executed` that the ledger looks for.
The model says nothing of the action behind a marker: the handlers wired in
`retry-handlers.ts` perform none by default (61-66, 139-143, 154-157), they write
the marker and report success.  A producer's `known[p]` is what its
`findByKey` answered; a sweep holds its fetched batch in `todo[s]`, the current
row in `turn[s]`, its `now` in `clock[s]`.  Only the fields used after the fetch
are kept of a fetched row.  `paged`, `runs` (handler calls that came back, with success or failure) and `crashes` are
history.  `FindByKey`, `Upsert`, `FindEligible`, `DeadLetterAged`,
`SkipNoHandler`, `AlreadyExecuted`, `MarkExecuted`, `Resolve`, `BackOff`,
`DeadLetterSpent` and `OnDeadLetter` are the store calls and branches of the
code in its order; the order of the guards (age cap, handler, attempt) is that
of `resumeRetryableActions`.  A health sweep passes the instant it began with,
so its clock may lag behind.  A ledger read that fails counts as "not executed",
and `markExecuted` may throw after its commit.

### SupportReply

`request[r]` is a request's status, `of[i]` the request draft `i` answers,
`verdict`/`evidence` the approval record of the drafts, `closing` the reply log,
`sent` the mails that reached the customer (a provider may deliver and report a
failure).  The decisions are `Record!Decide`, one step: that
`applyApprovalDecisionTx` implements it is what `ApprovalQueue` proves, so the
two models compose through the abstract specification.  `Triage` chooses an
outcome freely; `Retry` starts a handler again.

### WebhookInbox

`row[i]` is a `WebhookEvent` in the order of `receivedAt`, with the fields the
drain reads (`due` stands for `nextAttemptAt`); `audit[i]` what the audit rows say
of its end, `cards` the events whose draft has its approval row.  A drain holds
its batch in `todo[d]` and its row in `turn[d]`, with the `attemptCount` and the
credential it fetched.  `Deliver` is `upsertWebhookEvent`, a no-op for a known
dedupe key and a new row for a notification without one; `FindReady` the select of
the oldest ready rows, which claims nothing.  For each row: `SkipInactive`,
`PauseForBilling` then `AuditPause` (two transactions), `PauseForVacation`,
`RunSkillChain` (draft, nothing, or nothing could be read), `WriteArtifacts`,
`Complete`; `Throw` and `RecordFailure` are the catch.  `Crash` ends a drain at any
point.  What a skill drafts, and whether it fails, is free.

### ConnectorGate

`request[r]` is the row, `job[c]` a call's workspace, action and token
(`pendingApprovalId`).  `AfterToken` is `check`'s lookup of the token and its
branches: approved and recent goes to `Execute`, approved and old to `Expire`,
anything else to `FindOpen` or the end; `CreateRequest` is the create after
`FindOpen` found none.  `recent` stands for the 24 hours since `decidedAt`;
`DayPasses` ends it.  The vendor's call and `RecordWrite` are steps of their own.

### PortalChat

A visit is a page load or a message sent.  `FindThread` and `CreateThread` are
`ensurePortalThread`; `StoreClientMessage`, `DraftReply`, `FindOpenCard`, `OpenCard`,
`StoreReply`, `TouchThread` are `runPortalChatTurn` and the owner gate in the order
of the code.  `LoadPage` shows the replies whose card, found live, is approved, and
`seen` remembers them.  `card[k].drafted` is what the fingerprint was taken of,
`.body` what an edit has made of it.

### Billing

Stripe (external) is a subscription's status and the events its changes emit.  A
request of the webhook holds the event it is about in `request[q]`: `Receive` is its
look for a known event, which lets the same event in twice at once, `Dispatch` the
transaction that applies and records it, `DispatchFails` its failure, after which
Stripe delivers again.  An invoice's event takes two statements: `ReadStatus` puts
what it makes of the status it reads into `write[q]`, and `Dispatch` writes that by
id, whatever others have committed between.  An event whose customer is tied to no
workspace yet, or whose row is not there, is recorded and not applied (`Miss`), and
`missed` remembers it.  That happens where signing up asks for no card: the
subscription is created at Stripe (`CreateTrial`) before the row and the customer
are stored here (`Persist`).  `ws` is the part of the subscription and workspace
rows that decides who is served.  Statuses are all those `STATUS_MAP` knows but the
two of a first invoice that is not paid: there is always a trial.  One of them is
PAUSED, which Stripe sets when a trial ends without a card (`TrialPauses`) and the
webhook mirrors.  A sweep finds its candidate and decides (`Find`), then mails
(`SendMail`), logs (`LogMail`) or acts (`Act`) with what it decided; both sweeps pass
over a workspace without an ACTIVE BROKER_OWNER to write to (`~owned`).  `clock` holds
the thresholds that have passed, not days.  One workspace: the sweeps treat each by
itself.

### UsageMeter

A row is a call with a cost, and a sum the set of rows in it, so that what was
billed, and how often, can be told.  `SumGroups` (the `groupBy` of all workspaces),
`ListRows` (the `findMany` of one), `Report`, `MarkReported` are the sweep in its
order; `TakeEvent` is Stripe, which takes one event per identifier (workspace and
date).  `ReportFails` may lose the answer of an event that was taken.

### Closure

`closure`, `purge` and `data` are the workspace; `refund[c]` the flow that had a
payment refunded (the idempotency key names payment and flow), `guard` the flags
that stop a second run.  The owner's request reads (`Ask`) and writes later
(`InitiateClosure`, `CancelClosure`); a purge finds, reads again, erases and closes,
and one fired by the hour may overlap one fired by the event (`Purgers`); the refund
sweep lists the active workspaces before it comes to each (`ListCandidate`); a run of
either refund flow goes through `Begin`, `Refund` (newest payment first, up to the
cap), `Page`, `Audit`, `Erase`, `Close`, `Mark`, and forgets what it knew when it ends
(`Forget`).  A walk-away while billing is
switched off by the environment is left out: nobody was charged.

Each module also holds *fault* operators ("Fault: ..."), not part of the
specification: variants of one definition with a plausible bug, used to see that
each property fails when the code is wrong in that way.

## 3. Runs

| Run | Bounds | What it shows |
|---|---|---|
| `approval_queue` | a reply, an instruction and a connector write, 3 calls of any kind, 2 texts | the safety and action properties below, and that the queue implements `ApprovalRecord` |
| `retry_queue` | 2 keys (one without handler), 1 producer, 1 backstop, 1 health sweep, 2 attempts, age cap 1, time 2, 1 crash | safety of the retry queue |
| `waiting_ends` | 2 keys, batches of one row, no health sweep, time 3 | liveness |
| `support_reply` | 1 request, 2 drafts, 3 calls | safety of the support path |
| `sent_once` | the same | refutes a sentence of `resolve-reply.ts` (section 5) |
| `webhook_inbox` | 2 notifications (one with a dedupe key) of 2 workspaces, 2 rows, 2 drains of 2 rows, 1 backoff step, 1 crash | safety of the inbox |
| `events_end` | the same with 1 drain, 2 backoff steps, 2 disconnections | liveness of the inbox |
| `connector_gate` | 2 workspaces, 2 actions, 4 calls, 3 requests, 1 crash | safety of the gate |
| `portal_chat` | 2 clients, 3 visits, 2 texts, 2 threads, 2 cards, 1 crash | safety of the chat |
| `billing` | 3 events, 2 requests in flight, 1 crash of a sweep | safety and liveness of billing |
| `usage_meter` | 3 calls of 2 workspaces, 2 sweeps, 3 dates, 2 faults | safety of the meter |
| `closure` | 2 payments that exceed the cap together, 1 walk-away, 1 refund run, 2 purges, 2 faults | safety and liveness of closing |

Three calls are the fewest that show a decision racing a decision while an edit
or a draft is under way; two texts tell an edited text from the original; three
items tell the kinds apart (rows do not interact, and calls name one item).  In
the retry queue two sweeps are needed for an overlap and two keys for a batch
with a remainder; two attempts tell "at the cap" from "below"; one producer
revives.  In `waiting_ends` a batch of one row makes the older row keep the
younger one out.  In `support_reply` two drafts of one request let a handler's
retry draft again; three calls let two operators race a handler or the owner.
Two drains are needed for an overlap, and two rows for a batch with a remainder and
for a redelivery without a key; a notification of each workspace lets one be
disconnected while the other is drained.  In `connector_gate` a call may bring the
token of another workspace's or another action's request, which takes two of each;
three requests let a duplicate exist beside another action's; four calls let two
race while one holds a grant.  Three visits are two that draft and one that looks.
Three events are a checkout with its trial and first invoice, or a failure (two) and
its retry, cancellation or the end of the retries, or a trial that pauses and a charge
(two) that wakes it; two of them at a time are delivered in either order.  A run with
four is too long; the safety properties are proved for any number.
Two purges are needed for an overlap.  Three dates let a lost answer be followed by a repeat on the same and on
the next date.  Two payments, the newer within the cap, show a partial refund.

`CHECK_DEADLOCK FALSE` everywhere: each instance has finitely many calls, and a
system whose calls have all ended rests.

Properties.

* `DecidedOnce`: an item out of PENDING has exactly one decision row, with its
  status and decider; a PENDING item has none.
* `OneExecutor`: only the call whose own update approved an item gets as far as
  the executors.
* `ArtifactOfApproved`: an artifact hangs on a row that is approved, or was and has
  expired since, and the audit log names who approved it.
* `SignalsAreEarned`: a signal records a standing rejection or an audited edit.
* `DecidedTextFrozen`, `ArtifactKept` (action properties): the text and the artifact
  of a decided reply or connector write are final, whether or not its approval lapses.
* `ImplementsRecord`: refinement of `ApprovalRecord`.
* `ResolvedIsMarked`, `DeadIsDeserved`, `DeathIsReported`, `WaitingEnds`: a
  resolved row has its done marker in the ledger; a dead row is past the age cap or used up its
  attempts; short of a crash its death is reported; and a waiting row ends.
* `OneClosing`, `ClosedIsSent`, `InReviewIsDue`, `TouchedIsKept`: one closing row
  per draft that agrees with its decision; a reply logged as sent was sent by that
  call; IN_REVIEW has a reason; handlers leave an operator's status alone.
* `CompletedKeepsDraft`, `DeadIsDeserved` (of `WebhookInbox`),
  `ProcessedIsExplained`, `EventEnds`: an event completed with a draft has its card;
  none is given up before all its attempts failed; short of a crash a processed one
  says why; and every event of a connected workspace ends, as long as rows of
  disconnected ones do not fill the batch.
* `WriteIsApproved`, `DecisionStands`: a write was approved, that action and by its
  own workspace; nothing but an expiry is written over a decision.
* `SeenIsApproved`, `ApprovedIsDelivered`: a client is shown only what was approved
  for them; short of a crash an approved card has its message.
* `FollowsStripe`, `SuspendedIsWarned`, `AccountsResolve`: once every event would be
  waved through as seen, none came too early (`missed`) and nothing was written over
  something newer (`stale`), the row says what Stripe says; a row is PAUSED because
  Stripe said so or after a mail of dunning, and a run of dunning about to suspend
  comes after a mail for its stage; a failed payment and an unfinished signup end,
  given an owner to write to.
* `BilledIsMarked`, `BilledOnce`: without a fault what was billed is marked; each
  fault bills a call at most once more.
* `OwedIsTold`, `ClosureEnds`: a run that goes on to erase or to mark the workspace as
  handled has refunded what it listed or told a human; a closing whose grace is
  over ends unless it is cancelled.

**Fairness.**  Four runs assume any.  `waiting_ends`: time passes (`WF` of `Tick`), and
the backstop, when it can take a step, eventually takes one.  The cron fires it
every six hours whatever happened before (`RETRY_QUEUE_RESUME_SWEEP_CRON`), and
Inngest runs a fired function through or starts another.  Producers, health
sweeps and crashes are not fair; crashes are bounded (`MaxCrashes`), since a
backstop that dies every time ends nothing.  Rows are only enqueued while
`now <= EnqueueUntil`, because the wired producer's key carries the day's date;
`TimeIsEnough` lets every row reach its age cap within the clock.  `WaitingEnds`
also shows that a row *without* a handler ends, as DEAD (section 5).

`events_end`: each drain eventually takes a step it can take (the cron fires every
fifteen minutes), and a backoff elapses.  Failures of the chain are not fair and not
bounded: the cap ends them.  Crashes and disconnections are bounded, deliveries are
not fair.  `billing`: the days pass, and both daily crons run; Stripe and the
requests are not fair, so the property holds however long an event stays away.
`closure`: a purge that can take a step takes one, as the cron fires every hour (which
of two that overlap is not said); owners, refund flows and faults are not fair.

## 4. Proofs

`ApprovalQueueProofs` proves, for every set of items, calls and texts, with the
three assumptions of `ApprovalQueue` (`KindsAreItems`: instructions and connector
writes are items, and none is both; `NoText` and `NoTask` are none of the others):

* `TypeCorrect`, `DecidedOnceHolds`, `OneExecutorHolds`, `ArtifactOfApprovedHolds`,
  `SignalsAreEarnedHolds`;
* `DecidedTextFrozenHolds`, `ArtifactKeptHolds`;
* `Implementation`: `Spec => Record!Spec`.

The argument is one inductive invariant, `IInv`.  `DecidedOnce` alone is
inductive given `TypeOK`.  The others are not: that no artifact appears on an
undecided row needs `OneExecutor` (who stands at the executors) and
`SnapOfApproved` (a payload held by an editor or a drafter carries an artifact
only if the row was approved before it was read, and nothing is written over an
approval but its lapse), and that in turn needs `LapseIsDue` (who is about to write
EXPIRED by id, on what an earlier read said, finds the row approved or expired
still); that an
artifact is kept needs `StoreIsFresh` (a reply being executed has none yet, and
the payload about to be stored still has the row's text); that signals are earned
needs `SignalIsDue`.  `OwnSteps` says that a call stays within its own handler.
The proof has one lemma per kind of step and cites each part by name.

`RetryQueueProofs` proves, for every set of keys, producers and sweeps, every cap,
backoff, batch size, clock bound and number of crashes, from `HandledAreKeys`,
`SweepsDiffer`, `CapsAreNat` and `TimeIsEnough`:

* `QueueTypeCorrect`, `ResolvedWasMarked`, `DeadWasDeserved`, `DeathsAreReported`.

`DeadIsDeserved` is far from inductive: a sweep buries a row by the count it
fetched, long after others may have revived or resolved it.  The invariant says of
every copy of a row, in the table, in a batch or in a sweep's hands, that the
attempts it counts were made unless the row is past its age (`AttemptsWereMade`),
that copies keep the row's creation (`SameAge`) and are of rows that exist
(`FetchedExist`), and of every sweep that its clock is not ahead and that its turn
is a fetched row (`InTurn`).  `ResolvedIsMarked` needs `ResolveIsDue`.  The proof
first states what a step may do to a row (`RowCarries`) and to a sweep
(`SweepCarries`), shows once that the invariant carries over such a step (`Carry`),
and then that each action is one.  `DeathIsReported` is inductive on top.

`SupportReplyProofs` proves, for every set of requests, drafts and calls, with the
one assumption that `NoRequest` is no request:

* `ReplyTypeCorrect`, `OneClosingHolds`, `ClosedWasSent`, `InReviewHasReason`,
  `TouchedStaysKept`, and `RepliesObeyTheRecord` (`Spec => Record!Spec`).

Its invariant adds that a call stays within its own steps (`OwnSteps`), that who is
about to record or to mark has sent or drafted (`StepsAreDue`), and that an
undecided draft has no closing row (`UndecidedIsOpen`).

`ConnectorGateProofs` proves, for every set of workspaces, actions and calls and
every bound, from `BoundsAreNat`:

* `GateTypeCorrect`, `WritesWereApproved`, `DecisionsStand`, and
  `AuditTellsTheTruth`: no audit row without a write and, short of a crash, no write
  without its row.

`WriteIsApproved` becomes inductive with `GrantInHand` (who is about to execute
holds an approval of its action), `ApprovalsAreKept` (approvals are of requests that
exist, and `APPROVED` ones are remembered) and `WritesAreOver`; `DecisionStands`
needs `ExpiryIsDue`: between the read and the unguarded update of an expiry the row
can only have been expired by another call, since an old approval never becomes
recent again.

`AccountProofs` proves, for every number of events, requests and crashes, from
`BoundsAreNat` and `RequestsAreNotSweeps` of `Billing`:

* `BillingTypeCorrect`, `RowFollowsStripe` (`FollowsStripe`) and `SuspendedWasWarned`
  (`SuspendedIsWarned`).

`SuspendedIsWarned` needs that what is logged was
mailed (`LoggedIsMailed`) and that only dunning suspends (`ActionsAreDue`).
`FollowsStripe` says what the row is once all events are in, so its invariant has to
say it after every prefix of them (`RowFollows`): while nothing was written over
something newer, the events applied in turn up to `e` leave the row as `Follows(e)`
says, which takes the kind of `e` and, of a paid invoice, of the event behind it.
That the last prefix is Stripe's own status is `EventsTell`, a fact of the events
alone; that what is waved through was applied unless it was missed is
`RecordedIsTaken`; that a row exists to follow is `RowComes`; that a sweep which acts on a
row an event has changed since is `behind`, and so makes the row `stale`, is `FoundIsSo`;
and `ReadIsSo` says the same of what an invoice's event makes of the status it has read.

The same module proves, for every set of runs and purges, payments, amounts and cap, from
`WalksAreRuns`, `ClosureBoundsAreNat` and `AmountsAreNat`:

* `ClosureTypeCorrect` (no run refunds more than the cap) and `OwedWasTold`.

`OwedIsTold` needs `ListIsWhole`: what a run has still to look at covers all that it
listed and nobody has refunded.

`WebhookInboxProofs` proves, for every set of notifications, workspaces and drains,
every backoff schedule, batch size and bound, from `OwnersAreWorkspaces`,
`KeyedAreNotifications` and `BoundsAreNat`:

* `InboxTypeCorrect`, `CompletedKeptDraft`, `DeadWasDeserved`, `ProcessedWasExplained`.

`CompletedKeepsDraft` needs `CardIsStored` (who is about to complete with a draft has
stored its card).  `DeadIsDeserved` needs `AttemptsAreFailures`: an unprocessed row
counts exactly its recorded failures, and a fetched copy no more than there are, so
a drain that finds its stale count at the end of the schedule is right.
`ProcessedIsExplained` is inductive given that a drain at work has a fetched row.

`PortalChatProofs` proves, for every set of clients, visits and bodies, from
`BoundsAreNat` and `NoneIsNoClient`:

* `ChatTypeCorrect`, `SeenWasApproved`, `ApprovedWasDelivered`.

`SeenIsApproved` needs the way from the client to the card: the thread a visit has
in hand is of its client (`LatestIsTheirs`, `WorkIsInHand`), the card it has found or
created is of that thread and those words, and a stored reply keeps to its card
(`RepliesMatchCards`); `SeenAreReplies` and the frozen approval keep it so.
`ApprovedIsDelivered` follows from `CardsAreWanted`, which says it of every card.

`UsageMeterProofs` proves, for every set of calls, workspaces and sweeps and every
bound, from `OwnersAreWorkspaces`, `BoundsAreNat` and `NoneIsNoWorkspace`:

* `MeterTypeCorrect`, `BilledWasMarked`, `BilledOnceHolds`.

`BilledIsMarked` needs `ListCoversSum`: the ids a sweep lists after its sum name
every row of the sum that nobody has marked.  `BilledOnce` counts dates against
faults.  Of a row that a sweep is yet to bill, the dates billed before the sweep's
own and the midnights that passed over the sweep were each paid for by a fault
(`DueWerePaidFor`); the sweep's date may then be one more.  A row not yet marked has
paid for the dates before today (`UnmarkedWerePaidFor`) and for today too, unless a
sweep is about to mark it (`LeftWerePaidFor`), so the next midnight finds the first.

**The standing promise.**  `ApprovedFirst` says what the product promises without any
of its machinery: deeds are approved, for good, and only what was approved in an earlier
step is performed.  Three components implement it, each with its own deeds
(`KeepsPromise` in each, an INSTANCE with a refinement mapping):

| Theorem | Deed | Approved when | Done when |
|---|---|---|---|
| `QueueKeepsPromise` | a reply or connector write | its row is APPROVED, or EXPIRED since | its artifact is stored |
| `GateKeepsPromise` | an action of a workspace | a request for it is among `approvals` | the vendor has been called |
| `ChatKeepsPromise` | a text for a client | a card of the client's thread, drafted with it, is APPROVED | the client is shown it |

Each proof maps every step to `Approve`, `Perform` or a stutter; it needs the invariant
that ties the deed to its approval (`ArtifactOfApproved`, `GrantInHand`,
`SeenIsApproved`) and that rows name what they are about (`RequestsAreWhole`,
`CardsHaveClients`, parts of `IInv`).  `KeepsPromise` may be given as a PROPERTY in
`ApprovalQueue.cfg`, `ConnectorGate.cfg` or `PortalChat.cfg`; TLC finds no violation.
`SupportReply` is not an instance: there the mail leaves before its approval is
recorded.

**What the refuted promises take.**  Section 5 lists comments the code does not keep.
For seven of them a theorem says which causes there are, by naming what, if it never
happened, would make the comment true:

| Theorem | The promise holds if |
|---|---|
| `ArtifactIsSeenUnlessEdited` | no edit of the item commits (`NeverEdited`) |
| `SeenAsApprovedUnlessEdited` | the owner does not edit the card (`NeverEdited`) |
| `ExecutedOnceOtherwise` | every ledger read answers (`LedgerAnswers`) and no two sweeps execute one action at a time (`ExecuteAlone`) |
| `SentOnceOtherwise` | approvals of one draft do not overlap (`SendAlone`) and none ends undecided after its mail has gone (`SendsAreRecorded`) |
| `ApprovedIsSentOtherwise` | the owner approves no support draft (`OwnerApprovesNone`) |
| `MarkedWasBilledOtherwise` | no row is written between a sweep's two reads (`NoneInBetween`) and no event is taken for an earlier one (`NoneRefused`) |
| `CancelKeptDataOtherwise` | a cancellation finds the rows there and no purge past its read (`CancelInTime`) |

These are not guarantees of the code, which prevents none of those causes; they say
that a repair of them is enough.  Where two are named, TLC refutes the promise under
either alone.  Two more are answered by the guarantees: without a write over
something newer, who has paid is not paused (`RowFollowsStripe`, for `PaidIsServed`), and
short of a crash every death is reported (`DeathsAreReported`, for `NoSilentDeath`).

Only model-checked: liveness (`waiting_ends`, `events_end`, `billing`, `closure`),
which TLAPS cannot prove, and the refutations of section 5.

## 5. Departures from the comments

Sentences of the code's comments that do not hold.  Each is a property of its
module, at the end under "What the comments promise and the code does not keep", and
TLC refutes each: `SentOnce` in a run (`sent_once`, with an entry under "findings"),
the others when they take the place of the properties in the `.cfg` the table names
(`BacklogDrains` with `Limit = 1` and `MaxDrops = 1`, `PaidIsServed` with
`MaxEvents = 4`).

| Property | In | Comment | What happens |
|---|---|---|---|
| `ArtifactIsSeen` | `ApprovalQueue.cfg` | `decisions.ts:85-89` | an edit commits while the card is open, or between the decision's read and its update: the approved text was never seen, or the executed text is not the row's |
| `ApprovedTextFrozen` | `ApprovalQueue.cfg` | `decisions.ts:362-365` | the drafter's late `attachDraft` changes an approved instruction |
| `ArtifactWriteKeepsDraft` | `ApprovalQueue.cfg` | `dispatch.ts:109` | `writeKey` overwrites a draft attached since its read |
| `ExecutedOnce` | `RetryQueue.cfg` | `retry-handlers.ts:8-11` | two sweeps both pass the ledger check |
| `NoSilentDeath` | `RetryQueue.cfg` | `retry-queue-resume-sweep.ts:13` | a crash between DEAD and the page |
| `SentOnce` | `SentOnce.cfg` | `resolve-reply.ts:34-37`, `157` | the mail goes before the guard |
| `ApprovedIsSent` | `SupportReply.cfg` | `resolve-reply.ts:22-26` | the owner approves the same draft on `/approvals` |
| `AnswerIsRelayed` | `SupportReply.cfg` | `customer-support-triage/types.ts:164-170` | an auto-answer is dropped by the handler |
| `UnreadStaysQueued` | `WebhookInbox.cfg` | `skills/runner.ts:217-220` | "the webhook event is left unprocessed=false so the next sweep can retry", but the drain marks every event of a run that returns (`process-webhook-event.ts:495`) |
| `BacklogDrains` | `EventsEnd.cfg` | `process-webhook-event.ts:102-103` | rows of disconnected mailboxes are fetched first at every fire, and fill the batch |
| `SeenAsApproved` | `PortalChat.cfg` | `owner-approval-gate-prisma.ts:7` | an edit of the card does not reach the stored message the client is shown |
| `PaidIsServed` | `Billing.cfg` | `dunning.ts:429` | a run that found the workspace past due suspends it after it has paid: the update is not conditional (257) |
| `TrialIsServed` | `Billing.cfg` | `app/(product)/app/actions.ts:256`, "Your N-day trial just started - no card needed yet" | the trial's events come before the row and the customer are stored: they are recorded unmatched and never dispatched again, the setup stays incomplete, and the signup sweep darkens and archives the workspace |
| `MarkedIsBilled` | `UsageMeter.cfg` | `usage/stripe-meter.ts:54` | a row recorded between the sum and the list of ids is marked and never billed; or a second sweep of a date, or a retry after a lost answer, has its event taken for the first one, and marks the rows that came since |
| `CancelKeepsData` | `Closure.cfg` | `teardown-scheduler.ts:136-138` | a cancellation after the second read, or one followed by a new closing, does not stop the purge; or a purge died after erasing, and the cancellation makes the empty workspace active |

Seen while modelling, without a run of their own: an owner's edit of an
instruction writes `body` while its card shows `draftBody` (`decisions.ts:323`,
`renderApprovalPayload.ts:788`); a stale batch runs a row that is DEAD
(`retry-queue.ts:23`); the age cap comes before the handler lookup, so a row
without a handler dies after seven days although it "is left PENDING"
(`retry-queue.ts:75-78`); two overlapping failures may be counted as one, since
attempts is written absolutely (`retry-queue.ts:252`); a row that dies between
`findByKey` and `upsert` is revived with its spent attempts (`retry-queue.ts:106`);
comments speak of performing the action again, but the default handlers perform
nothing and write the done marker (`retry-handlers.ts:61-66`, `139-143`, `154-157`);
a reject may commit while an approval's mail is out (`resolve-reply.ts:16`), and
may reopen a request just resolved by hand (`prisma-resolve-store.ts:238`); the
handler never checks that a request is still NEW before it drafts
(`prisma-bindings.ts:76`).

* Webhook inbox: `persist-artifacts.ts:153-156` says a rerun overwrites the prior
  row, but it creates one; a rerun credits the saved time twice (206-214); a failing
  drain with a stale fetch may write a retry or a dead letter on a row another has
  processed (`DeadIsDeserved` holds nevertheless); the pause for billing marks the
  event in one transaction and audits it in another; a notification of several
  messages is keyed by the first (`app/api/webhooks/microsoft/route.ts`).
* Connector gate: one grant serves any number of writes of its action for a day; the
  find-or-create may leave two cards for one action (`approval-gate-prisma.ts:138`);
  a crash after the vendor's call leaves the write unaudited (`with-approval.ts:170`).
* Portal chat: a client may get two threads (`chat.ts:112`); a crash between the card
  and its message leaves an approved card with nothing to show; equal drafts share a
  card.
* Billing: an event that arrives late writes an older status over a newer one, and
  `payment_failed` lifts a suspension; an event recorded without a workspace or a row
  to apply it to is never dispatched again (`webhook-dispatch.ts:134-165`); a workspace
  without an ACTIVE BROKER_OWNER is passed over by both sweeps and stays past due, or
  half way, for ever (`dunning.ts:183-184`, `abandoned-signup.ts:238-239`); a signup that goes dark or is archived while
  its checkout arrives may stay `CLOSING` after it has paid (`abandoned-signup.ts`
  does not look again); a second cycle of failures sends no first mail, its stage
  being covered by the first cycle's rows (`dunning.ts:97`), so the warning
  `SuspendedIsWarned` speaks of may be one of an earlier cycle.
* Usage meter: a repeat on the next day, after a lost answer, bills twice, as the
  identifier carries the date (`stripe-meter.ts:190`).
* Closing: nothing cancels the Stripe subscription of a workspace that closes, and the
  refund sweep lists active ones only (`unsupported-vertical-refund.ts:11-14`); the
  erasure deletes the audit row the refund has just written; the guard is set after
  the refund, not before it (36-38), the idempotency key alone prevents a second one;
  `notifyHuman` does not look at whether its flag was stored (`notify-human.ts:94`); a
  refund that throws half way reports nothing refunded; a crash between the erasure
  and the closing leaves an active workspace without rows.

## 6. Plan

Done: `ApprovalRecord`, `ApprovalQueue`, `RetryQueue` and `SupportReply`;
`WebhookInbox`, `ConnectorGate`, `PortalChat`, `Billing`, `UsageMeter` and `Closure`.
All are checked and proved about, and `ApprovalQueue`, `ConnectorGate` and `PortalChat`
are shown to implement `ApprovedFirst`.  Next:

1. `HealthSweep` (notify once and escalate once per breakage) and onboarding's
   activation run, whose step order and rewind are conditional updates.
2. The decisions of `ConnectorGate` and `PortalChat` taken from `ApprovalRecord`, as
   those of `SupportReply` are.
3. The causes of the departures left (`ApprovedTextFrozen`, `ArtifactWriteKeepsDraft`,
   `UnreadStaysQueued`) as theorems of their own.

## 7. Not modelled

Language models and prompts, connectors (HTTP translation), authentication and
tenancy (every call is taken to be made by a member of its workspace),
encryption, rendering, reports and pages, the second ticket system, voice and
onboarding: see the notes in `PROJECT.json`.  The crons not modelled read their
candidates and create drafts, one at a time.  Inside the modelled
parts: the machine route of the executors (it runs in its caller's transaction),
the mailbox executor (no port is wired), deletion of rows, the tables behind
signals and pages, Stripe events with a malformed payload (recorded, and nothing
else), and rows that are created AUTO_APPROVED (`lib/skills/bounded-execute.ts`).
