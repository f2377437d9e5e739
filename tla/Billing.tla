------------------------------- MODULE Billing -------------------------------
(***************************************************************************)
(* A workspace's subscription: the Stripe webhook that mirrors it           *)
(* (app/api/stripe/webhook/route.ts, lib/billing/webhook-dispatch.ts), the  *)
(* sweep that duns a payment that failed (dunning.ts), the one that closes  *)
(* a signup nobody finished (abandoned-signup.ts), and the gate the fleet   *)
(* asks (workspace-paused-gate.ts).  Stripe delivers events at least once   *)
(* and in any order; the sweeps act on what they read when they started.    *)
(* One workspace: no two share a row.  It is tied to its customer at Stripe *)
(* before the checkout opens (checkout.ts) or, where signing up asks for no *)
(* card, after the subscription was created there (provisioning.ts).        *)
(***************************************************************************)
EXTENDS Integers, Sequences

CONSTANTS Requests,    \* the webhook's handlers
          MaxEvents,   \* bound of the events Stripe emits
          MaxCrashes   \* bound of the sweeps that die

ASSUME BoundsAreNat == MaxEvents \in Nat /\ MaxCrashes \in Nat

Events == 1 .. MaxEvents
None   == 0
Sweeps == {"dunning", "signup"}

ASSUME RequestsAreNotSweeps == Requests \cap Sweeps = {}

\* The mails the sweeps send: the nudge of a signup, and the stages of dunning in
\* the order of DUNNING_STAGE_ORDER.
Nudge == 0
FAIL  == 1
D7    == 2
D14   == 3
Mails  == Nudge .. D14
Stages == FAIL .. D14

VARIABLES account,  \* the subscription's status at Stripe
          event,    \* event[e]: the events emitted, in that order, or NoEvent
          recorded, \* events with a BillingEvent row
          applied,  \* history: events whose dispatch found what they are about
          missed,   \* history: an event was recorded without that
          request,  \* request[q]: the event q is about to dispatch, or None
          write,    \* write[q]: what q makes of the status it has read, or "unread"
          ws,       \* the Subscription row and the workspace's setup and closure
          owned,    \* the workspace has an ACTIVE BROKER_OWNER, and not only an OWNER
          clock,    \* the day thresholds passed since signup and first failure
          sent,     \* mails with an audit or lifecycle row
          mailed,   \* history: mails that went out
          sweep,    \* sweep[p]: the action p has decided on, or NoAction
          behind,   \* history: who has read what an event has changed since
          stale,    \* history: something was written over something newer
          crashes

vars == <<account, event, recorded, applied, missed, request, write, ws, owned,
          clock, sent, mailed, sweep, behind, stale, crashes>>

\* The two of a first invoice that is not paid do not come: there is always a trial.
Statuses == {"TRIALING", "ACTIVE", "PAST_DUE", "UNPAID", "PAUSED", "CANCELED"}

\* A sync is one of customer.subscription.*, with the status at that moment; failed
\* and paid are invoice.payment_failed and .payment_succeeded.
EventRows == [kind : {"sync"}, status : Statuses]
             \cup [kind : {"checkout", "failed", "paid", "deleted"}]
NoEvent   == [kind |-> "none"]

\* known: stripeCustomerId; ahead: currentPeriodEnd is still to come; complete:
\* signupSetupCompletedAt; dark: setupDeactivatedAt; closing: closureStatus CLOSING.
Workspace == [status : Statuses \cup {"none"}, known : BOOLEAN, ahead : BOOLEAN,
              complete : BOOLEAN, dark : BOOLEAN, closing : BOOLEAN]

\* signup: none, one, seven or thirty days; failure: none, or the stage reached.
Clocks == [signup : 0 .. 3, failure : 0 .. D14]

Acts == {"mail", "log", "gate", "deactivate", "archive"}
Actions  == [act : Acts, mail : Mails]
NoAction == [act |-> "none"]

TypeOK ==
  /\ account \in Statuses \cup {"none"}
  /\ event \in [Events -> EventRows \cup {NoEvent}]
  /\ recorded \in SUBSET Events
  /\ applied \in SUBSET Events
  /\ missed \in BOOLEAN
  /\ request \in [Requests -> Events \cup {None}]
  /\ write \in [Requests -> Statuses \cup {"keep", "unread"}]
  /\ ws \in Workspace
  /\ owned \in BOOLEAN
  /\ clock \in Clocks
  /\ sent \in SUBSET Mails
  /\ mailed \in SUBSET Mails
  /\ sweep \in [Sweeps -> Actions \cup {NoAction}]
  /\ behind \in SUBSET (Sweeps \cup Requests)
  /\ stale \in BOOLEAN
  /\ crashes \in 0 .. MaxCrashes

\* A signup, whose checkout is open or which asks for no card, or a trial or a
\* customer of some time.
Init ==
  /\ \/ /\ account = "none"
        /\ \E known \in BOOLEAN :
             ws = [status |-> "none", known |-> known, ahead |-> FALSE,
                   complete |-> FALSE, dark |-> FALSE, closing |-> FALSE]
     \/ /\ account \in {"TRIALING", "ACTIVE"}
        /\ ws = [status |-> account, known |-> TRUE, ahead |-> TRUE,
                 complete |-> TRUE, dark |-> FALSE, closing |-> FALSE]
  /\ event = [e \in Events |-> NoEvent]
  /\ recorded = {} /\ applied = {} /\ missed = FALSE
  /\ request = [q \in Requests |-> None]
  /\ write = [q \in Requests |-> "unread"]
  /\ owned \in BOOLEAN
  /\ clock = [signup |-> 0, failure |-> 0]
  /\ sent = {}
  /\ mailed = {}
  /\ sweep = [p \in Sweeps |-> NoAction]
  /\ behind = {}
  /\ stale = FALSE
  /\ crashes = 0

-----------------------------------------------------------------------------
(* Stripe, and time.                                                        *)

Emitted == {e \in Events : event[e] # NoEvent}

\* es, in this order, are the next events.
Emit(es) ==
  LET last == {e \in Events : e \notin Emitted /\ \A d \in Events : d < e => d \in Emitted}
  IN  \E e \in last :
        /\ e + Len(es) - 1 \in Events
        /\ event' = [d \in Events |-> IF d \in e .. e + Len(es) - 1 THEN es[d - e + 1]
                                      ELSE event[d]]

Sync(status) == [kind |-> "sync", status |-> status]

AtStripe(status, es) ==
  /\ account' = status
  /\ Emit(es)
  /\ UNCHANGED <<recorded, applied, missed, request, write, ws, owned, clock, sent,
                 mailed, sweep, behind, stale, crashes>>

\* The trial begins, and its first invoice is for nothing.
Checkout ==
  /\ account = "none" /\ ws.known
  /\ AtStripe("TRIALING",
              <<Sync("TRIALING"), [kind |-> "paid"], [kind |-> "checkout"]>>)

\* The same where signing up asks for no card: createSubscription.
CreateTrial ==
  /\ account = "none" /\ ~ws.known
  /\ AtStripe("TRIALING", <<[kind |-> "paid"], Sync("TRIALING")>>)

\* The trial is over and there is no card (missing_payment_method: "pause").
TrialPauses == account = "TRIALING" /\ AtStripe("PAUSED", <<Sync("PAUSED")>>)

ChargeFails ==
  /\ account \in {"TRIALING", "ACTIVE"}
  /\ AtStripe("PAST_DUE", <<[kind |-> "failed"], Sync("PAST_DUE")>>)

RetryFails == account = "PAST_DUE" /\ AtStripe("PAST_DUE", <<[kind |-> "failed"]>>)

RetriesEnd == account = "PAST_DUE" /\ AtStripe("UNPAID", <<Sync("UNPAID")>>)

ChargeSucceeds ==
  /\ account \in Statuses \ {"ACTIVE", "CANCELED"}
  /\ AtStripe("ACTIVE", <<[kind |-> "paid"], Sync("ACTIVE")>>)

Cancel ==
  /\ account \in Statuses \ {"CANCELED"}
  /\ AtStripe("CANCELED", <<[kind |-> "deleted"]>>)

Stripe == \/ Checkout \/ CreateTrial \/ TrialPauses \/ ChargeFails \/ RetryFails
          \/ RetriesEnd \/ ChargeSucceeds \/ Cancel

PeriodEnds ==
  /\ ws.ahead
  /\ ws' = [ws EXCEPT !.ahead = FALSE]
  /\ UNCHANGED <<account, event, recorded, applied, missed, request, write, owned,
                 clock, sent, mailed, sweep, behind, stale, crashes>>

\* Not read again when the signup is complete.
SignupAges ==
  /\ clock.signup < 3 /\ ~ws.complete
  /\ clock' = [clock EXCEPT !.signup = @ + 1]
  /\ UNCHANGED <<account, event, recorded, applied, missed, request, write, ws, owned,
                 sent, mailed, sweep, behind, stale, crashes>>

FailureAges ==
  /\ clock.failure \in FAIL .. D7
  /\ clock' = [clock EXCEPT !.failure = @ + 1]
  /\ UNCHANGED <<account, event, recorded, applied, missed, request, write, ws, owned,
                 sent, mailed, sweep, behind, stale, crashes>>

-----------------------------------------------------------------------------
(* Signing up without a card: provisionTrialSubscription.                   *)

HasRow == ws.status # "none"

\* The row and the customer are stored once Stripe has answered, or never: what was
\* thrown is audited, and the workspace stays without.
Persist ==
  /\ account # "none" /\ ~ws.known
  /\ ws' = [ws EXCEPT !.status = "TRIALING", !.known = TRUE, !.ahead = TRUE]
  /\ UNCHANGED <<account, event, recorded, applied, missed, request, write, owned,
                 clock, sent, mailed, sweep, behind, stale, crashes>>

-----------------------------------------------------------------------------
(* The webhook.                                                             *)

\* Fault: the event is recorded when it arrives, and dispatched after that.
ReceiveAndRecord(q, e) ==
  /\ request[q] = None /\ e \in Emitted \ recorded
  /\ recorded' = recorded \cup {e}
  /\ request' = [request EXCEPT ![q] = e]
  /\ UNCHANGED <<account, event, applied, missed, write, ws, owned, clock, sent,
                 mailed, sweep, behind, stale, crashes>>

\* A delivery, or one more of the same event.  The lookup of its BillingEvent is a
\* transaction of its own; an event that has one is answered and nothing else.
Receive(q, e) ==
  /\ request[q] = None /\ e \in Emitted \ recorded
  /\ request' = [request EXCEPT ![q] = e]
  /\ UNCHANGED <<account, event, recorded, applied, missed, write, ws, owned, clock,
                 sent, mailed, sweep, behind, stale, crashes>>

End(q) ==
  /\ request[q] # None
  /\ request' = [request EXCEPT ![q] = None]
  /\ write' = [write EXCEPT ![q] = "unread"]

\* The customer belongs to a workspace, and there is a row to write to: only
\* syncSubscription creates one, and a checkout is only recorded.
Finds(x) == ws.known /\ (x.kind \in {"sync", "checkout"} \/ HasRow)

\* No workspace or no row: the event is recorded, and that is all.
Miss(q) ==
  /\ End(q) /\ ~Finds(event[request[q]])
  /\ recorded' = recorded \cup {request[q]}
  /\ missed' = TRUE
  /\ UNCHANGED <<account, event, applied, ws, owned, clock, sent, mailed, sweep,
                 behind, stale, crashes>>

\* mirrorInvoice reads the status, and makes of it what it will write, if anything.
NextStatus(x) ==
  IF x.kind = "failed" THEN "PAST_DUE"
  ELSE IF ws.status = "TRIALING" THEN "TRIALING" ELSE "ACTIVE"

ReadStatus(q) ==
  LET x == event[request[q]]
  IN  /\ request[q] # None /\ write[q] = "unread"
      /\ x.kind \in {"failed", "paid"} /\ Finds(x)
      /\ write' = [write EXCEPT ![q] = IF NextStatus(x) = ws.status THEN "keep"
                                       ELSE NextStatus(x)]
      /\ behind' = behind \ {q}
      /\ UNCHANGED <<account, event, recorded, applied, missed, request, ws, owned,
                     clock, sent, mailed, sweep, stale, crashes>>

\* syncSubscription: the upsert, and the workspace's setup with it.
SyncSubscription(status) ==
  \E ahead \in BOOLEAN :
    ws' = [ws EXCEPT !.status = status, !.ahead = ahead,
                     !.complete = TRUE, !.dark = FALSE]

SetStatus(status) == ws' = IF status = "keep" THEN ws ELSE [ws EXCEPT !.status = status]

\* Fault: every failure takes the next stage.
CountFailures(x) ==
  clock' = IF x.kind = "failed" THEN [clock EXCEPT !.failure = @ + 1] ELSE clock

\* The first failure linked to the row starts the clock.
StartClock(x) ==
  clock' = IF x.kind = "failed" /\ clock.failure = 0
           THEN [clock EXCEPT !.failure = FAIL] ELSE clock

\* dispatchEvent and the BillingEvent, in one transaction that commits.  The event
\* may have been recorded since it was received: its upsert then adds nothing.
Dispatch(q) ==
  LET e == request[q]
      x == event[e]
  IN  /\ End(q) /\ Finds(x)
      /\ \/ x.kind = "sync" /\ SyncSubscription(x.status)
         \/ x.kind \in {"failed", "paid"} /\ write[q] # "unread" /\ SetStatus(write[q])
         \/ x.kind = "deleted" /\ SetStatus("CANCELED")
         \/ x.kind = "checkout" /\ UNCHANGED ws
      /\ StartClock(x)
      /\ recorded' = recorded \cup {e}
      /\ applied' = applied \cup {e}
      /\ stale' = (stale \/ q \in behind \/ \E d \in applied : d > e)
      /\ behind' = {p \in Sweeps : sweep[p] # NoAction}
                   \cup {r \in Requests \ {q} : write[r] # "unread"}
      /\ UNCHANGED <<account, event, missed, owned, sent, mailed, sweep, crashes>>

\* A statement throws: the transaction is rolled back and the answer is 500.
DispatchFails(q) ==
  /\ End(q)
  /\ UNCHANGED <<account, event, recorded, applied, missed, ws, owned, clock, sent,
                 mailed, sweep, behind, stale, crashes>>

Handle(q) == \/ Miss(q) \/ ReadStatus(q) \/ Dispatch(q) \/ DispatchFails(q)
             \/ \E e \in Events : Receive(q, e)

-----------------------------------------------------------------------------
(* The sweeps.  Each is one cron, so at most one run of it is under way.    *)

Action(act, mail) == [act |-> act, mail |-> mail]

\* The failure of a row without one on record is taken to be now.
Reached == IF clock.failure = 0 THEN FAIL ELSE clock.failure

\* isStageCovered
Covered(stage) == \E m \in sent \cap Stages : m >= stage

\* Fault: the period's end comes before the mails.
SuspendFirst ==
  IF ws.status # "PAST_DUE" \/ ~owned THEN NoAction
  ELSE IF ~ws.ahead THEN Action("gate", Reached)
  ELSE IF Covered(Reached) THEN NoAction ELSE Action("mail", Reached)

\* findDunningCandidates, which passes over a workspace without an owner to write
\* to, and decideDunningAction
DunningAction ==
  IF ws.status # "PAST_DUE" \/ ~owned THEN NoAction
  ELSE IF ~Covered(Reached) THEN Action("mail", Reached)
  ELSE IF ws.ahead THEN NoAction ELSE Action("gate", Reached)

\* Fault: a workspace gone dark is left at that.
LeaveDark ==
  IF ws.complete \/ ws.closing \/ ~owned \/ ws.dark THEN NoAction
  ELSE CASE clock.signup = 0 -> NoAction
         [] clock.signup = 1 -> IF Nudge \in sent THEN NoAction ELSE Action("mail", Nudge)
         [] clock.signup = 2 -> Action("deactivate", Nudge)
         [] clock.signup = 3 -> Action("archive", Nudge)

\* The lister, which passes over a workspace without an owner too, and decideAction
SignupAction ==
  IF ws.complete \/ ws.closing \/ ~owned THEN NoAction
  ELSE CASE clock.signup = 0 -> NoAction
         [] clock.signup = 1 -> IF Nudge \in sent THEN NoAction ELSE Action("mail", Nudge)
         [] clock.signup = 2 -> IF ws.dark THEN NoAction ELSE Action("deactivate", Nudge)
         [] clock.signup = 3 -> Action("archive", Nudge)

Find(p) ==
  LET a == IF p = "dunning" THEN DunningAction ELSE SignupAction
  IN  /\ sweep[p] = NoAction /\ a # NoAction
      /\ sweep' = [sweep EXCEPT ![p] = a]
      /\ behind' = behind \ {p}
      /\ UNCHANGED <<account, event, recorded, applied, missed, request, write, ws,
                     owned, clock, sent, mailed, stale, crashes>>

SendMail(p) ==
  /\ sweep[p].act = "mail"
  /\ mailed' = mailed \cup {sweep[p].mail}
  /\ sweep' = [sweep EXCEPT ![p].act = "log"]
  /\ UNCHANGED <<account, event, recorded, applied, missed, request, write, ws,
                 owned, clock, sent, behind, stale, crashes>>

\* billing.dunning_email_sent, or SETUP_NUDGE_SENT
LogMail(p) ==
  /\ sweep[p].act = "log"
  /\ sent' = sent \cup {sweep[p].mail}
  /\ sweep' = [sweep EXCEPT ![p] = NoAction]
  /\ UNCHANGED <<account, event, recorded, applied, missed, request, write, ws,
                 owned, clock, mailed, behind, stale, crashes>>

\* The updates name the row and nothing else, and the action was decided on what
\* Find read.
Act(p) ==
  /\ \/ sweep[p].act = "gate" /\ ws' = [ws EXCEPT !.status = "PAUSED"]
     \/ sweep[p].act = "deactivate" /\ ws' = [ws EXCEPT !.dark = TRUE]
     \/ sweep[p].act = "archive" /\ ws' = [ws EXCEPT !.closing = TRUE]
  /\ stale' = (stale \/ p \in behind)
  /\ sweep' = [sweep EXCEPT ![p] = NoAction]
  /\ UNCHANGED <<account, event, recorded, applied, missed, request, write, owned,
                 clock, sent, mailed, behind, crashes>>

\* The run dies, or the mail or a transaction throws: the next run starts over.
Crash(p) ==
  /\ sweep[p] # NoAction /\ crashes < MaxCrashes
  /\ crashes' = crashes + 1
  /\ sweep' = [sweep EXCEPT ![p] = NoAction]
  /\ UNCHANGED <<account, event, recorded, applied, missed, request, write, ws,
                 owned, clock, sent, mailed, behind, stale>>

Step(p) == Find(p) \/ SendMail(p) \/ LogMail(p) \/ Act(p)

Time == PeriodEnds \/ SignupAges \/ FailureAges

Next == \/ Stripe \/ Time \/ Persist
        \/ \E q \in Requests : Handle(q)
        \/ \E p \in Sweeps : Step(p) \/ Crash(p)

Spec == Init /\ [][Next]_vars

\* Both crons fire every day, and the days pass.
FairSpec == /\ Spec /\ WF_vars(PeriodEnds) /\ WF_vars(SignupAges) /\ WF_vars(FailureAges)
            /\ \A p \in Sweeps : WF_vars(Step(p))

-----------------------------------------------------------------------------
(* What holds however deliveries and sweeps interleave.                     *)

\* isWorkspacePaused
Paused == ws.dark \/ ws.status = "PAUSED" \/ (ws.status = "PAST_DUE" /\ ~ws.ahead)

\* The workspace follows its subscription: once every event would be waved through
\* as seen, whatever was thrown or delivered twice at once, the row says what Stripe
\* says, a suspension aside, and who pays is not paused.  Not so if an event came
\* before what it is about was stored, or if an event or a sweep acted on something
\* that a newer event had changed.
FollowsStripe ==
  account # "none" /\ recorded = Emitted /\ ~missed /\ ~stale =>
    /\ ws.status = account \/ (account = "PAST_DUE" /\ ws.status = "PAUSED")
    /\ ws.complete /\ ~ws.dark
    /\ account \in {"TRIALING", "ACTIVE"} => ~Paused

\* Nobody is suspended out of the blue.  A row is PAUSED because Stripe said so, or
\* after a mail of dunning; and a run that is about to suspend comes after a mail
\* for the stage the clock has reached, or a later one (mails of an earlier failure
\* count: the clock and the audit rows are never reset).
SuspendedIsWarned ==
  /\ ws.status = "PAUSED" => \/ mailed \cap Stages # {}
                             \/ \E e \in applied : event[e] = Sync("PAUSED")
  /\ sweep["dunning"].act = "gate" =>
       \E s \in mailed \cap Stages : s >= sweep["dunning"].mail

\* A payment that failed and a signup nobody finished come to an end as long as the
\* workspace has an owner to write to: without one both sweeps pass it over.
AccountsResolve ==
  /\ owned /\ ws.status = "PAST_DUE" ~> ws.status # "PAST_DUE"
  /\ owned /\ ~ws.complete ~> ws.complete \/ ws.closing

-----------------------------------------------------------------------------
(* What makes these inductive (AccountProofs).                              *)

AppliedAreEmitted ==
  applied \subseteq Emitted /\ \A q \in Requests : request[q] \in Emitted \cup {None}

\* What is waved through as seen was applied, unless one came too early.
RecordedIsTaken == ~missed => recorded \subseteq applied

\* A sweep keeps to its mails, and only dunning suspends.
ActionsAreDue ==
  /\ sweep["dunning"] # NoAction =>
       sweep["dunning"].act \in {"mail", "log", "gate"} /\ sweep["dunning"].mail \in Stages
  /\ sweep["signup"].act # "gate"

\* What is logged was sent.
LoggedIsMailed ==
  /\ sent \subseteq mailed
  /\ \A p \in Sweeps : sweep[p].act = "log" => sweep[p].mail \in mailed

AfterLast(x) == CASE x.kind = "sync"     -> x.status
                  [] x.kind = "failed"   -> "PAST_DUE"
                  [] x.kind = "deleted"  -> "CANCELED"
                  [] x.kind = "checkout" -> "TRIALING"

\* Stripe numbers its events; the last one says how the account stands, and a paid
\* invoice is never the last.  Only a signup begins with a checkout.
EventsTell ==
  /\ \E n \in 0 .. MaxEvents : Emitted = 1 .. n
  /\ \A e \in Events : Emitted = 1 .. e =>
       event[e].kind # "paid" /\ account = AfterLast(event[e])
  /\ \A e \in Emitted : event[e].kind = "checkout" =>
       e = 3 /\ event[1] = Sync("TRIALING") /\ event[2].kind = "paid"
  /\ account = "none" => Emitted = {}

\* The row comes with the customer, and a sync completes the signup; a subscription
\* always begins with one.
RowComes ==
  /\ ws.complete => HasRow
  /\ HasRow => ws.known
  /\ \A e \in applied : event[e].kind # "checkout" => HasRow
  /\ \A e \in applied : event[e].kind = "sync" => ws.complete
  /\ ~ws.complete /\ account # "none" => \E e \in Emitted : event[e].kind = "sync"

\* What the row says once it has followed all the events up to e.
Follows(e) ==
  LET x == event[e]
  IN  /\ x.kind = "sync" => \/ ws.status = x.status
                            \/ x.status = "PAST_DUE" /\ ws.status = "PAUSED"
      /\ x.kind = "failed" => ws.status \in {"PAST_DUE", "PAUSED"}
      /\ x.kind = "deleted" => ws.status = "CANCELED"
      /\ x.kind = "checkout" => ws.status = "TRIALING"
      /\ x.kind = "paid" /\ e + 1 \in Emitted /\ event[e + 1].kind = "checkout" =>
           ws.status = "TRIALING"

RowFollows ==
  ~stale =>
    /\ applied = {} => /\ ws.status \in {"none", "TRIALING", "ACTIVE"}
                       /\ Emitted = {} => ws.status = account
    /\ \A e \in Events : applied = 1 .. e => Follows(e)
    /\ ws.complete => ~ws.dark

\* A sweep that has not fallen behind acts on a row as it found it.
FoundIsSo ==
  /\ sweep["dunning"].act = "gate" =>
       HasRow /\ (ws.status = "PAST_DUE" \/ "dunning" \in behind)
  /\ sweep["signup"].act = "deactivate" => ~ws.complete \/ "signup" \in behind

\* What mirrorInvoice makes of a status stays right until an event changes the row.
ReadIsSo ==
  \A q \in Requests : write[q] # "unread" =>
    LET failed == event[request[q]].kind = "failed"
    IN  /\ request[q] \in Emitted
        /\ write[q] \in {IF failed THEN "PAST_DUE" ELSE "ACTIVE", "keep"}
        /\ ~stale /\ q \notin behind =>
             /\ failed /\ write[q] = "keep" => ws.status \in {"PAST_DUE", "PAUSED"}
             /\ ~failed /\ write[q] = "keep" => ws.status \in {"TRIALING", "ACTIVE"}
             /\ ~failed /\ write[q] = "ACTIVE" => HasRow /\ ws.status # "TRIALING"

IInv == /\ TypeOK /\ AppliedAreEmitted /\ RecordedIsTaken /\ ActionsAreDue
        /\ LoggedIsMailed /\ EventsTell /\ RowComes /\ RowFollows /\ FoundIsSo
        /\ ReadIsSo /\ SuspendedIsWarned

-----------------------------------------------------------------------------
(* What a comment promises and the code does not keep.                      *)

\* "Once your card is updated we retry automatically - nothing else for you to do"
\* (dunning.ts:429): who has paid is served.
PaidIsServed == account = "ACTIVE" /\ applied = Emitted => ~Paused

\* "Your .. trial just started - no card needed yet" (app/actions.ts): who is on trial is
\* served, and not taken for an abandoned signup.
TrialIsServed ==
  account = "TRIALING" /\ HasRow /\ recorded = Emitted => ~Paused /\ ~ws.closing
=============================================================================
