--------------------------- MODULE AccountProofs -----------------------------
(***************************************************************************)
(* What holds of a workspace's account: of the row that mirrors its         *)
(* subscription (Billing), proved for every number of events, requests and  *)
(* crashes, and of the ways to close it (Closure), for every number of      *)
(* runs, payments and failures, and every cap.  The two share neither a     *)
(* variable nor a definition; what each is proved from is its own.          *)
(***************************************************************************)
EXTENDS Billing, Closure, TLAPS

-----------------------------------------------------------------------------
(* Billing.  First what an event is, and what Stripe adds to the events.     *)

LEMMA EventKinds ==
  ASSUME NEW x \in EventRows
  PROVE  /\ x # NoEvent
         /\ x.kind \in {"sync", "checkout", "failed", "paid", "deleted"}
         /\ x.kind = "sync" => x.status \in Statuses
<1>1. CASE x \in [kind : {"sync"}, status : Statuses]
  BY <1>1 DEF NoEvent
<1>2. CASE x \in [kind : {"checkout", "failed", "paid", "deleted"}]
  BY <1>2 DEF NoEvent
<1> QED
  BY <1>1, <1>2 DEF EventRows

\* Every event the actions of Stripe emit is one.
LEMMA RowsOfStripe ==
  /\ \A s \in Statuses : Sync(s) \in EventRows
  /\ \A k \in {"checkout", "failed", "paid", "deleted"} : [kind |-> k] \in EventRows
BY DEF Sync, EventRows

\* What is emitted comes after all there is, and leaves that as it was.
LEMMA EmitAppends ==
  ASSUME TypeOK, EventsTell, NEW es \in Seq(EventRows), es # <<>>, Emit(es)
  PROVE  /\ event' \in [Events -> EventRows \cup {NoEvent}]
         /\ \E n \in 0 .. MaxEvents :
              /\ n + Len(es) <= MaxEvents
              /\ Emitted = 1 .. n /\ Emitted' = 1 .. n + Len(es)
              /\ \A d \in 1 .. n : event'[d] = event[d]
              /\ \A i \in 1 .. Len(es) : event'[n + i] = es[i]
<1> USE BoundsAreNat
<1>1. PICK e \in Events :
        /\ e \notin Emitted /\ \A d \in Events : d < e => d \in Emitted
        /\ e + Len(es) - 1 \in Events
        /\ event' = [d \in Events |-> IF d \in e .. e + Len(es) - 1 THEN es[d - e + 1]
                                      ELSE event[d]]
  BY DEF Emit
<1>2. PICK n \in 0 .. MaxEvents : Emitted = 1 .. n
  BY DEF EventsTell
<1>3. Len(es) \in Nat /\ Len(es) > 0 /\ \A i \in 1 .. Len(es) : es[i] \in EventRows
  OBVIOUS
<1>4. e = n + 1
  <2>1. e \in Nat /\ n \in Nat /\ e > n
    BY <1>1, <1>2 DEF Events
  <2>2. ASSUME e > n + 1 PROVE FALSE
    <3>1. n + 1 \in Events
      BY <2>1, <2>2 DEF Events
    <3>2. n + 1 \in 1 .. n
      BY <1>1, <1>2, <2>1, <2>2, <3>1
    <3> QED
      BY <2>1, <3>2
  <2> QED
    BY <2>1, <2>2
<1>5. \A d \in 1 .. n : event'[d] = event[d]
  BY <1>1, <1>2, <1>3, <1>4 DEF Events
<1>6. \A i \in 1 .. Len(es) : event'[n + i] = es[i]
  <2> SUFFICES ASSUME NEW i \in 1 .. Len(es) PROVE event'[n + i] = es[i]
    OBVIOUS
  <2>1. n + i \in Events /\ n + i \in e .. e + Len(es) - 1 /\ (n + i) - e + 1 = i
    BY <1>1, <1>3, <1>4 DEF Events
  <2> QED
    BY <1>1, <2>1
<1>7. event' \in [Events -> EventRows \cup {NoEvent}]
  <2>1. ASSUME NEW d \in Events, d \in e .. e + Len(es) - 1
        PROVE  es[d - e + 1] \in EventRows
    <3>1. d - e + 1 \in 1 .. Len(es)
      BY <1>1, <1>3, <2>1 DEF Events
    <3> QED
      BY <1>3, <3>1
  <2>2. \A d \in Events : event[d] \in EventRows \cup {NoEvent}
    BY DEF TypeOK
  <2> QED
    BY <1>1, <2>1, <2>2
<1>8. Emitted' = 1 .. n + Len(es)
  <2>1. ASSUME NEW d \in Events PROVE event'[d] # NoEvent <=> d \in 1 .. n + Len(es)
    <3>1. CASE d \in 1 .. n
      BY <1>2, <1>3, <1>5, <3>1 DEF Emitted
    <3>2. CASE d \in n + 1 .. n + Len(es)
      <4>1. d - n \in 1 .. Len(es) /\ n + (d - n) = d
        BY <1>3, <3>2 DEF Events
      <4>2. event'[d] \in EventRows
        BY <1>3, <1>6, <4>1
      <4> QED
        BY <1>3, <3>2, <4>2, EventKinds
    <3>3. CASE d > n + Len(es)
      <4>1. d \notin e .. e + Len(es) - 1 /\ d \notin 1 .. n
        BY <1>3, <1>4, <3>3 DEF Events
      <4>2. event'[d] = event[d]
        BY <1>1, <4>1
      <4> QED
        BY <1>2, <1>3, <3>3, <4>1, <4>2 DEF Emitted, Events
    <3> QED
      BY <1>3, <3>1, <3>2, <3>3 DEF Events
  <2>2. 1 .. n + Len(es) \subseteq Events
    BY <1>1, <1>3, <1>4 DEF Events
  <2> QED
    BY <2>1, <2>2 DEF Emitted
<1>9. n + Len(es) <= MaxEvents
  BY <1>1, <1>3, <1>4 DEF Events
<1> QED
  BY <1>2, <1>5, <1>6, <1>7, <1>8, <1>9

\* What each action of Stripe comes to.
LEMMA StripeSteps ==
  ASSUME TypeOK, EventsTell, Stripe
  PROVE  \E es \in Seq(EventRows), status \in Statuses :
           /\ es # <<>> /\ AtStripe(status, es)
           /\ AfterLast(es[Len(es)]) = status /\ es[Len(es)].kind # "paid"
           /\ \/ \A i \in 1 .. Len(es) : es[i].kind # "checkout"
              \/ /\ account = "none"
                 /\ es = <<Sync("TRIALING"), [kind |-> "paid"], [kind |-> "checkout"]>>
           /\ account = "none" => \E i \in 1 .. Len(es) : es[i].kind = "sync"
<1> USE RowsOfStripe DEF Statuses
<1>1. CASE Checkout
  <2> DEFINE es == <<Sync("TRIALING"), [kind |-> "paid"], [kind |-> "checkout"]>>
  <2>1. es \in Seq(EventRows) /\ es # <<>> /\ Len(es) = 3 /\ es[3] = [kind |-> "checkout"]
    OBVIOUS
  <2>2. AtStripe("TRIALING", es) /\ account = "none"
    BY <1>1 DEF Checkout
  <2>3. AfterLast(es[Len(es)]) = "TRIALING" /\ es[Len(es)].kind # "paid"
    BY <2>1 DEF AfterLast
  <2>4. es[1].kind = "sync"
    BY DEF Sync
  <2> HIDE DEF es
  <2>5. es = <<Sync("TRIALING"), [kind |-> "paid"], [kind |-> "checkout"]>>
    BY DEF es
  <2>6. \E i \in 1 .. Len(es) : es[i].kind = "sync"
    BY <2>1, <2>4
  <2> QED
    BY <2>1, <2>2, <2>3, <2>5, <2>6
<1>2. CASE ChargeFails
  <2> DEFINE es == <<[kind |-> "failed"], Sync("PAST_DUE")>>
  <2>1. /\ es \in Seq(EventRows) /\ es # <<>> /\ Len(es) = 2
        /\ es[1] = [kind |-> "failed"] /\ es[2] = [kind |-> "sync", status |-> "PAST_DUE"]
    BY DEF Sync
  <2>2. AtStripe("PAST_DUE", es) /\ account # "none"
    BY <1>2 DEF ChargeFails
  <2> HIDE DEF es
  <2>3. \A i \in 1 .. Len(es) : es[i].kind # "checkout"
    BY <2>1
  <2> QED
    BY <2>1, <2>2, <2>3 DEF AfterLast
<1>3. CASE RetryFails
  <2> DEFINE es == <<[kind |-> "failed"]>>
  <2>1. /\ es \in Seq(EventRows) /\ es # <<>> /\ Len(es) = 1
        /\ es[1] = [kind |-> "failed"]
    OBVIOUS
  <2>2. AtStripe("PAST_DUE", es) /\ account # "none"
    BY <1>3 DEF RetryFails
  <2> HIDE DEF es
  <2> QED
    BY <2>1, <2>2 DEF AfterLast
<1>4. CASE ChargeSucceeds
  <2> DEFINE es == <<[kind |-> "paid"], Sync("ACTIVE")>>
  <2>1. /\ es \in Seq(EventRows) /\ es # <<>> /\ Len(es) = 2
        /\ es[1] = [kind |-> "paid"] /\ es[2] = [kind |-> "sync", status |-> "ACTIVE"]
    BY DEF Sync
  <2>2. AtStripe("ACTIVE", es) /\ account # "none"
    BY <1>4 DEF ChargeSucceeds
  <2> HIDE DEF es
  <2>3. \A i \in 1 .. Len(es) : es[i].kind # "checkout"
    BY <2>1
  <2> QED
    BY <2>1, <2>2, <2>3 DEF AfterLast
<1>5. CASE Cancel
  <2> DEFINE es == <<[kind |-> "deleted"]>>
  <2>1. /\ es \in Seq(EventRows) /\ es # <<>> /\ Len(es) = 1
        /\ es[1] = [kind |-> "deleted"]
    OBVIOUS
  <2>2. AtStripe("CANCELED", es) /\ account # "none"
    BY <1>5 DEF Cancel
  <2> HIDE DEF es
  <2> QED
    BY <2>1, <2>2 DEF AfterLast
<1>6. CASE CreateTrial
  <2> DEFINE es == <<[kind |-> "paid"], Sync("TRIALING")>>
  <2>1. /\ es \in Seq(EventRows) /\ es # <<>> /\ Len(es) = 2
        /\ es[1] = [kind |-> "paid"] /\ es[2] = [kind |-> "sync", status |-> "TRIALING"]
    BY DEF Sync
  <2>2. AtStripe("TRIALING", es)
    BY <1>6 DEF CreateTrial
  <2> HIDE DEF es
  <2>3. \A i \in 1 .. Len(es) : es[i].kind # "checkout"
    BY <2>1
  <2>4. \E i \in 1 .. Len(es) : es[i].kind = "sync"
    BY <2>1
  <2>5. es[Len(es)].kind # "paid" /\ AfterLast(es[Len(es)]) = "TRIALING"
    BY <2>1 DEF AfterLast
  <2> QED
    BY <2>1, <2>2, <2>3, <2>4, <2>5
<1>7. CASE TrialPauses
  <2> DEFINE es == <<Sync("PAUSED")>>
  <2>1. /\ es \in Seq(EventRows) /\ es # <<>> /\ Len(es) = 1
        /\ es[1] = [kind |-> "sync", status |-> "PAUSED"]
    BY DEF Sync
  <2>2. AtStripe("PAUSED", es) /\ account # "none"
    BY <1>7 DEF TrialPauses
  <2> HIDE DEF es
  <2> QED
    BY <2>1, <2>2 DEF AfterLast
<1>8. CASE RetriesEnd
  <2> DEFINE es == <<Sync("UNPAID")>>
  <2>1. /\ es \in Seq(EventRows) /\ es # <<>> /\ Len(es) = 1
        /\ es[1] = [kind |-> "sync", status |-> "UNPAID"]
    BY DEF Sync
  <2>2. AtStripe("UNPAID", es) /\ account # "none"
    BY <1>8 DEF RetriesEnd
  <2> HIDE DEF es
  <2> QED
    BY <2>1, <2>2 DEF AfterLast
<1> QED
  BY <1>1, <1>2, <1>3, <1>4, <1>5, <1>6, <1>7, <1>8 DEF Stripe

\* Stripe keeps to itself.
LEMMA StripeKeeps ==
  Stripe => UNCHANGED <<recorded, applied, missed, request, write, ws, owned, clock, sent,
                        mailed, sweep, behind, stale, crashes>>
BY DEF Stripe, Checkout, CreateTrial, TrialPauses, ChargeFails, RetryFails, RetriesEnd,
       ChargeSucceeds, Cancel, AtStripe

LEMMA EmittedRows ==
  ASSUME TypeOK, NEW e \in Emitted
  PROVE  e \in Events /\ event[e] \in EventRows
BY DEF TypeOK, Emitted

LEMMA BillingTypeStep == TypeOK /\ AppliedAreEmitted /\ EventsTell /\ [Next]_vars => TypeOK'
<1> SUFFICES ASSUME TypeOK, AppliedAreEmitted, EventsTell, [Next]_vars PROVE TypeOK'
  OBVIOUS
<1> USE BoundsAreNat
<1>1. CASE UNCHANGED vars
  BY <1>1 DEF vars, TypeOK
<1>2. CASE Stripe
  <2>1. PICK es \in Seq(EventRows), status \in Statuses : es # <<>> /\ AtStripe(status, es)
    BY <1>2, StripeSteps
  <2>2. event' \in [Events -> EventRows \cup {NoEvent}]
    BY <2>1, EmitAppends DEF AtStripe
  <2> QED
    BY <2>1, <2>2 DEF AtStripe, TypeOK
<1>3. CASE PeriodEnds
  <2>1. ws' \in Workspace
    BY <1>3 DEF PeriodEnds, TypeOK, Workspace
  <2> QED
    BY <1>3, <2>1 DEF PeriodEnds, TypeOK
<1>4. CASE SignupAges \/ FailureAges
  <2>1. clock' \in Clocks
    BY <1>4 DEF SignupAges, FailureAges, TypeOK, Clocks, FAIL, D7, D14
  <2> QED
    BY <1>4, <2>1 DEF SignupAges, FailureAges, TypeOK
<1>5. ASSUME NEW q \in Requests, NEW e \in Events, Receive(q, e) PROVE TypeOK'
  BY <1>5 DEF Receive, TypeOK
<1>6. ASSUME NEW q \in Requests, End(q)
      PROVE  /\ request' \in [Requests -> Events \cup {None}]
             /\ write' \in [Requests -> Statuses \cup {"keep", "unread"}]
  BY <1>6 DEF End, TypeOK
<1>14. ASSUME NEW q \in Requests, DispatchFails(q) PROVE TypeOK'
  BY <1>6, <1>14 DEF DispatchFails, TypeOK
<1>15. ASSUME NEW q \in Requests, Miss(q) PROVE TypeOK'
  <2>1. recorded' \in SUBSET Events
    BY <1>15 DEF Miss, End, TypeOK
  <2> QED
    BY <1>6, <1>15, <2>1 DEF Miss, TypeOK
<1>16. ASSUME NEW q \in Requests, ReadStatus(q) PROVE TypeOK'
  <2>1. NextStatus(event[request[q]]) \in Statuses
    BY DEF NextStatus, Statuses
  <2>2. write' \in [Requests -> Statuses \cup {"keep", "unread"}]
    BY <1>16, <2>1 DEF ReadStatus, TypeOK
  <2> QED
    BY <1>16, <2>2 DEF ReadStatus, TypeOK
<1>17. CASE Persist
  <2>1. ws' \in Workspace
    BY <1>17 DEF Persist, TypeOK, Workspace, Statuses
  <2> QED
    BY <1>17, <2>1 DEF Persist, TypeOK
<1>7. ASSUME NEW q \in Requests, Dispatch(q) PROVE TypeOK'
  <2>1. request[q] \in Events /\ event[request[q]] \in EventRows
    BY <1>7, EmittedRows DEF Dispatch, End, AppliedAreEmitted
  <2>2. ws' \in Workspace
    <3>1. write[q] \in Statuses \cup {"keep", "unread"} /\ ws \in Workspace
      BY DEF TypeOK
    <3>2. ASSUME NEW t \in Statuses PROVE [ws EXCEPT !.status = t] \in Workspace
      BY <3>1 DEF Workspace
    <3>3. ASSUME NEW t \in Statuses, SyncSubscription(t) PROVE ws' \in Workspace
      BY <3>1, <3>3 DEF SyncSubscription, Workspace
    <3> QED
      BY <1>7, <2>1, <3>1, <3>2, <3>3, EventKinds DEF Dispatch, SetStatus, Statuses
  <2>3. clock' \in Clocks
    BY <1>7 DEF Dispatch, StartClock, TypeOK, Clocks, FAIL, D14
  <2>4. recorded' \in SUBSET Events /\ applied' \in SUBSET Events
    BY <1>7, <2>1 DEF Dispatch, TypeOK
  <2>5. /\ request' \in [Requests -> Events \cup {None}]
        /\ write' \in [Requests -> Statuses \cup {"keep", "unread"}]
    BY <1>6, <1>7 DEF Dispatch
  <2>6. stale' \in BOOLEAN /\ behind' \in SUBSET (Sweeps \cup Requests)
    BY <1>7 DEF Dispatch, TypeOK
  <2> QED
    BY <1>7, <2>2, <2>3, <2>4, <2>5, <2>6 DEF Dispatch, TypeOK
<1>8. ASSUME NEW p \in Sweeps, Find(p) PROVE TypeOK'
  <2>1. Reached \in Mails
    BY DEF Reached, TypeOK, Clocks, Mails, Nudge, FAIL, D14
  <2>2. DunningAction \in Actions \cup {NoAction}
    BY <2>1 DEF DunningAction, Action, Actions, Acts
  <2>3. clock.signup \in 0 .. 3 /\ Nudge \in Mails
    BY DEF TypeOK, Clocks, Mails, Nudge, D14
  <2>4. SignupAction \in Actions \cup {NoAction}
    BY <2>3 DEF SignupAction, Action, Actions, Acts
  <2>5. sweep' \in [Sweeps -> Actions \cup {NoAction}] /\ behind' \in SUBSET (Sweeps \cup Requests)
    BY <1>8, <2>2, <2>4 DEF Find, TypeOK
  <2> QED
    BY <1>8, <2>5 DEF Find, TypeOK
<1>9. ASSUME NEW p \in Sweeps, sweep[p].act \in Acts PROVE sweep[p] \in Actions
  BY <1>9 DEF TypeOK, Acts, NoAction
<1>10. ASSUME NEW p \in Sweeps, SendMail(p) PROVE TypeOK'
  <2>1. sweep[p] \in Actions
    BY <1>9, <1>10 DEF SendMail, Acts
  <2>2. [sweep[p] EXCEPT !.act = "log"] \in Actions
    BY <2>1 DEF Actions, Acts
  <2>3. sweep' \in [Sweeps -> Actions \cup {NoAction}]
    BY <1>10, <2>2 DEF SendMail, TypeOK
  <2>4. mailed' \in SUBSET Mails
    BY <1>10, <2>1 DEF SendMail, TypeOK, Actions
  <2> QED
    BY <1>10, <2>3, <2>4 DEF SendMail, TypeOK
<1>11. ASSUME NEW p \in Sweeps, LogMail(p) PROVE TypeOK'
  <2>1. sweep[p] \in Actions
    BY <1>9, <1>11 DEF LogMail, Acts
  <2> QED
    BY <1>11, <2>1 DEF LogMail, TypeOK, Actions
<1>12. ASSUME NEW p \in Sweeps, Act(p) PROVE TypeOK'
  <2>1. ws' \in Workspace
    BY <1>12 DEF Act, TypeOK, Workspace, Statuses
  <2>2. sweep' \in [Sweeps -> Actions \cup {NoAction}] /\ stale' \in BOOLEAN
    BY <1>12 DEF Act, TypeOK
  <2> QED
    BY <1>12, <2>1, <2>2 DEF Act, TypeOK
<1>13. ASSUME NEW p \in Sweeps, Crash(p) PROVE TypeOK'
  <2>1. crashes' \in 0 .. MaxCrashes
    BY <1>13 DEF Crash, TypeOK
  <2> QED
    BY <1>13, <2>1 DEF Crash, TypeOK
<1> QED
  BY <1>1, <1>2, <1>3, <1>4, <1>5, <1>7, <1>8, <1>10, <1>11, <1>12, <1>13, <1>14, <1>15,
     <1>16, <1>17 DEF Next, Time, Handle, Step

\* Nothing else emits, or moves the account.
LEMMA AccountStays ==
  ASSUME [Next]_vars, ~Stripe
  PROVE  UNCHANGED <<account, event>> /\ Emitted' = Emitted
<1>1. UNCHANGED <<account, event>>
  BY DEF Next, Time, PeriodEnds, SignupAges, FailureAges, Persist, Handle, Receive, Miss,
         ReadStatus, Dispatch, DispatchFails, Step, Find, SendMail, LogMail, Act, Crash, vars
<1> QED
  BY <1>1 DEF Emitted

\* What was emitted stays so.
LEMMA EmittedStays ==
  ASSUME TypeOK, EventsTell, [Next]_vars, NEW e \in Emitted
  PROVE  e \in Emitted' /\ event'[e] = event[e]
<1>1. CASE Stripe
  <2>1. PICK es \in Seq(EventRows), status \in Statuses : es # <<>> /\ AtStripe(status, es)
    BY <1>1, StripeSteps
  <2>2. PICK n \in 0 .. MaxEvents :
          /\ Emitted = 1 .. n /\ Emitted' = 1 .. n + Len(es)
          /\ \A d \in 1 .. n : event'[d] = event[d]
    BY <2>1, EmitAppends DEF AtStripe
  <2>3. Len(es) \in Nat /\ n \in Nat
    BY BoundsAreNat
  <2> QED
    BY <2>2, <2>3
<1> QED
  BY <1>1, AccountStays

LEMMA TellStep == TypeOK /\ EventsTell /\ [Next]_vars => EventsTell'
<1> SUFFICES ASSUME TypeOK, EventsTell, [Next]_vars PROVE EventsTell'
  OBVIOUS
<1> USE BoundsAreNat
<1>1. CASE ~Stripe
  <2>1. UNCHANGED <<account, event>> /\ Emitted' = Emitted
    BY <1>1, AccountStays
  <2> QED
    BY <2>1 DEF EventsTell, AfterLast
<1>2. CASE Stripe
  <2>1. PICK es \in Seq(EventRows), status \in Statuses :
          /\ es # <<>> /\ AtStripe(status, es)
          /\ AfterLast(es[Len(es)]) = status /\ es[Len(es)].kind # "paid"
          /\ \/ \A i \in 1 .. Len(es) : es[i].kind # "checkout"
             \/ /\ account = "none"
                /\ es = <<Sync("TRIALING"), [kind |-> "paid"], [kind |-> "checkout"]>>
    BY <1>2, StripeSteps
  <2>2. PICK n \in 0 .. MaxEvents :
          /\ n + Len(es) <= MaxEvents
          /\ Emitted = 1 .. n /\ Emitted' = 1 .. n + Len(es)
          /\ \A d \in 1 .. n : event'[d] = event[d]
          /\ \A i \in 1 .. Len(es) : event'[n + i] = es[i]
    BY <2>1, EmitAppends DEF AtStripe
  <2>3. Len(es) \in Nat \ {0} /\ n \in Nat /\ account' = status /\ status # "none"
    BY <2>1 DEF AtStripe, Statuses
  <2>4. \E k \in 0 .. MaxEvents : Emitted' = 1 .. k
    BY <2>2, <2>3
  <2>5. ASSUME NEW e \in Events, Emitted' = 1 .. e
        PROVE  event'[e].kind # "paid" /\ account' = AfterLast(event'[e])
    <3>1. e = n + Len(es)
      <4>1. e \in 1 .. n + Len(es) /\ n + Len(es) \in 1 .. e
        BY <2>2, <2>3, <2>5 DEF Events
      <4> QED
        BY <2>3, <4>1
    <3>2. event'[e] = es[Len(es)]
      BY <2>2, <2>3, <3>1
    <3> QED
      BY <2>1, <2>3, <3>2
  <2>6. ASSUME NEW e \in Emitted', event'[e].kind = "checkout"
        PROVE  e = 3 /\ event'[1] = Sync("TRIALING") /\ event'[2].kind = "paid"
    <3>1. CASE e \in 1 .. n
      <4>1. e = 3 /\ event[1] = Sync("TRIALING") /\ event[2].kind = "paid"
        BY <2>2, <2>6, <3>1 DEF EventsTell
      <4>2. 1 \in 1 .. n /\ 2 \in 1 .. n
        BY <2>3, <3>1, <4>1
      <4> QED
        BY <2>2, <4>1, <4>2
    <3>2. CASE e \notin 1 .. n
      <4>1. e - n \in 1 .. Len(es) /\ n + (e - n) = e
        BY <2>2, <2>3, <2>6, <3>2
      <4>2. event'[e] = es[e - n]
        BY <2>2, <4>1
      <4>3. es[e - n].kind = "checkout"
        BY <2>6, <4>2
      <4>9. account = "none"
        BY <2>1, <4>1, <4>3
      <4>4. n = 0
        <5>1. Emitted = {}
          BY <4>9 DEF EventsTell
        <5> QED
          BY <2>2, <2>3, <5>1
      <4>5. es = <<Sync("TRIALING"), [kind |-> "paid"], [kind |-> "checkout"]>>
        BY <2>1, <4>1, <4>3
      <4>6. Len(es) = 3 /\ es[1] = Sync("TRIALING") /\ es[2].kind = "paid"
        BY <4>5
      <4>7. event'[1] = Sync("TRIALING") /\ event'[2].kind = "paid"
        BY <2>2, <4>4, <4>6
      <4>8. e = 1 \/ e = 2 \/ e = 3
        BY <4>1, <4>4, <4>6
      <4> QED
        BY <2>6, <4>7, <4>8 DEF Sync
    <3> QED
      BY <3>1, <3>2
  <2> QED
    BY <2>3, <2>4, <2>5, <2>6 DEF EventsTell
<1> QED
  BY <1>1, <1>2

LEMMA AppliedStep ==
  TypeOK /\ EventsTell /\ AppliedAreEmitted /\ [Next]_vars => AppliedAreEmitted'
<1> SUFFICES ASSUME TypeOK, EventsTell, AppliedAreEmitted, [Next]_vars
             PROVE  AppliedAreEmitted'
  OBVIOUS
<1>1. Emitted \subseteq Emitted'
  BY EmittedStays
<1>2. ASSUME NEW q \in Requests, NEW e \in Events, Receive(q, e) PROVE AppliedAreEmitted'
  BY <1>1, <1>2 DEF Receive, AppliedAreEmitted, TypeOK
<1>3. ASSUME NEW q \in Requests, Dispatch(q) \/ DispatchFails(q) \/ Miss(q)
      PROVE  AppliedAreEmitted'
  BY <1>1, <1>3 DEF Dispatch, DispatchFails, Miss, End, AppliedAreEmitted, TypeOK
<1>4. CASE Stripe
  BY <1>1, <1>4, StripeKeeps DEF AppliedAreEmitted
<1>5. CASE Time \/ Persist \/ UNCHANGED vars \/ \E p \in Sweeps : Step(p) \/ Crash(p)
  BY <1>1, <1>5 DEF Time, PeriodEnds, SignupAges, FailureAges, Persist, Step, Find, SendMail,
                    LogMail, Act, Crash, vars, AppliedAreEmitted
<1>6. ASSUME NEW q \in Requests, ReadStatus(q) PROVE AppliedAreEmitted'
  BY <1>1, <1>6 DEF ReadStatus, AppliedAreEmitted
<1> QED
  BY <1>2, <1>3, <1>4, <1>5, <1>6 DEF Next, Handle

LEMMA RecordedStep == RecordedIsTaken /\ [Next]_vars => RecordedIsTaken'
<1> SUFFICES ASSUME RecordedIsTaken, [Next]_vars PROVE RecordedIsTaken'
  OBVIOUS
<1>1. CASE UNCHANGED <<recorded, applied, missed>>
  BY <1>1 DEF RecordedIsTaken
<1>2. ASSUME NEW q \in Requests, Dispatch(q) \/ Miss(q) PROVE RecordedIsTaken'
  BY <1>2 DEF Dispatch, Miss, RecordedIsTaken
<1> QED
  BY <1>1, <1>2, StripeKeeps
     DEF Next, Time, PeriodEnds, SignupAges, FailureAges, Persist, Handle, Receive,
         ReadStatus, DispatchFails, Step, Find, SendMail, LogMail, Act, Crash, vars

\* What a run of dunning is about to do once it has read the row.
LEMMA DunningFinds ==
  ASSUME TypeOK, Find("dunning")
  PROVE  /\ sweep' = [sweep EXCEPT !["dunning"] = DunningAction]
         /\ DunningAction.act \in {"mail", "gate"} /\ DunningAction.mail = Reached
         /\ Reached \in Stages
         /\ ws.status = "PAST_DUE"
         /\ DunningAction.act = "gate" => Covered(Reached)
<1>1. Reached \in Stages
  BY DEF Reached, TypeOK, Clocks, Stages, FAIL, D14
<1>2. DunningAction # NoAction /\ sweep' = [sweep EXCEPT !["dunning"] = DunningAction]
  BY DEF Find
<1> QED
  BY <1>1, <1>2 DEF DunningAction, Action

\* What a run of the signup sweep is about to do.
LEMMA SignupFinds ==
  ASSUME TypeOK, Find("signup")
  PROVE  /\ sweep' = [sweep EXCEPT !["signup"] = SignupAction]
         /\ SignupAction.act \in {"mail", "deactivate", "archive"}
         /\ ~ws.complete
<1>1. SignupAction # NoAction /\ sweep' = [sweep EXCEPT !["signup"] = SignupAction]
  BY DEF Find
<1>2. clock.signup \in 0 .. 3
  BY DEF TypeOK, Clocks
<1> QED
  BY <1>1, <1>2 DEF SignupAction, Action

\* A sweep is where it was unless it steps itself.
LEMMA SweepMoves ==
  ASSUME TypeOK, [Next]_vars, NEW p \in Sweeps
  PROVE  \/ sweep'[p] = sweep[p]
         \/ sweep'[p] = NoAction
         \/ Find(p)
         \/ SendMail(p) /\ sweep[p] \in Actions /\ sweep'[p] = [sweep[p] EXCEPT !.act = "log"]
<1>1. CASE UNCHANGED sweep
  BY <1>1
<1>2. CASE Stripe
  BY <1>2, StripeKeeps
<1>3. CASE Time \/ Persist
  BY <1>3 DEF Time, PeriodEnds, SignupAges, FailureAges, Persist
<1>4. ASSUME NEW q \in Requests, Handle(q)
      PROVE  UNCHANGED sweep
  BY <1>4 DEF Handle, Miss, ReadStatus, Dispatch, DispatchFails, Receive
<1>5. ASSUME NEW r \in Sweeps, r # p, Step(r) \/ Crash(r) PROVE sweep'[p] = sweep[p]
  BY <1>5 DEF Step, Find, SendMail, LogMail, Act, Crash, TypeOK
<1>6. CASE LogMail(p) \/ Act(p) \/ Crash(p)
  BY <1>6 DEF LogMail, Act, Crash, TypeOK
<1>7. CASE SendMail(p)
  <2>1. sweep[p] \in Actions
    BY <1>7 DEF SendMail, TypeOK, NoAction
  <2> QED
    BY <1>7, <2>1 DEF SendMail, TypeOK
<1>8. CASE UNCHANGED vars
  BY <1>8 DEF vars
<1> QED
  BY <1>1, <1>2, <1>3, <1>4, <1>5, <1>6, <1>7, <1>8 DEF Next, Step

LEMMA ActionsStep == TypeOK /\ ActionsAreDue /\ [Next]_vars => ActionsAreDue'
<1> SUFFICES ASSUME TypeOK, ActionsAreDue, [Next]_vars PROVE ActionsAreDue'
  OBVIOUS
<1>0. "dunning" \in Sweeps /\ "signup" \in Sweeps
  BY DEF Sweeps
<1>1. sweep'["dunning"] # NoAction =>
        sweep'["dunning"].act \in {"mail", "log", "gate"} /\ sweep'["dunning"].mail \in Stages
  <2>1. CASE Find("dunning")
    <3>1. sweep'["dunning"] = DunningAction
      BY <1>0, <2>1, DunningFinds DEF TypeOK
    <3> QED
      BY <2>1, <3>1, DunningFinds
  <2>2. CASE /\ SendMail("dunning") /\ sweep["dunning"] \in Actions
             /\ sweep'["dunning"] = [sweep["dunning"] EXCEPT !.act = "log"]
    <3>1. sweep["dunning"] # NoAction
      BY <2>2 DEF SendMail, NoAction
    <3> QED
      BY <2>2, <3>1 DEF ActionsAreDue, Actions
  <2> QED
    BY <1>0, <2>1, <2>2, SweepMoves DEF ActionsAreDue
<1>2. sweep'["signup"].act # "gate"
  <2>1. CASE Find("signup")
    <3>1. sweep'["signup"] = SignupAction
      BY <1>0, <2>1, SignupFinds DEF TypeOK
    <3> QED
      BY <2>1, <3>1, SignupFinds
  <2>2. CASE /\ SendMail("signup") /\ sweep["signup"] \in Actions
             /\ sweep'["signup"] = [sweep["signup"] EXCEPT !.act = "log"]
    BY <2>2 DEF Actions
  <2> QED
    BY <1>0, <2>1, <2>2, SweepMoves DEF ActionsAreDue, NoAction
<1> QED
  BY <1>1, <1>2 DEF ActionsAreDue

\* Mails are not taken back.
LEMMA MailedStays == [Next]_vars => mailed \subseteq mailed'
BY StripeKeeps
   DEF Next, Time, PeriodEnds, SignupAges, FailureAges, Persist, Handle, Receive, Miss,
       ReadStatus, Dispatch, DispatchFails, Step, Find, SendMail, LogMail, Act, Crash, vars

LEMMA LoggedStep == TypeOK /\ LoggedIsMailed /\ [Next]_vars => LoggedIsMailed'
<1> SUFFICES ASSUME TypeOK, LoggedIsMailed, [Next]_vars PROVE LoggedIsMailed'
  OBVIOUS
<1>1. sent' \subseteq mailed'
  <2>1. ASSUME NEW p \in Sweeps, LogMail(p) PROVE sent' \subseteq mailed'
    BY <2>1 DEF LogMail, LoggedIsMailed
  <2>2. CASE UNCHANGED sent
    BY <2>2, MailedStays DEF LoggedIsMailed
  <2> QED
    BY <2>1, <2>2, StripeKeeps
       DEF Next, Time, PeriodEnds, SignupAges, FailureAges, Persist, Handle, Receive, Miss,
           ReadStatus, Dispatch, DispatchFails, Step, Find, SendMail, Act, Crash, vars
<1>2. ASSUME NEW p \in Sweeps, sweep'[p].act = "log" PROVE sweep'[p].mail \in mailed'
  <2>1. CASE sweep'[p] = sweep[p]
    BY <1>2, <2>1, MailedStays DEF LoggedIsMailed
  <2>2. CASE /\ SendMail(p) /\ sweep[p] \in Actions
             /\ sweep'[p] = [sweep[p] EXCEPT !.act = "log"]
    BY <2>2 DEF SendMail, Actions
  <2>3. sweep'[p] # NoAction
    BY <1>2 DEF NoAction
  <2>4. ~Find(p)
    <3>1. ASSUME Find("dunning"), p = "dunning" PROVE FALSE
      <4>1. sweep'[p] = DunningAction
        BY <3>1, DunningFinds DEF TypeOK
      <4> QED
        BY <1>2, <3>1, <4>1, DunningFinds
    <3>2. ASSUME Find("signup"), p = "signup" PROVE FALSE
      <4>1. sweep'[p] = SignupAction
        BY <3>2, SignupFinds DEF TypeOK
      <4> QED
        BY <1>2, <3>2, <4>1, SignupFinds
    <3> QED
      BY <3>1, <3>2 DEF Sweeps
  <2> QED
    BY <2>1, <2>2, <2>3, <2>4, SweepMoves
<1> QED
  BY <1>1, <1>2 DEF LoggedIsMailed

\* What the row says changes with an event, with a sweep's action, or when it is
\* stored at the end of a signup.
RowStays == /\ ws'.status = ws.status /\ ws'.complete = ws.complete /\ ws'.dark = ws.dark
            /\ ws'.known = ws.known
            /\ UNCHANGED <<applied, stale>>

LEMMA RowMoves ==
  ASSUME TypeOK, [Next]_vars
  PROVE  RowStays \/ Persist \/ (\E q \in Requests : Dispatch(q)) \/ \E p \in Sweeps : Act(p)
<1>1. CASE UNCHANGED <<ws, applied, stale>>
  BY <1>1 DEF RowStays
<1>2. CASE PeriodEnds
  BY <1>2 DEF PeriodEnds, RowStays, TypeOK, Workspace
<1> QED
  BY <1>1, <1>2, StripeKeeps
     DEF Next, Time, SignupAges, FailureAges, Handle, Receive, Miss, ReadStatus,
         DispatchFails, Step, Find, SendMail, LogMail, Crash, vars

\* A signup is stored only once Stripe has answered, and where there was no row.
LEMMA Persists ==
  ASSUME TypeOK, RowComes, Persist
  PROVE  /\ account # "none" /\ ~HasRow /\ ~ws.complete
         /\ ws'.status = "TRIALING" /\ ws'.known
         /\ ws'.complete = ws.complete /\ ws'.dark = ws.dark
         /\ UNCHANGED <<account, event, applied, request, write, mailed, sweep, behind, stale>>
BY DEF Persist, RowComes, TypeOK, Workspace

\* What the dispatch of an event does to the row, by its kind.
LEMMA Mirrors ==
  ASSUME TypeOK, AppliedAreEmitted, ReadIsSo, NEW q \in Requests, Dispatch(q),
         NEW x, x = event[request[q]]
  PROVE  /\ request[q] \in Emitted /\ x \in EventRows
         /\ ws.known /\ ws'.known
         /\ x.kind = "sync" => ws'.status = x.status /\ ws'.complete /\ ~ws'.dark
         /\ x.kind # "sync" => ws'.complete = ws.complete /\ ws'.dark = ws.dark
         /\ x.kind \in {"failed", "paid", "deleted"} => HasRow
         /\ x.kind = "failed" =>
              ws'.status = "PAST_DUE" \/ (write[q] = "keep" /\ ws'.status = ws.status)
         /\ x.kind = "paid" =>
              \/ write[q] = "ACTIVE" /\ ws'.status = "ACTIVE"
              \/ write[q] = "keep" /\ ws'.status = ws.status
         /\ x.kind = "deleted" => ws'.status = "CANCELED"
         /\ x.kind = "checkout" => ws' = ws
<1>1. request[q] \in Emitted /\ x \in EventRows
  BY EmittedRows DEF Dispatch, End, AppliedAreEmitted
<1>2. x.kind = "sync" => SyncSubscription(x.status)
  BY DEF Dispatch
<1>3. x.kind = "sync" =>
        ws'.status = x.status /\ ws'.complete /\ ~ws'.dark /\ ws'.known = ws.known
  BY <1>2 DEF SyncSubscription, TypeOK, Workspace
<1>4. x.kind # "sync" => \E t \in {"CANCELED", write[q]} : SetStatus(t) \/ ws' = ws
  BY DEF Dispatch
<1>5. x.kind # "sync" =>
        ws'.complete = ws.complete /\ ws'.dark = ws.dark /\ ws'.known = ws.known
  BY <1>4 DEF SetStatus, TypeOK, Workspace
<1>6. x.kind \in {"failed", "paid"} => SetStatus(write[q]) /\ write[q] # "unread"
  BY DEF Dispatch
<1>7. /\ x.kind = "failed" => write[q] \in {"PAST_DUE", "keep"}
      /\ x.kind = "paid" => write[q] \in {"ACTIVE", "keep"}
  BY <1>6 DEF ReadIsSo
<1>8. ASSUME NEW t, SetStatus(t)
      PROVE  ws'.status = IF t = "keep" THEN ws.status ELSE t
  BY <1>8 DEF SetStatus, TypeOK, Workspace
<1>9. /\ x.kind = "deleted" => ws'.status = "CANCELED"
      /\ x.kind = "checkout" => ws' = ws
  BY <1>8 DEF Dispatch
<1>10. ws.known /\ (x.kind \in {"failed", "paid", "deleted"} => HasRow)
  BY DEF Dispatch, Finds
<1> QED
  BY <1>1, <1>3, <1>5, <1>6, <1>7, <1>8, <1>9, <1>10, EventKinds

\* An event that is not Stripe's own pause takes no row for suspended.
LEMMA EventsDoNotSuspend ==
  ASSUME TypeOK, AppliedAreEmitted, ReadIsSo, NEW q \in Requests, Dispatch(q),
         ws.status # "PAUSED", event[request[q]] # Sync("PAUSED")
  PROVE  ws'.status # "PAUSED"
<1> DEFINE x == event[request[q]]
<1> HIDE DEF x
<1>1. x = event[request[q]]
  BY DEF x
<1>2. x \in EventRows
  BY <1>1, Mirrors
<1>3. CASE x.kind = "sync"
  <2>1. x = Sync(x.status)
    BY <1>2, <1>3 DEF EventRows, Sync
  <2> QED
    BY <1>1, <1>3, <2>1, Mirrors
<1> QED
  BY <1>1, <1>2, <1>3, Mirrors, EventKinds

\* What was applied stays so.
LEMMA AppliedGrows == [Next]_vars => applied \subseteq applied'
BY StripeKeeps
   DEF Next, Time, PeriodEnds, SignupAges, FailureAges, Persist, Handle, Receive, Miss,
       ReadStatus, Dispatch, DispatchFails, Step, Find, SendMail, LogMail, Act, Crash, vars

LEMMA WarnedStep ==
  ASSUME TypeOK, AppliedAreEmitted, EventsTell, RowComes, ReadIsSo, ActionsAreDue,
         LoggedIsMailed, SuspendedIsWarned, [Next]_vars
  PROVE  SuspendedIsWarned'
<1>0. "dunning" \in Sweeps
  BY DEF Sweeps
<1>1. ws'.status = "PAUSED" => \/ mailed' \cap Stages # {}
                              \/ \E e \in applied' : event'[e] = Sync("PAUSED")
  <2>1. CASE ws.status = "PAUSED"
    <3>1. applied \subseteq applied'
      BY AppliedGrows
    <3>2. \A e \in applied : event'[e] = event[e]
      BY EmittedStays DEF AppliedAreEmitted
    <3> QED
      BY <2>1, <3>1, <3>2, MailedStays DEF SuspendedIsWarned
  <2>4. ASSUME NEW q \in Requests, Dispatch(q), event[request[q]] = Sync("PAUSED")
        PROVE  \E e \in applied' : event'[e] = Sync("PAUSED")
    BY <2>4 DEF Dispatch
  <2>2. ASSUME NEW p \in Sweeps, Act(p), sweep[p].act = "gate"
        PROVE  mailed' \cap Stages # {}
    <3>1. p = "dunning"
      BY <2>2 DEF Sweeps, ActionsAreDue
    <3> QED
      BY <2>2, <3>1, MailedStays DEF SuspendedIsWarned
  <2>3. ASSUME NEW p \in Sweeps, Act(p), sweep[p].act # "gate"
        PROVE  ws'.status = ws.status
    BY <2>3 DEF Act, TypeOK, Workspace
  <2> QED
    BY <2>1, <2>2, <2>3, <2>4, RowMoves, EventsDoNotSuspend, Persists DEF RowStays
<1>2. sweep'["dunning"].act = "gate" =>
        \E s \in mailed' \cap Stages : s >= sweep'["dunning"].mail
  <2>1. CASE sweep'["dunning"] = sweep["dunning"]
    BY <2>1, MailedStays DEF SuspendedIsWarned
  <2>2. CASE Find("dunning")
    <3>1. sweep'["dunning"] = DunningAction
      BY <1>0, <2>2, DunningFinds DEF TypeOK
    <3>2. ASSUME DunningAction.act = "gate"
          PROVE  \E s \in mailed' \cap Stages : s >= Reached
      BY <2>2, <3>2, DunningFinds, MailedStays DEF Covered, LoggedIsMailed
    <3> QED
      BY <2>2, <3>1, <3>2, DunningFinds
  <2>3. CASE /\ SendMail("dunning") /\ sweep["dunning"] \in Actions
             /\ sweep'["dunning"] = [sweep["dunning"] EXCEPT !.act = "log"]
    BY <2>3 DEF Actions
  <2>4. CASE sweep'["dunning"] = NoAction
    BY <2>4 DEF NoAction
  <2> QED
    BY <1>0, <2>1, <2>2, <2>3, <2>4, SweepMoves
<1> QED
  BY <1>1, <1>2 DEF SuspendedIsWarned

LEMMA ComesStep ==
  ASSUME TypeOK, AppliedAreEmitted, ReadIsSo, ActionsAreDue, EventsTell, RowComes, FoundIsSo,
         [Next]_vars
  PROVE  RowComes'
<1> DEFINE Goal == /\ ws'.complete => HasRow'
                   /\ HasRow' => ws'.known
                   /\ \A e \in applied' : event'[e].kind = "sync" => ws'.complete
                   /\ \A e \in applied' : event'[e].kind # "checkout" => HasRow'
                   /\ ws.complete => ws'.complete
<1>0. \A e \in applied : event'[e] = event[e]
  BY EmittedStays DEF AppliedAreEmitted
<1>1. ASSUME NEW q \in Requests, Dispatch(q) PROVE Goal
  <2> DEFINE x == event[request[q]]
  <2> HIDE DEF x
  <2>1. x = event[request[q]] /\ event' = event /\ applied' = applied \cup {request[q]}
    BY <1>1 DEF x, Dispatch
  <2>2. CASE x.kind = "sync"
    BY <1>1, <2>1, <2>2, Mirrors, EventKinds DEF HasRow, Statuses, RowComes
  <2>3. CASE x.kind # "sync"
    <3>1. HasRow => HasRow'
      BY <1>1, <2>1, <2>3, Mirrors, EventKinds DEF HasRow
    <3>2. ws'.complete = ws.complete /\ ws'.known
      BY <1>1, <2>1, <2>3, Mirrors
    <3>3. x.kind # "checkout" => HasRow'
      BY <1>1, <2>1, <2>3, <3>1, Mirrors, EventKinds DEF HasRow
    <3>4. \A e \in applied' : event'[e].kind = "sync" => ws'.complete
      BY <2>1, <2>3, <3>2 DEF RowComes
    <3>5. \A e \in applied' : event'[e].kind # "checkout" => HasRow'
      BY <2>1, <3>1, <3>3 DEF RowComes
    <3> QED
      BY <3>1, <3>2, <3>4, <3>5 DEF RowComes
  <2> QED
    BY <2>2, <2>3
<1>2. ASSUME NEW p \in Sweeps, Act(p) PROVE Goal
  <2>1. ws'.complete = ws.complete /\ ws'.known = ws.known /\ UNCHANGED <<applied, event>>
    BY <1>2 DEF Act, TypeOK, Workspace
  <2>2. HasRow' <=> HasRow
    <3>1. CASE sweep[p].act = "gate"
      BY <1>2, <3>1 DEF Act, Sweeps, ActionsAreDue, FoundIsSo, HasRow, TypeOK, Workspace
    <3>2. CASE sweep[p].act # "gate"
      BY <1>2, <3>2 DEF Act, HasRow, TypeOK, Workspace
    <3> QED
      BY <3>1, <3>2
  <2> QED
    BY <2>1, <2>2 DEF RowComes
<1>3. ASSUME RowStays PROVE Goal
  BY <1>0, <1>3 DEF RowStays, RowComes, HasRow
<1>4. ASSUME Persist PROVE Goal
  BY <1>4, Persists DEF RowComes, HasRow
<1>5. Goal
  BY <1>1, <1>2, <1>3, <1>4, RowMoves
<1>6. ASSUME ~ws'.complete, account' # "none"
      PROVE  \E e \in Emitted' : event'[e].kind = "sync"
  <2>1. CASE account # "none"
    <3>1. PICK e \in Emitted : event[e].kind = "sync"
      BY <1>5, <1>6, <2>1 DEF RowComes
    <3> QED
      BY <3>1, EmittedStays
  <2>2. CASE account = "none"
    <3>1. Stripe
      BY <1>6, <2>2, AccountStays
    <3>2. PICK es \in Seq(EventRows), status \in Statuses :
            /\ es # <<>> /\ AtStripe(status, es)
            /\ account = "none" => \E i \in 1 .. Len(es) : es[i].kind = "sync"
      BY <3>1, StripeSteps
    <3>3. PICK i \in 1 .. Len(es) : es[i].kind = "sync"
      BY <2>2, <3>2
    <3>4. PICK n \in 0 .. MaxEvents :
            /\ Emitted' = 1 .. n + Len(es)
            /\ \A j \in 1 .. Len(es) : event'[n + j] = es[j]
      BY <3>2, EmitAppends DEF AtStripe
    <3>5. n + i \in 1 .. n + Len(es)
      BY <3>2, BoundsAreNat
    <3> QED
      BY <3>3, <3>4, <3>5
  <2> QED
    BY <2>1, <2>2
<1> QED
  BY <1>5, <1>6 DEF RowComes

\* A sweep under way that an event overtakes stays behind until it is done.
LEMMA BehindStays ==
  ASSUME TypeOK, [Next]_vars, NEW p \in Sweeps, sweep[p] # NoAction, ~Find(p), p \in behind
  PROVE  p \in behind'
BY StripeKeeps, RequestsAreNotSweeps
   DEF Next, Time, PeriodEnds, SignupAges, FailureAges, Persist, Handle, Receive, Miss,
       ReadStatus, Dispatch, DispatchFails, Step, Find, SendMail, LogMail, Act, Crash, vars

LEMMA FoundStep ==
  ASSUME TypeOK, AppliedAreEmitted, ReadIsSo, ActionsAreDue, RowComes, FoundIsSo, [Next]_vars
  PROVE  FoundIsSo'
<1>0. "dunning" \in Sweeps /\ "signup" \in Sweeps
  BY DEF Sweeps
\* An event overtakes whoever is under way, and takes no row away.
<1>1. ASSUME NEW q \in Requests, Dispatch(q), NEW p \in Sweeps, sweep'[p] # NoAction
      PROVE  p \in behind' /\ sweep' = sweep
  BY <1>1 DEF Dispatch
<1>2. ASSUME HasRow PROVE HasRow'
  <2>1. ASSUME NEW q \in Requests, Dispatch(q) PROVE HasRow'
    <3> DEFINE x == event[request[q]]
    <3> HIDE DEF x
    <3>1. x = event[request[q]]
      BY DEF x
    <3> QED
      BY <1>2, <2>1, <3>1, Mirrors, EventKinds DEF HasRow, Statuses
  <2>2. ASSUME NEW p \in Sweeps, Act(p) PROVE HasRow'
    BY <1>2, <2>2 DEF Act, HasRow, TypeOK, Workspace
  <2> QED
    BY <1>2, <2>1, <2>2, RowMoves, Persists DEF RowStays, HasRow
<1>3. ASSUME sweep'["dunning"].act = "gate"
      PROVE  HasRow' /\ (ws'.status = "PAST_DUE" \/ "dunning" \in behind')
  <2>1. sweep'["dunning"] # NoAction
    BY <1>3 DEF NoAction
  <2>2. CASE Find("dunning")
    <3>1. ws.status = "PAST_DUE" /\ ws' = ws
      BY <2>2, DunningFinds DEF Find
    <3> QED
      BY <3>1 DEF HasRow
  <2>3. CASE /\ SendMail("dunning") /\ sweep["dunning"] \in Actions
             /\ sweep'["dunning"] = [sweep["dunning"] EXCEPT !.act = "log"]
    BY <1>3, <2>3 DEF Actions
  <2>4. CASE sweep'["dunning"] = sweep["dunning"] /\ ~Find("dunning")
    <3>1. HasRow /\ (ws.status = "PAST_DUE" \/ "dunning" \in behind)
      BY <1>3, <2>4 DEF FoundIsSo
    <3>2. "dunning" \in behind => "dunning" \in behind'
      BY <1>0, <2>1, <2>4, BehindStays
    <3>3. ASSUME NEW p \in Sweeps, Act(p) PROVE ws'.status = ws.status
      <4>1. p # "dunning"
        BY <2>1, <2>4, <3>3 DEF Act, TypeOK
      <4>2. sweep[p].act # "gate"
        BY <4>1 DEF Sweeps, ActionsAreDue
      <4> QED
        BY <3>3, <4>2 DEF Act, TypeOK, Workspace
    <3> QED
      BY <1>0, <1>1, <1>2, <2>1, <3>1, <3>2, <3>3, RowMoves, Persists DEF RowStays
  <2> QED
    BY <1>0, <2>1, <2>2, <2>3, <2>4, SweepMoves
<1>4. ASSUME sweep'["signup"].act = "deactivate"
      PROVE  ~ws'.complete \/ "signup" \in behind'
  <2>1. sweep'["signup"] # NoAction
    BY <1>4 DEF NoAction
  <2>2. CASE Find("signup")
    BY <2>2, SignupFinds DEF Find
  <2>3. CASE /\ SendMail("signup") /\ sweep["signup"] \in Actions
             /\ sweep'["signup"] = [sweep["signup"] EXCEPT !.act = "log"]
    BY <1>4, <2>3 DEF Actions
  <2>4. CASE sweep'["signup"] = sweep["signup"] /\ ~Find("signup")
    <3>1. ~ws.complete \/ "signup" \in behind
      BY <1>4, <2>4 DEF FoundIsSo
    <3>2. "signup" \in behind => "signup" \in behind'
      BY <1>0, <2>1, <2>4, BehindStays
    <3>3. ASSUME NEW p \in Sweeps, Act(p) PROVE ws'.complete = ws.complete
      BY <3>3 DEF Act, TypeOK, Workspace
    <3> QED
      BY <1>0, <1>1, <2>1, <3>1, <3>2, <3>3, RowMoves, Persists DEF RowStays
  <2> QED
    BY <1>0, <2>1, <2>2, <2>3, <2>4, SweepMoves
<1> QED
  BY <1>3, <1>4 DEF FoundIsSo, HasRow

\* What a request has read is forgotten at its end, and overtaken by what is dispatched.
LEMMA WriteMoves ==
  ASSUME TypeOK, [Next]_vars, NEW r \in Requests
  PROVE  /\ \/ write'[r] = "unread"
            \/ ReadStatus(r)
            \/ write'[r] = write[r] /\ (request'[r] = request[r] \/ request[r] = None)
         /\ \/ r \in behind => r \in behind'
            \/ ReadStatus(r)
            \/ \E q \in Requests : Dispatch(q)
<1>1. CASE UNCHANGED <<write, request, behind>>
  BY <1>1
<1>2. ASSUME NEW q \in Requests, End(q)
      PROVE  \/ write'[r] = "unread"
             \/ write'[r] = write[r] /\ request'[r] = request[r]
  BY <1>2 DEF End, TypeOK
<1>3. ASSUME NEW q \in Requests, Dispatch(q) \/ Miss(q) \/ DispatchFails(q)
      PROVE  End(q) /\ (Dispatch(q) \/ UNCHANGED behind)
  BY <1>3 DEF Dispatch, Miss, DispatchFails
<1>4. ASSUME NEW q \in Requests, ReadStatus(q), q # r
      PROVE  /\ write'[r] = write[r] /\ request'[r] = request[r]
             /\ r \in behind => r \in behind'
  BY <1>4 DEF ReadStatus, TypeOK
<1>5. ASSUME NEW q \in Requests, NEW e \in Events, Receive(q, e)
      PROVE  /\ write'[r] = write[r] /\ (request'[r] = request[r] \/ request[r] = None)
             /\ UNCHANGED behind
  BY <1>5 DEF Receive, TypeOK
<1>6. ASSUME NEW p \in Sweeps, Find(p)
      PROVE  UNCHANGED <<write, request>> /\ (r \in behind => r \in behind')
  BY <1>6, RequestsAreNotSweeps DEF Find
<1> QED
  BY <1>1, <1>2, <1>3, <1>4, <1>5, <1>6, StripeKeeps
     DEF Next, Time, PeriodEnds, SignupAges, FailureAges, Persist, Handle, Step, SendMail,
         LogMail, Act, Crash, vars

LEMMA ReadStep ==
  ASSUME TypeOK, AppliedAreEmitted, EventsTell, ActionsAreDue, RowComes, FoundIsSo, ReadIsSo,
         [Next]_vars
  PROVE  ReadIsSo'
<1> SUFFICES ASSUME NEW r \in Requests, write'[r] # "unread"
             PROVE  LET failed == event'[request'[r]].kind = "failed"
                    IN  /\ request'[r] \in Emitted'
                        /\ write'[r] \in {IF failed THEN "PAST_DUE" ELSE "ACTIVE", "keep"}
                        /\ ~stale' /\ r \notin behind' =>
                             /\ failed /\ write'[r] = "keep" => ws'.status \in {"PAST_DUE", "PAUSED"}
                             /\ ~failed /\ write'[r] = "keep" => ws'.status \in {"TRIALING", "ACTIVE"}
                             /\ ~failed /\ write'[r] = "ACTIVE" => HasRow' /\ ws'.status # "TRIALING"
  BY DEF ReadIsSo
<1>1. CASE ReadStatus(r)
  <2>1. request[r] \in Emitted /\ request'[r] = request[r]
    BY <1>1 DEF ReadStatus, AppliedAreEmitted
  <2>2. event' = event /\ Emitted' = Emitted /\ ws' = ws
    BY <1>1 DEF ReadStatus, Emitted
  <2>3. /\ write'[r] = IF NextStatus(event[request[r]]) = ws.status THEN "keep"
                       ELSE NextStatus(event[request[r]])
        /\ event[request[r]].kind \in {"failed", "paid"} /\ HasRow
    BY <1>1 DEF ReadStatus, TypeOK, Finds
  <2> QED
    BY <2>1, <2>2, <2>3 DEF NextStatus, HasRow
<1>2. CASE ~ReadStatus(r)
  <2>1. write'[r] = write[r] /\ (request'[r] = request[r] \/ request[r] = None)
    BY <1>2, WriteMoves
  <2>2. request[r] \in Emitted /\ request[r] # None
    BY <2>1 DEF ReadIsSo, Emitted, Events, None
  <2>3. request'[r] = request[r] /\ request[r] \in Emitted' /\ event'[request[r]] = event[request[r]]
    BY <2>1, <2>2, EmittedStays
  <2> DEFINE failed == event[request[r]].kind = "failed"
  <2> HIDE DEF failed
  <2>4. failed <=> event'[request'[r]].kind = "failed"
    BY <2>3 DEF failed
  <2>5. write[r] \in {IF failed THEN "PAST_DUE" ELSE "ACTIVE", "keep"}
    BY <2>1 DEF ReadIsSo, failed
  <2>6. ASSUME ~stale, r \notin behind
        PROVE  /\ failed /\ write[r] = "keep" => ws.status \in {"PAST_DUE", "PAUSED"}
               /\ ~failed /\ write[r] = "keep" => ws.status \in {"TRIALING", "ACTIVE"}
               /\ ~failed /\ write[r] = "ACTIVE" => HasRow /\ ws.status # "TRIALING"
    BY <2>1, <2>6 DEF ReadIsSo, failed
  <2>7. ASSUME ~stale', r \notin behind'
        PROVE  /\ failed /\ write[r] = "keep" => ws'.status \in {"PAST_DUE", "PAUSED"}
               /\ ~failed /\ write[r] = "keep" => ws'.status \in {"TRIALING", "ACTIVE"}
               /\ ~failed /\ write[r] = "ACTIVE" => HasRow' /\ ws'.status # "TRIALING"
    <3>1. ASSUME NEW q \in Requests, Dispatch(q) PROVE FALSE
      <4>1. q # r
        BY <3>1 DEF Dispatch, End, TypeOK
      <4> QED
        BY <2>1, <2>7, <3>1, <4>1 DEF Dispatch
    <3>2. ~stale
      BY <2>7, <3>1, StripeKeeps
         DEF Next, Time, PeriodEnds, SignupAges, FailureAges, Persist, Handle, Receive, Miss,
             ReadStatus, DispatchFails, Step, Find, SendMail, LogMail, Act, Crash, vars
    <3>3. r \notin behind
      BY <1>2, <2>7, <3>1, WriteMoves
    <3>4. CASE RowStays
      BY <2>6, <3>2, <3>3, <3>4 DEF RowStays, HasRow
    <3>5. CASE Persist
      BY <2>5, <2>6, <3>2, <3>3, <3>5, Persists DEF HasRow
    <3>6. ASSUME NEW p \in Sweeps, Act(p), sweep[p].act = "gate"
          PROVE  /\ ws'.status = "PAUSED" /\ ws.status = "PAST_DUE"
      <4>1. p = "dunning" /\ p \notin behind
        BY <2>7, <3>6 DEF Act, Sweeps, ActionsAreDue
      <4> QED
        BY <3>6, <4>1 DEF Act, FoundIsSo, TypeOK, Workspace
    <3>7. ASSUME NEW p \in Sweeps, Act(p), sweep[p].act # "gate"
          PROVE  ws'.status = ws.status
      BY <3>7 DEF Act, TypeOK, Workspace
    <3> QED
      BY <2>6, <3>1, <3>2, <3>3, <3>4, <3>5, <3>6, <3>7, RowMoves DEF HasRow
  <2> QED
    BY <2>1, <2>3, <2>4, <2>5, <2>7
<1> QED
  BY <1>1, <1>2

\* An event applied in its turn: what has been applied is all there was up to it.
LEMMA InTurn ==
  ASSUME NEW e \in Nat \ {0}, NEW d \in Nat, NEW A \in SUBSET Nat, A \cup {d} = 1 .. e,
         \A a \in A : ~(a > d)
  PROVE  d = e /\ (A = 1 .. e \/ A = 1 .. e - 1)
<1>1. d \in 1 .. e /\ e \in A \cup {d}
  OBVIOUS
<1>2. d = e
  BY <1>1
<1>3. CASE e \in A
  <2>1. A = A \cup {d}
    BY <1>2, <1>3
  <2> QED
    BY <1>2, <2>1
<1>4. CASE e \notin A
  <2>1. \A a \in A : a \in 1 .. e - 1
    BY <1>4
  <2>2. \A a \in 1 .. e - 1 : a \in A
    BY <1>2
  <2>3. A = 1 .. e - 1
    BY <2>1, <2>2
  <2> QED
    BY <1>2, <2>3
<1> QED
  BY <1>3, <1>4

\* New events do not change what the row is to say: a paid invoice is never the last.
LEMMA FollowsKept ==
  ASSUME TypeOK, AppliedAreEmitted, EventsTell, [Next]_vars, NEW e \in Events,
         applied = 1 .. e, Follows(e), ws'.status = ws.status
  PROVE  Follows(e)'
<1>1. e \in Emitted
  BY DEF AppliedAreEmitted, Events
<1>2. event'[e] = event[e]
  BY <1>1, EmittedStays
<1>3. CASE e + 1 \in Emitted
  <2>1. event'[e + 1] = event[e + 1]
    BY <1>3, EmittedStays
  <2> QED
    BY <1>2, <1>3, <2>1 DEF Follows
<1>4. CASE e + 1 \notin Emitted
  <2>1. PICK n \in 0 .. MaxEvents : Emitted = 1 .. n
    BY DEF EventsTell
  <2>2. n \in Nat /\ e \in Nat /\ e <= n
    BY <1>1, <2>1, BoundsAreNat DEF Events
  <2>3. n = e
    BY <1>4, <2>1, <2>2
  <2>4. event[e].kind # "paid"
    BY <2>1, <2>3 DEF EventsTell
  <2> QED
    BY <1>2, <2>4 DEF Follows
<1> QED
  BY <1>3, <1>4

\* The row after an event applied in its turn.
LEMMA FollowsNext ==
  ASSUME TypeOK, AppliedAreEmitted, ReadIsSo, EventsTell, RowComes, RowFollows, ~stale,
         NEW q \in Requests, Dispatch(q), NEW e \in Events, request[q] = e, q \notin behind,
         applied = 1 .. e \/ applied = 1 .. e - 1
  PROVE  Follows(e)'
<1> DEFINE x == event[e]
<1> HIDE DEF x
<1>1. x = event[e] /\ e \in Emitted /\ x \in EventRows
  BY Mirrors DEF x
<1>2. event' = event /\ Emitted' = Emitted
  BY DEF Dispatch, Emitted
<1>3. e \in Nat /\ e >= 1
  BY DEF Events
<1>4. /\ x.kind \in {"failed", "paid"} => write[q] # "unread"
      /\ x.kind = "failed" /\ write[q] = "keep" => ws.status \in {"PAST_DUE", "PAUSED"}
      /\ x.kind = "paid" /\ ws.status = "TRIALING" => write[q] = "keep"
  <2>1. x.kind \in {"failed", "paid"} => write[q] # "unread"
    BY <1>1 DEF Dispatch
  <2> QED
    BY <1>1, <2>1 DEF ReadIsSo
<1>5. x.kind = "checkout" => ws.status = "TRIALING"
  <2> SUFFICES ASSUME x.kind = "checkout" PROVE ws.status = "TRIALING"
    OBVIOUS
  <2>1. e = 3 /\ event[2].kind = "paid"
    BY <1>1 DEF EventsTell
  <2>2. CASE applied = 1 .. e
    BY <1>1, <2>2 DEF RowFollows, Follows
  <2>3. CASE applied = 1 .. e - 1
    <3>1. e - 1 = 2 /\ 2 \in Nat /\ 2 >= 1 /\ 2 <= e /\ 2 + 1 = 3
      BY <2>1
    <3>2. applied = 1 .. 2 /\ 2 \in Events
      BY <2>3, <3>1, BoundsAreNat DEF Events
    <3> QED
      BY <1>1, <2>1, <3>1, <3>2 DEF RowFollows, Follows
  <2> QED
    BY <2>2, <2>3
<1>6. ASSUME x.kind = "paid", e + 1 \in Emitted, event[e + 1].kind = "checkout"
      PROVE  ws.status = "TRIALING"
  <2>1. e + 1 = 3 /\ event[1] = Sync("TRIALING")
    BY <1>6 DEF EventsTell
  <2>2. e = 2
    BY <1>3, <2>1
  <2>3. CASE applied = 1 .. e
    BY <1>1, <1>6, <2>3 DEF RowFollows, Follows
  <2>4. CASE applied = 1 .. e - 1
    <3>1. e - 1 = 1 /\ 1 \in Nat /\ 1 <= e
      BY <2>2
    <3>2. applied = 1 .. 1 /\ 1 \in Events
      BY <2>4, <3>1, BoundsAreNat DEF Events
    <3> QED
      BY <2>1, <3>2 DEF RowFollows, Follows, Sync
  <2> QED
    BY <2>3, <2>4
<1>7. /\ x.kind = "sync" => ws'.status = x.status
      /\ x.kind = "failed" => ws'.status \in {"PAST_DUE", "PAUSED"}
      /\ x.kind = "deleted" => ws'.status = "CANCELED"
      /\ x.kind = "checkout" => ws'.status = "TRIALING"
      /\ x.kind = "paid" /\ ws.status = "TRIALING" => ws'.status = "TRIALING"
  BY <1>1, <1>4, <1>5, Mirrors
<1> QED
  BY <1>1, <1>2, <1>6, <1>7 DEF Follows

LEMMA FollowsStep ==
  ASSUME TypeOK, AppliedAreEmitted, ReadIsSo, ActionsAreDue, EventsTell, RowComes,
         RowFollows, FoundIsSo, [Next]_vars
  PROVE  RowFollows'
<1> SUFFICES ASSUME ~stale'
             PROVE  /\ applied' = {} => /\ ws'.status \in {"none", "TRIALING", "ACTIVE"}
                                        /\ Emitted' = {} => ws'.status = account'
                    /\ \A e \in Events : applied' = 1 .. e => Follows(e)'
                    /\ ws'.complete => ~ws'.dark
  BY DEF RowFollows
<1>1. CASE RowStays
  <2>1. ~stale /\ applied' = applied
    BY <1>1 DEF RowStays
  <2>2. \A e \in Events : applied' = 1 .. e => Follows(e)'
    BY <1>1, <2>1, FollowsKept DEF RowStays, RowFollows
  <2>3. ASSUME applied' = {}, Emitted' = {} PROVE ws'.status = account'
    <3>1. Emitted = {}
      BY <2>3, EmittedStays
    <3>2. account' = account
      <4>1. ASSUME Stripe PROVE FALSE
        <5>1. PICK es \in Seq(EventRows), status \in Statuses :
                es # <<>> /\ AtStripe(status, es)
          BY <4>1, StripeSteps
        <5>2. PICK n \in 0 .. MaxEvents : Emitted' = 1 .. n + Len(es)
          BY <5>1, EmitAppends DEF AtStripe
        <5>3. Len(es) \in Nat \ {0} /\ n \in Nat
          BY <5>1, BoundsAreNat
        <5>4. 1 \in 1 .. n + Len(es)
          BY <5>3
        <5> QED
          BY <2>3, <5>2, <5>4
      <4> QED
        BY <4>1, AccountStays
    <3> QED
      BY <1>1, <2>1, <2>3, <3>1, <3>2 DEF RowFollows, RowStays
  <2> QED
    BY <1>1, <2>1, <2>2, <2>3 DEF RowFollows, RowStays
<1>2. ASSUME NEW q \in Requests, Dispatch(q)
      PROVE  /\ applied' # {}
             /\ \A e \in Events : applied' = 1 .. e => Follows(e)'
             /\ ws'.complete => ~ws'.dark
  <2>1. /\ ~stale /\ q \notin behind
        /\ applied' = applied \cup {request[q]} /\ \A d \in applied : ~(d > request[q])
    BY <1>2 DEF Dispatch
  <2>2. request[q] \in Events
    BY <1>2, Mirrors, EmittedRows
  <2>3. ASSUME NEW e \in Events, applied' = 1 .. e PROVE Follows(e)'
    <3>1. e \in Nat \ {0} /\ request[q] \in Nat /\ applied \in SUBSET Nat
      BY <2>2 DEF TypeOK, Events
    <3>2. request[q] = e /\ (applied = 1 .. e \/ applied = 1 .. e - 1)
      BY <2>1, <2>3, <3>1, InTurn
    <3> QED
      BY <1>2, <2>1, <3>2, FollowsNext
  <2>4. ws'.complete => ~ws'.dark
    <3> DEFINE x == event[request[q]]
    <3> HIDE DEF x
    <3>1. x = event[request[q]]
      BY DEF x
    <3> QED
      BY <1>2, <2>1, <3>1, Mirrors DEF RowFollows
  <2> QED
    BY <2>1, <2>3, <2>4
<1>3. ASSUME NEW p \in Sweeps, Act(p)
      PROVE  /\ applied' = {} => /\ ws'.status \in {"none", "TRIALING", "ACTIVE"}
                                 /\ Emitted' = {} => ws'.status = account'
             /\ \A e \in Events : applied' = 1 .. e => Follows(e)'
             /\ ws'.complete => ~ws'.dark
  <2>1. ~stale /\ p \notin behind /\ UNCHANGED <<applied, account, event>>
    BY <1>3 DEF Act
  <2>2. Emitted' = Emitted
    BY <2>1 DEF Emitted
  <2>3. CASE sweep[p].act = "gate"
    <3>1. p = "dunning" /\ ws.status = "PAST_DUE"
      BY <2>1, <2>3 DEF Sweeps, ActionsAreDue, FoundIsSo
    <3>2. ws'.status = "PAUSED" /\ ws'.complete = ws.complete /\ ws'.dark = ws.dark
      BY <1>3, <2>3 DEF Act, TypeOK, Workspace
    <3>3. applied # {}
      BY <2>1, <3>1 DEF RowFollows
    <3>4. ASSUME NEW e \in Events, applied' = 1 .. e PROVE Follows(e)'
      BY <2>1, <2>2, <3>1, <3>2, <3>4 DEF RowFollows, Follows
    <3> QED
      BY <2>1, <3>2, <3>3, <3>4 DEF RowFollows
  <2>4. CASE sweep[p].act # "gate"
    <3>1. ws'.status = ws.status /\ ws'.complete = ws.complete
      BY <1>3, <2>4 DEF Act, TypeOK, Workspace
    <3>2. ws'.complete => ~ws'.dark
      <4>1. CASE sweep[p].act = "deactivate"
        <5>1. p = "signup"
          BY <4>1 DEF Sweeps, ActionsAreDue, NoAction
        <5> QED
          BY <2>1, <3>1, <4>1, <5>1 DEF FoundIsSo
      <4>2. CASE sweep[p].act = "archive"
        BY <1>3, <2>1, <4>2 DEF Act, TypeOK, Workspace, RowFollows
      <4> QED
        BY <1>3, <2>4, <4>1, <4>2 DEF Act
    <3>3. \A e \in Events : applied' = 1 .. e => Follows(e)'
      BY <2>1, <3>1, FollowsKept DEF RowFollows
    <3> QED
      BY <2>1, <2>2, <3>1, <3>2, <3>3 DEF RowFollows
  <2> QED
    BY <2>3, <2>4
<1>4. CASE Persist
  <2>1. /\ ~stale /\ ws'.status = "TRIALING" /\ ws'.complete = ws.complete /\ ws'.dark = ws.dark
        /\ UNCHANGED <<applied, account, event>> /\ account # "none" /\ ~HasRow /\ ~ws.complete
    BY <1>4, Persists
  <2>2. Emitted' = Emitted
    BY <2>1 DEF Emitted
  <2>3. Emitted # {}
    BY <2>1 DEF RowComes
  <2>4. ASSUME NEW e \in Events, applied = 1 .. e PROVE FALSE
    <3>1. 1 \in applied /\ 1 \in Emitted
      BY <2>4 DEF AppliedAreEmitted, Events
    <3>2. event[1].kind = "checkout"
      BY <2>1, <3>1 DEF RowComes
    <3> QED
      BY <3>1, <3>2 DEF EventsTell
  <2> QED
    BY <2>1, <2>2, <2>3, <2>4
<1> QED
  BY <1>1, <1>2, <1>3, <1>4, RowMoves

-----------------------------------------------------------------------------
(* The theorems about Billing.                                               *)

LEMMA BillingInvInit == Init => IInv
<1> SUFFICES ASSUME Init PROVE IInv
  OBVIOUS
<1> USE BoundsAreNat
<1>1. Emitted = {}
  BY DEF Init, Emitted
<1>2. TypeOK
  <2>1. ws \in Workspace /\ account \in Statuses \cup {"none"}
    <3>1. PICK s \in {"none", "TRIALING", "ACTIVE"}, b \in BOOLEAN, k \in BOOLEAN :
            account = s /\ ws = [status |-> s, known |-> k, ahead |-> b, complete |-> b,
                                 dark |-> FALSE, closing |-> FALSE]
      BY DEF Init
    <3> QED
      BY <3>1 DEF Workspace, Statuses
  <2>2. clock \in Clocks /\ crashes \in 0 .. MaxCrashes
    BY DEF Init, Clocks, D14
  <2>3. /\ event \in [Events -> EventRows \cup {NoEvent}]
        /\ request \in [Requests -> Events \cup {None}]
        /\ write \in [Requests -> Statuses \cup {"keep", "unread"}]
        /\ sweep \in [Sweeps -> Actions \cup {NoAction}]
    BY DEF Init
  <2> QED
    BY <2>1, <2>2, <2>3 DEF Init, TypeOK
<1>3. AppliedAreEmitted /\ ActionsAreDue /\ LoggedIsMailed /\ RecordedIsTaken /\ ReadIsSo
  BY DEF Init, AppliedAreEmitted, ActionsAreDue, LoggedIsMailed, RecordedIsTaken, ReadIsSo,
         Sweeps, NoAction
<1>4. EventsTell
  <2>1. Emitted = 1 .. 0 /\ 0 \in 0 .. MaxEvents
    BY <1>1
  <2>2. ASSUME NEW e \in Events PROVE Emitted # 1 .. e
    <3>1. e \in 1 .. e
      BY DEF Events
    <3> QED
      BY <1>1, <3>1
  <2> QED
    BY <1>1, <2>1, <2>2 DEF EventsTell
<1>5. RowComes
  BY DEF Init, RowComes, HasRow
<1>6. RowFollows
  <2>1. ASSUME NEW e \in Events PROVE applied # 1 .. e
    <3>1. e \in 1 .. e
      BY DEF Events
    <3> QED
      BY <3>1 DEF Init
  <2> QED
    BY <2>1 DEF Init, RowFollows
<1>7. FoundIsSo /\ SuspendedIsWarned
  BY DEF Init, FoundIsSo, SuspendedIsWarned, Sweeps, NoAction
<1> QED
  BY <1>2, <1>3, <1>4, <1>5, <1>6, <1>7 DEF IInv

\* What the row says when nothing is under way follows from the invariant.
LEMMA InvFollowsStripe == IInv => FollowsStripe
<1> SUFFICES ASSUME IInv, account # "none", recorded = Emitted, ~missed, ~stale
             PROVE  /\ ws.status = account \/ (account = "PAST_DUE" /\ ws.status = "PAUSED")
                    /\ ws.complete /\ ~ws.dark
                    /\ account \in {"TRIALING", "ACTIVE"} => ~Paused
  BY DEF FollowsStripe
<1>0. TypeOK /\ EventsTell /\ RowComes /\ RowFollows /\ applied = Emitted
  BY DEF IInv, RecordedIsTaken, AppliedAreEmitted
<1>4. ws.complete
  <2> SUFFICES ASSUME ~ws.complete PROVE FALSE
    OBVIOUS
  <2>1. PICK e \in Emitted : event[e].kind = "sync"
    BY <1>0 DEF RowComes
  <2> QED
    BY <1>0, <2>1 DEF RowComes
<1>1. PICK n \in 0 .. MaxEvents : Emitted = 1 .. n
  BY <1>0 DEF EventsTell
<1>2. CASE n = 0
  <2>1. applied = {} /\ Emitted = {}
    BY <1>0, <1>1, <1>2
  <2>2. ws.status = account
    BY <1>0, <2>1 DEF RowFollows
  <2> QED
    BY <1>0, <1>4, <2>2 DEF RowFollows, Paused
<1>3. CASE n # 0
  <2>1. n \in Events /\ n \in Emitted /\ applied = 1 .. n
    BY <1>0, <1>1, <1>3, BoundsAreNat DEF Events
  <2>2. Follows(n) /\ event[n].kind # "paid" /\ account = AfterLast(event[n])
    BY <1>0, <1>1, <2>1 DEF RowFollows, EventsTell
  <2>3. event[n] \in EventRows
    BY <1>0, <2>1, EmittedRows
  <2>4. ws.status = account \/ (account = "PAST_DUE" /\ ws.status = "PAUSED")
    BY <2>2, <2>3, EventKinds DEF Follows, AfterLast
  <2> QED
    BY <1>0, <1>4, <2>2, <2>4 DEF RowFollows, Paused
<1> QED
  BY <1>2, <1>3

\* The invariant of the subscription holds however deliveries, throws, retries, sweeps
\* and the customer interleave (webhook-dispatch.ts, dunning.ts, abandoned-signup.ts).
THEOREM BillingInvariant == Spec => []IInv
<1>1. IInv /\ [Next]_vars => IInv'
  <2> SUFFICES ASSUME IInv, [Next]_vars PROVE IInv'
    OBVIOUS
  <2>1. /\ TypeOK /\ AppliedAreEmitted /\ RecordedIsTaken /\ ActionsAreDue
        /\ LoggedIsMailed /\ EventsTell /\ RowComes /\ RowFollows /\ FoundIsSo
        /\ ReadIsSo /\ SuspendedIsWarned
    BY DEF IInv
  <2> QED
    BY <2>1, BillingTypeStep, AppliedStep, ActionsStep, LoggedStep, TellStep, ComesStep,
       FollowsStep, FoundStep, ReadStep, RecordedStep, WarnedStep DEF IInv
<1> QED
  BY BillingInvInit, <1>1, PTL DEF Spec

\* Every reachable state of the subscription is well typed; in particular dunning
\* never counts past its last stage (recordPaymentFailure).
THEOREM BillingTypeCorrect == Spec => []TypeOK
<1>1. IInv => TypeOK
  BY DEF IInv
<1> QED
  BY BillingInvariant, <1>1, PTL

\* Once every event would be waved through as seen, none came before the row, and
\* nothing was done on what a newer event had changed, the row says what Stripe says,
\* and who pays is served (dispatchEvent, the two sweeps).
THEOREM RowFollowsStripe == Spec => []FollowsStripe
<1> QED
  BY BillingInvariant, InvFollowsStripe, PTL

\* A row is PAUSED because Stripe said so or after a mail of a dunning stage went out,
\* and dunning suspends only for a stage that a mail covers (decideDunningAction).
THEOREM SuspendedWasWarned == Spec => []SuspendedIsWarned
<1>1. IInv => SuspendedIsWarned
  BY DEF IInv
<1> QED
  BY BillingInvariant, <1>1, PTL

-----------------------------------------------------------------------------
(* Closure.                                                                  *)

LEMMA ClosureInvInit == ClosureInit => ClosureInv
BY ClosureBoundsAreNat, WalksAreRuns
   DEF ClosureInit, ClosureInv, ClosureTypeOK, ListIsWhole, OwedIsTold, Charges, PCs

LEMMA FlowType == ASSUME NEW r \in Runs PROVE Flow(r) \in {"leak", "walk"}
BY DEF Flow

LEMMA Forgets ==
  ASSUME ClosureTypeOK, NEW r \in Runs, Forget(r)
  PROVE  /\ todo' \in [Runs -> SUBSET Charges] /\ total' \in [Runs -> 0 .. Cap]
         /\ outcome' \in [Runs -> {"none", "manual", "failed", "over", "paid", "nothing"}]
BY ClosureBoundsAreNat DEF Forget, Ends, ClosureTypeOK

LEMMA ClosureTypeStep == ClosureTypeOK /\ [ClosureNext]_closureVars => ClosureTypeOK'
<1> SUFFICES ASSUME ClosureTypeOK, [ClosureNext]_closureVars PROVE ClosureTypeOK'
  OBVIOUS
<1> USE ClosureBoundsAreNat
<1>1. CASE UNCHANGED closureVars
  BY <1>1 DEF closureVars, ClosureTypeOK
<1>2. CASE Charge \/ GraceElapses
  <2>1. charged' \in 0 .. MaxCharges
    BY <1>2 DEF Charge, GraceElapses, money, ClosureTypeOK
  <2> QED
    BY <1>2, <2>1 DEF Charge, GraceElapses, workspace, money, progress, ClosureTypeOK
<1>3. ASSUME NEW what \in {"close", "cancel"}, Ask(what) PROVE ClosureTypeOK'
  BY <1>3 DEF Ask, workspace, money, progress, ClosureTypeOK
<1>4. CASE InitiateClosure \/ CancelClosure
  BY <1>4 DEF InitiateClosure, CancelClosure, money, progress, ClosureTypeOK
<1>5. ASSUME NEW p \in Purgers, Purge(p) PROVE ClosureTypeOK'
  BY <1>5 DEF Purge, FindDue, PreCheck, PurgeData, PurgeCloses, workspace, money,
              progress, ClosureTypeOK
<1>6. ASSUME NEW p \in Purgers, PurgeDies(p) PROVE ClosureTypeOK'
  <2>1. faults' \in 0 .. MaxFaults
    BY <1>6 DEF PurgeDies, Faults, ClosureTypeOK
  <2> QED
    BY <1>6, <2>1 DEF PurgeDies, workspace, money, progress, ClosureTypeOK
<1>7. ASSUME NEW r \in Runs,
             ListCandidate(r) \/ Skip(r) \/ Refunded(r) \/ Audit(r)
      PROVE  ClosureTypeOK'
  <2>1. faults' \in 0 .. MaxFaults
    BY <1>7 DEF ListCandidate, Skip, Refunded, Audit, Faults, ClosureTypeOK
  <2>2. pc' \in [Runs -> PCs]
    BY <1>7 DEF ListCandidate, Skip, Refunded, Audit, AfterRefund, GoTo, ClosureTypeOK, PCs
  <2> QED
    BY <1>7, <2>1, <2>2
       DEF ListCandidate, Skip, Refunded, Audit, workspace, money, progress, ClosureTypeOK
<1>8. ASSUME NEW r \in Runs, Begin(r) PROVE ClosureTypeOK'
  <2>1. Refundable \in SUBSET Charges
    BY DEF Refundable, Charges, ClosureTypeOK
  <2>2. PICK o \in {"manual", "failed", "paid"} :
          /\ outcome' = [outcome EXCEPT ![r] =
                           IF o = "paid" /\ Refundable = {} THEN "nothing" ELSE o]
          /\ todo' = [todo EXCEPT ![r] = IF o = "paid" THEN Refundable ELSE {}]
          /\ GoTo(r, IF o = "paid" THEN "refund" ELSE "page")
          /\ IF o = "failed" THEN Faults(1) ELSE UNCHANGED faults
    BY <1>8 DEF Begin
  <2>3. /\ seen' \in [Runs -> SUBSET Charges]
        /\ todo' \in [Runs -> SUBSET Charges]
    BY <1>8, <2>1, <2>2 DEF Begin, ClosureTypeOK
  <2>4. outcome' \in [Runs -> {"none", "manual", "failed", "over", "paid", "nothing"}]
    BY <2>2 DEF ClosureTypeOK
  <2>5. pc' \in [Runs -> PCs] /\ faults' \in 0 .. MaxFaults
    BY <2>2 DEF GoTo, Faults, ClosureTypeOK, PCs
  <2> QED
    BY <1>8, <2>3, <2>4, <2>5 DEF Begin, workspace, money, ClosureTypeOK
<1>9. ASSUME NEW r \in Runs, NEW c \in Charges, Stop(r, c) PROVE ClosureTypeOK'
  BY <1>9 DEF Stop, Ends, GoTo, workspace, money, ClosureTypeOK, PCs
<1>10. ASSUME NEW r \in Runs, NEW c \in Charges, Refund(r, c) PROVE ClosureTypeOK'
  <2>1. Amount[c] \in Nat
    BY AmountsAreNat DEF Charges
  <2>2. total' \in [Runs -> 0 .. Cap]
    BY <1>10, <2>1 DEF Refund, ClosureTypeOK
  <2>3. refund' \in [Charges -> {"none", "leak", "walk"}]
    BY <1>10, FlowType DEF Refund, ClosureTypeOK
  <2>4. todo' \in [Runs -> SUBSET Charges]
    BY <1>10 DEF Refund, ClosureTypeOK
  <2> QED
    BY <1>10, <2>2, <2>3, <2>4 DEF Refund, workspace, ClosureTypeOK
<1>11. ASSUME NEW r \in Runs, NEW c \in Charges, RefundFails(r, c) PROVE ClosureTypeOK'
  <2>1. refund' \in [Charges -> {"none", "leak", "walk"}] /\ faults' \in 0 .. MaxFaults
    BY <1>11, FlowType DEF RefundFails, Faults, ClosureTypeOK
  <2>2. /\ outcome' \in [Runs -> {"none", "manual", "failed", "over", "paid", "nothing"}]
        /\ pc' \in [Runs -> PCs]
    BY <1>11 DEF RefundFails, Ends, GoTo, ClosureTypeOK, PCs
  <2> QED
    BY <1>11, <2>1, <2>2 DEF RefundFails, workspace, ClosureTypeOK
<1>12. ASSUME NEW r \in Runs, Page(r) PROVE ClosureTypeOK'
  <2>1. told' \in SUBSET Runs /\ faults' \in 0 .. MaxFaults
    BY <1>12 DEF Page, Faults, ClosureTypeOK
  <2> QED
    BY <1>12, <2>1
       DEF Page, AfterRefund, GoTo, workspace, money, progress, ClosureTypeOK, PCs
<1>13. ASSUME NEW r \in Runs, Erase(r) \/ Close(r) PROVE ClosureTypeOK'
  BY <1>13 DEF Erase, Close, GoTo, money, progress, ClosureTypeOK, PCs
<1>14. ASSUME NEW r \in Runs, Mark(r) PROVE ClosureTypeOK'
  <2>1. guard' \in SUBSET {"leak", "walk"}
    BY <1>14, FlowType DEF Mark, ClosureTypeOK
  <2>2. faults' \in 0 .. MaxFaults
    BY <1>14 DEF Mark, Faults, ClosureTypeOK
  <2>3. /\ todo' \in [Runs -> SUBSET Charges] /\ total' \in [Runs -> 0 .. Cap]
        /\ outcome' \in [Runs -> {"none", "manual", "failed", "over", "paid", "nothing"}]
    BY <1>14, Forgets DEF Mark
  <2>4. pc' \in [Runs -> PCs]
    BY <1>14 DEF Mark, GoTo, ClosureTypeOK, PCs
  <2> QED
    BY <1>14, <2>1, <2>2, <2>3, <2>4 DEF Mark, workspace, money, ClosureTypeOK
<1>15. ASSUME NEW r \in Runs, RunDies(r) PROVE ClosureTypeOK'
  <2>1. /\ todo' \in [Runs -> SUBSET Charges] /\ total' \in [Runs -> 0 .. Cap]
        /\ outcome' \in [Runs -> {"none", "manual", "failed", "over", "paid", "nothing"}]
    BY <1>15, Forgets DEF RunDies
  <2>2. seen' \in [Runs -> SUBSET Charges] /\ faults' \in 0 .. MaxFaults
    BY <1>15 DEF RunDies, Faults, ClosureTypeOK
  <2>3. pc' \in [Runs -> PCs]
    BY <1>15 DEF RunDies, GoTo, ClosureTypeOK, PCs
  <2> QED
    BY <1>15, <2>1, <2>2, <2>3 DEF RunDies, workspace, money, ClosureTypeOK
<1> QED
  BY <1>1, <1>2, <1>3, <1>4, <1>5, <1>6, <1>7, <1>8, <1>9, <1>10, <1>11, <1>12, <1>13,
     <1>14, <1>15 DEF ClosureNext, Run

\* A refund is for ever, and so is having told a human; failures only add up.
LEMMA MoneyStaysBack ==
  ASSUME ClosureTypeOK, [ClosureNext]_closureVars, NEW c \in Charges
  PROVE  /\ refund[c] # "none" => refund'[c] # "none"
         /\ told \subseteq told' /\ faults <= faults'
<1>1. ASSUME NEW r \in Runs, NEW d \in Charges, Refund(r, d)
      PROVE  /\ refund[c] # "none" => refund'[c] # "none"
             /\ told \subseteq told' /\ faults <= faults'
  BY <1>1, FlowType DEF Refund, ClosureTypeOK
<1>2. ASSUME NEW r \in Runs, NEW d \in Charges, RefundFails(r, d)
      PROVE  /\ refund[c] # "none" => refund'[c] # "none"
             /\ told \subseteq told' /\ faults <= faults'
  BY <1>2, FlowType DEF RefundFails, Faults, ClosureTypeOK
<1> QED
  BY <1>1, <1>2
     DEF ClosureNext, Run, Charge, GraceElapses, Ask, InitiateClosure, CancelClosure,
         Purge, FindDue, PreCheck, PurgeData, PurgeCloses, PurgeDies, ListCandidate,
         Skip, Begin, Stop, Refunded, Page, Audit, Erase, Close, Mark, RunDies, Faults, closureVars, workspace,
         money, progress, ClosureTypeOK

\* Steps of Stripe, time, the owner and the hourly sweep leave the runs alone.
Elsewhere == UNCHANGED <<refund, pc, progress, told>> /\ faults <= faults'

LEMMA RunsUndisturbed ==
  ASSUME ClosureTypeOK, [ClosureNext]_closureVars
  PROVE  Elsewhere \/ \E r \in Runs : Run(r)
<1>1. CASE UNCHANGED closureVars
  BY <1>1 DEF closureVars, Elsewhere, progress, ClosureTypeOK
<1>2. ASSUME NEW what \in {"close", "cancel"}, Ask(what) PROVE Elsewhere
  BY <1>2 DEF Ask, Elsewhere, money, ClosureTypeOK
<1>3. CASE Charge \/ GraceElapses \/ InitiateClosure \/ CancelClosure
  BY <1>3 DEF Charge, GraceElapses, InitiateClosure, CancelClosure, Elsewhere, money,
              ClosureTypeOK
<1>4. ASSUME NEW p \in Purgers, Purge(p) \/ PurgeDies(p) PROVE Elsewhere
  BY <1>4 DEF Purge, FindDue, PreCheck, PurgeData, PurgeCloses, PurgeDies, Faults,
              Elsewhere, money, ClosureTypeOK
<1> QED
  BY <1>1, <1>2, <1>3, <1>4 DEF ClosureNext

\* A step of another run does not touch this one's place.
LEMMA OthersStay ==
  ASSUME ClosureTypeOK, NEW q \in Runs, Run(q), NEW r \in Runs, r # q
  PROVE  pc'[r] = pc[r] /\ seen'[r] = seen[r] /\ todo'[r] = todo[r]
BY DEF Run, ListCandidate, Skip, Begin, Stop, Refund, RefundFails, Refunded, Page, Audit,
       Erase, Close, Mark, RunDies, Forget, GoTo, progress, ClosureTypeOK

LEMMA ListStep == ClosureInv /\ [ClosureNext]_closureVars => ListIsWhole'
<1> SUFFICES ASSUME ClosureInv, [ClosureNext]_closureVars, NEW r \in Runs
             PROVE  /\ pc'[r] \in {"idle", "listed"} => seen'[r] = {}
                    /\ pc'[r] = "refund" =>
                         \A c \in seen'[r] : c \in todo'[r] \/ refund'[c] # "none"
  BY DEF ListIsWhole
<1>0. ClosureTypeOK /\ ListIsWhole
  BY DEF ClosureInv
<1>1. seen[r] \subseteq Charges
  BY <1>0 DEF ClosureTypeOK
<1>2. CASE pc'[r] = pc[r] /\ seen'[r] = seen[r] /\ todo'[r] = todo[r]
  BY <1>0, <1>1, <1>2, MoneyStaysBack DEF ListIsWhole
<1>3. CASE Begin(r)
  <2>1. pc'[r] = "refund" => todo'[r] = Refundable
    BY <1>0, <1>3 DEF Begin, GoTo, ClosureTypeOK
  <2>2. seen'[r] = Refundable /\ pc'[r] \notin {"idle", "listed"}
    BY <1>0, <1>3 DEF Begin, GoTo, ClosureTypeOK
  <2> QED
    BY <2>1, <2>2
<1>4. ASSUME NEW c \in Charges, Refund(r, c)
      PROVE  /\ pc'[r] \in {"idle", "listed"} => seen'[r] = {}
             /\ pc'[r] = "refund" =>
                  \A d \in seen'[r] : d \in todo'[r] \/ refund'[d] # "none"
  <2>1. pc'[r] = "refund" /\ seen'[r] = seen[r] /\ pc[r] = "refund"
    BY <1>4 DEF Refund, AtCharge
  <2>2. todo'[r] = todo[r] \ {c} /\ refund'[c] # "none"
    BY <1>0, <1>4, FlowType DEF Refund, ClosureTypeOK
  <2>3. ASSUME NEW d \in seen[r] PROVE d \in todo'[r] \/ refund'[d] # "none"
    BY <1>0, <1>1, <2>1, <2>2, <2>3, MoneyStaysBack DEF ListIsWhole
  <2> QED
    BY <2>1, <2>3
<1>6. CASE ListCandidate(r)
  <2>1. seen' = seen /\ pc[r] = "idle" /\ pc'[r] = "listed"
    BY <1>0, <1>6 DEF ListCandidate, GoTo, progress, ClosureTypeOK
  <2> QED
    BY <1>0, <2>1 DEF ListIsWhole
<1>5. CASE \/ Skip(r) \/ \E c \in Charges : Stop(r, c) \/ RefundFails(r, c)
           \/ Refunded(r) \/ Page(r) \/ Audit(r) \/ Erase(r) \/ Close(r) \/ Mark(r)
           \/ RunDies(r)
  BY <1>0, <1>5
     DEF Skip, Stop, RefundFails, Refunded, Page, Audit, Erase, Close, Mark, RunDies,
         AfterRefund, GoTo, ClosureTypeOK
<1> QED
  BY <1>0, <1>2, <1>3, <1>4, <1>5, <1>6, RunsUndisturbed, OthersStay
     DEF Run, Elsewhere, progress

\* The places from which a run does not come back to the money.
Over == {"audit", "erase", "close", "mark", "done"}

LEMMA OwedStep == ClosureInv /\ [ClosureNext]_closureVars => OwedIsTold'
<1> SUFFICES ASSUME ClosureInv, [ClosureNext]_closureVars, faults' < 2,
                    NEW r \in Runs, pc'[r] \in Over, NEW c \in seen'[r], r \notin told'
             PROVE  refund'[c] # "none"
  BY DEF OwedIsTold, Over
<1>0. ClosureTypeOK /\ ListIsWhole /\ OwedIsTold
  BY DEF ClosureInv
<1>1. faults < 2 /\ r \notin told
  <2>1. ASSUME NEW d \in Charges PROVE faults < 2 /\ r \notin told
    <3>1. told \subseteq told' /\ faults <= faults'
      BY <1>0, <2>1, MoneyStaysBack
    <3>2. faults \in Nat /\ faults' \in Nat
      BY <1>0, ClosureTypeStep, ClosureBoundsAreNat DEF ClosureTypeOK
    <3>3. faults < 2
      BY <3>1, <3>2
    <3> QED
      BY <3>1, <3>3
  <2>2. \E d \in Charges : TRUE
    BY <1>0, ClosureTypeStep DEF ClosureTypeOK
  <2> QED
    BY <2>1, <2>2
<1>2. ASSUME seen'[r] = seen[r], refund[c] # "none" PROVE refund'[c] # "none"
  BY <1>0, <1>2, MoneyStaysBack DEF ClosureTypeOK
<1>3. CASE pc[r] \in Over /\ seen'[r] = seen[r]
  BY <1>0, <1>1, <1>2, <1>3 DEF OwedIsTold, Over
<1>4. CASE ListCandidate(r) \/ Skip(r)
  BY <1>0, <1>4 DEF ListCandidate, Skip, Starts, GoTo, Over, progress, ListIsWhole, ClosureTypeOK
<1>5. CASE Refunded(r)
  BY <1>0, <1>2, <1>5 DEF Refunded, progress, ListIsWhole
<1>6. CASE Page(r)
  <2>1. faults' = faults + 2
    BY <1>1, <1>6 DEF Page, Faults
  <2> QED
    BY <1>0, <2>1, ClosureBoundsAreNat DEF ClosureTypeOK
<1>7. CASE Begin(r) \/ \E d \in Charges : Stop(r, d) \/ Refund(r, d) \/ RefundFails(r, d)
  BY <1>0, <1>7
     DEF Begin, Stop, Refund, RefundFails, AtCharge, GoTo, ClosureTypeOK, Over
<1>8. CASE Audit(r) \/ Erase(r) \/ Close(r) \/ Mark(r)
  BY <1>3, <1>8 DEF Audit, Erase, Close, Mark, progress, Over
<1>9. CASE RunDies(r)
  BY <1>0, <1>9 DEF RunDies, GoTo, ClosureTypeOK, Over
<1> QED
  BY <1>0, <1>3, <1>4, <1>5, <1>6, <1>7, <1>8, <1>9, RunsUndisturbed, OthersStay
     DEF Run, Elsewhere, progress

\* The invariant holds however the owner, the sweeps, the taps and Stripe interleave
\* (closure.ts, teardown-scheduler.ts, walk-away.ts, unsupported-vertical-refund.ts).
THEOREM ClosureInvariant == ClosureSpec => []ClosureInv
<1>1. ClosureInv /\ [ClosureNext]_closureVars => ClosureInv'
  BY ClosureTypeStep, ListStep, OwedStep DEF ClosureInv
<1> QED
  BY ClosureInvInit, <1>1, PTL DEF ClosureSpec

\* Every reachable state is well typed; in particular no run refunds more than the
\* cap (refundCustomerCharges).
THEOREM ClosureTypeCorrect == ClosureSpec => []ClosureTypeOK
<1>1. ClosureInv => ClosureTypeOK
  BY DEF ClosureInv
<1> QED
  BY ClosureInvariant, <1>1, PTL

\* Unless two calls fail, a run that goes on to erase, or marks the workspace as
\* handled, has refunded everything it was to refund, or told a human
\* (defaultEmitRefund, executeWalkAway).
THEOREM OwedWasTold == ClosureSpec => []OwedIsTold
<1>1. ClosureInv => OwedIsTold
  BY DEF ClosureInv
<1> QED
  BY ClosureInvariant, <1>1, PTL

\* Past its read of the status a purge is of a workspace that is not active; and an
\* active one that no run has erased has its rows.
CancelInv == /\ \A p \in Purgers : purger[p] = "erase" => closure # "ACTIVE"
             /\ CancelKeepsData

LEMMA CancelStep ==
  /\ ClosureTypeOK /\ CancelInv /\ [ClosureNext]_closureVars
  /\ CancelClosure => data /\ \A p \in Purgers : purger[p] # "erase"
  => CancelInv'
<1> SUFFICES ASSUME ClosureTypeOK, CancelInv, [ClosureNext]_closureVars,
                    CancelClosure => data /\ \A p \in Purgers : purger[p] # "erase"
             PROVE  CancelInv'
  OBVIOUS
<1>1. CASE \/ UNCHANGED closureVars \/ Charge \/ GraceElapses \/ InitiateClosure
           \/ CancelClosure \/ \E w \in {"close", "cancel"} : Ask(w)
  BY <1>1
     DEF CancelInv, CancelKeepsData, closureVars, Charge, GraceElapses, InitiateClosure,
         CancelClosure, Ask, workspace, money, progress
<1>4. ASSUME NEW p \in Purgers, FindDue(p) \/ PreCheck(p) \/ PurgeDies(p)
      PROVE  CancelInv'
  <2>1. /\ pc' = pc /\ data' = data /\ closure' = closure
        /\ \A q \in Purgers : purger'[q] = "erase" => purger[q] = "erase" \/ closure = "CLOSING"
    BY <1>4 DEF FindDue, PreCheck, PurgeDies, workspace, ClosureTypeOK
  <2> QED
    BY <2>1 DEF CancelInv, CancelKeepsData
<1>5. ASSUME NEW p \in Purgers, PurgeData(p) \/ PurgeCloses(p) PROVE CancelInv'
  <2>1. /\ closure' # "ACTIVE"
        /\ \A q \in Purgers : purger'[q] = "erase" => purger[q] = "erase"
    BY <1>5 DEF PurgeData, PurgeCloses, CancelInv, ClosureTypeOK
  <2> QED
    BY <2>1 DEF CancelInv, CancelKeepsData
<1>2. ASSUME NEW r \in Runs, Run(r), ~Close(r) PROVE CancelInv'
  <2>3. ASSUME \/ ListCandidate(r) \/ Skip(r) \/ Begin(r) \/ Page(r) \/ Audit(r)
               \/ Erase(r) \/ Mark(r) \/ RunDies(r)
        PROVE  pc'[r] # "idle"
    BY <2>3 DEF ListCandidate, Skip, Begin, Page, Audit, Erase, Mark, RunDies,
                AfterRefund, GoTo, ClosureTypeOK
  <2>4. ASSUME Refunded(r) \/ \E c \in Charges : Stop(r, c) \/ Refund(r, c) \/ RefundFails(r, c)
        PROVE  pc'[r] # "idle"
    BY <2>4 DEF Refunded, Stop, Refund, RefundFails, AtCharge, AfterRefund, GoTo, ClosureTypeOK
  <2>1. pc'[r] # "idle"
    BY <1>2, <2>3, <2>4 DEF Run
  <2>2. UNCHANGED <<closure, purger>>
    BY <1>2 DEF Run, ListCandidate, Skip, Begin, Stop, Refund, RefundFails, Refunded, Page,
                Audit, Erase, Mark, RunDies, workspace
  <2> QED
    BY <2>1, <2>2 DEF CancelInv, CancelKeepsData
<1>3. ASSUME NEW r \in Runs, Close(r) PROVE CancelInv'
  BY <1>3 DEF Close, CancelInv, CancelKeepsData
<1> QED
  BY <1>1, <1>2, <1>3, <1>4, <1>5 DEF ClosureNext, Purge

\* A workspace that is active again, and that no run has erased, has its rows
\* (teardown-scheduler.ts: "a cancellation racing with this call is fine") provided
\* the cancellation comes before a purge's read of the status, and after no erasure.
THEOREM CancelKeptDataOtherwise == ClosureSpec /\ CancelInTime => []CancelKeepsData
<1>1. ClosureInit => CancelInv
  BY DEF ClosureInit, CancelInv, CancelKeepsData
<1>2. /\ ClosureTypeOK /\ CancelInv /\ [ClosureNext]_closureVars
      /\ [CancelClosure => data /\ \A p \in Purgers : purger[p] # "erase"]_closureVars
      => CancelInv'
  <2>1. UNCHANGED closureVars /\ CancelInv => CancelInv'
    BY DEF closureVars, CancelInv, CancelKeepsData
  <2> QED
    BY <2>1, CancelStep
<1>3. CancelInv => CancelKeepsData
  BY DEF CancelInv
<1> QED
  BY ClosureTypeCorrect, <1>1, <1>2, <1>3, PTL DEF ClosureSpec, CancelInTime
=============================================================================
