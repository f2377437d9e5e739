---------------------------- MODULE WebhookInbox ----------------------------
(***************************************************************************)
(* Inbound mail notifications (lib/integrations/webhook-idempotency.ts) and *)
(* the drain that runs the skill chain on them                              *)
(* (lib/inngest/functions/process-webhook-event.ts, with skills/runner.ts   *)
(* and skills/persist-artifacts.ts).  A receiver stores a row per           *)
(* notification; every fifteen minutes, and on demand, a drain takes the    *)
(* oldest ready rows.  Nothing claims a row: drains overlap.                *)
(***************************************************************************)
EXTENDS Integers, FiniteSets

CONSTANTS Workspaces,
          Notifications,  \* what the providers deliver, at least once
          OwnerOf,        \* OwnerOf[n]: the workspace it is addressed to
          Keyed,          \* those that carry a dedupe key
          MaxRows,        \* bound of the rows
          Drains,
          BACKOFFS,       \* the steps of the backoff schedule
          Limit,          \* rows per drain
          MaxCrashes,     \* bound of the drains that die half way
          MaxDrops        \* bound of the credentials that stop being ACTIVE

ASSUME OwnersAreWorkspaces == OwnerOf \in [Notifications -> Workspaces]
ASSUME KeyedAreNotifications == Keyed \subseteq Notifications
ASSUME BoundsAreNat ==
  /\ MaxRows \in Nat /\ BACKOFFS \in Nat /\ Limit \in Nat \ {0}
  /\ MaxCrashes \in Nat /\ MaxDrops \in Nat

Ids == 1 .. MaxRows     \* in the order of receivedAt

VARIABLES row,       \* row[i]: the WebhookEvent, or NoRow
          connected, \* workspaces whose credential is ACTIVE
          cards,     \* events with an approval row
          audit,     \* audit[i]: what the audit rows about it say happened
          todo,      \* todo[d]: rows drain d fetched and has not come to
          turn,      \* turn[d]: the fetched row it is working on
          made,      \* made[d]: what the chain returned for that row
          pc,        \* pc[d]: how far it is with that row
          failures,  \* history: failed attempts recorded, up to BACKOFFS + 1
          crashes, drops

vars == <<row, connected, cards, audit, todo, turn, made, pc, failures, crashes, drops>>

\* What becomes of an event: a draft, nothing (a message that needs no draft, or a
\* workspace on pause), or the chain's early exit because no message could be read
\* or categorised.
Results == {"draft", "nothing", "unread"}

\* Attempts past the last backoff step behave alike.
Cap == BACKOFFS + 1
CapAttempts(n) == IF n < Cap THEN n ELSE Cap

\* A fetched row: the fields the drain uses after the fetch.
Fetched == [id : Ids, attempts : 0 .. Cap, active : BOOLEAN]

Rows == [stored : BOOLEAN, of : Notifications \cup {"none"}, processed : BOOLEAN,
         dead : BOOLEAN, error : BOOLEAN, due : BOOLEAN, attempts : 0 .. Cap]

NoRow  == [stored |-> FALSE, of |-> "none", processed |-> FALSE, dead |-> FALSE,
           error |-> FALSE, due |-> FALSE, attempts |-> 0]
NoTurn == [id |-> 0]

PCs == {"idle", "loop", "audit", "persist", "complete", "fail"}

TypeOK ==
  /\ row \in [Ids -> Rows]
  /\ connected \in SUBSET Workspaces
  /\ cards \in SUBSET Ids
  /\ audit \in [Ids -> SUBSET Results]
  /\ todo \in [Drains -> SUBSET Fetched]
  /\ turn \in [Drains -> Fetched \cup {NoTurn}]
  /\ made \in [Drains -> Results \cup {"none"}]
  /\ pc \in [Drains -> PCs]
  /\ failures \in [Ids -> 0 .. Cap]
  /\ crashes \in 0 .. MaxCrashes
  /\ drops \in 0 .. MaxDrops

Init ==
  /\ row = [i \in Ids |-> NoRow]
  /\ connected = Workspaces
  /\ cards = {}
  /\ audit = [i \in Ids |-> {}]
  /\ todo = [d \in Drains |-> {}]
  /\ turn = [d \in Drains |-> NoTurn]
  /\ made = [d \in Drains |-> "none"]
  /\ pc = [d \in Drains |-> "idle"]
  /\ failures = [i \in Ids |-> 0]
  /\ crashes = 0
  /\ drops = 0

-----------------------------------------------------------------------------
(* The receivers.                                                           *)

\* upsertWebhookEvent.  Rows are never deleted, so a second delivery of a keyed
\* notification finds the first one's row and changes nothing; without a key every
\* delivery is a row.
Deliver(n) ==
  /\ n \in Keyed => \A i \in Ids : row[i].of # n
  /\ \E i \in Ids :
       /\ ~row[i].stored /\ \A j \in Ids : j < i => row[j].stored
       /\ row' = [row EXCEPT ![i].stored = TRUE, ![i].of = n, ![i].due = TRUE]
  /\ UNCHANGED <<connected, cards, audit, todo, turn, made, pc, failures, crashes, drops>>

Elapse(i) ==
  /\ row[i].stored /\ ~row[i].due
  /\ row' = [row EXCEPT ![i].due = TRUE]
  /\ UNCHANGED <<connected, cards, audit, todo, turn, made, pc, failures, crashes, drops>>

\* A token refresh fails, or the customer reconnects.  The subscription of the
\* mailbox outlives the credential, so notifications keep coming.
Disconnect(w) ==
  /\ w \in connected /\ drops < MaxDrops
  /\ connected' = connected \ {w}
  /\ drops' = drops + 1
  /\ UNCHANGED <<row, cards, audit, todo, turn, made, pc, failures, crashes>>

Reconnect(w) ==
  /\ w \notin connected
  /\ connected' = connected \cup {w}
  /\ UNCHANGED <<row, cards, audit, todo, turn, made, pc, failures, crashes, drops>>

-----------------------------------------------------------------------------
(* processUnprocessedWebhookEvents.                                         *)

Owner(i) == OwnerOf[row[i].of]

\* readyForProcessingFilter
Ready == {i \in Ids : row[i].stored /\ ~row[i].processed /\ ~row[i].dead /\ row[i].due}

OldestOf(ids) ==
  {batch \in SUBSET ids :
     /\ Cardinality(batch) <= Limit
     /\ batch = ids \/ Cardinality(batch) = Limit
     /\ \A i \in batch, j \in ids \ batch : i < j}

\* The rows come with their credentials as they are at this moment.
FindReady(d) ==
  /\ pc[d] = "idle"
  /\ \E batch \in OldestOf(Ready) \ {{}} :
       todo' = [todo EXCEPT ![d] =
         {[id |-> i, attempts |-> row[i].attempts, active |-> Owner(i) \in connected] :
            i \in batch}]
  /\ pc' = [pc EXCEPT ![d] = "loop"]
  /\ UNCHANGED <<row, connected, cards, audit, turn, made, failures, crashes, drops>>

First(d) == {x \in todo[d] : \A y \in todo[d] : x.id <= y.id}

\* Take a fetched row and go on with it at l.
Take(d, x, l) ==
  /\ pc[d] = "loop" /\ x \in First(d)
  /\ todo' = [todo EXCEPT ![d] = @ \ {x}]
  /\ turn' = [turn EXCEPT ![d] = x]
  /\ pc' = [pc EXCEPT ![d] = l]

\* Done with a row: on to the rest of the batch, if there is one.
NextRow(d, rest) ==
  /\ todo' = [todo EXCEPT ![d] = rest]
  /\ turn' = [turn EXCEPT ![d] = NoTurn]
  /\ made' = [made EXCEPT ![d] = "none"]
  /\ pc' = [pc EXCEPT ![d] = IF rest = {} THEN "idle" ELSE "loop"]

MarkProcessed(i) ==
  row' = [row EXCEPT ![i].processed = TRUE, ![i].error = FALSE, ![i].due = TRUE,
                     ![i].attempts = CapAttempts(@ + 1)]

\* Fault: the row says that it is done, not how.
SaysDone(i, what) == audit' = [audit EXCEPT ![i] = @ \cup {"done"}]

Says(i, what) == audit' = [audit EXCEPT ![i] = @ \cup {what}]

\* No credential, no attempt: the row stays as it is.
SkipInactive(d) ==
  /\ pc[d] = "loop"
  /\ \E x \in First(d) : ~x.active /\ NextRow(d, todo[d] \ {x})
  /\ UNCHANGED <<row, connected, cards, audit, failures, crashes, drops>>

\* isWorkspacePaused says paused: the row is marked, then the audit row written, in
\* two transactions.
PauseForBilling(d) ==
  /\ \E x \in todo[d] : x.active /\ Take(d, x, "audit") /\ MarkProcessed(x.id)
  /\ UNCHANGED <<connected, cards, audit, made, failures, crashes, drops>>

\* Fault: an audit row that cannot be written is let go.
AuditPauseIfPossible(d) ==
  /\ pc[d] = "audit"
  /\ \/ Says(turn[d].id, "nothing")
     \/ UNCHANGED audit
  /\ NextRow(d, todo[d])
  /\ UNCHANGED <<row, connected, cards, failures, crashes, drops>>

AuditPause(d) ==
  /\ pc[d] = "audit"
  /\ Says(turn[d].id, "nothing")
  /\ NextRow(d, todo[d])
  /\ UNCHANGED <<row, connected, cards, failures, crashes, drops>>

\* A full vacation pause: one transaction.
PauseForVacation(d) ==
  /\ pc[d] = "loop"
  /\ \E x \in First(d) :
       /\ x.active /\ MarkProcessed(x.id) /\ Says(x.id, "nothing")
       /\ NextRow(d, todo[d] \ {x})
  /\ UNCHANGED <<connected, cards, failures, crashes, drops>>

RunSkillChain(d) ==
  /\ \E x \in todo[d], result \in Results :
       /\ x.active /\ Take(d, x, "persist")
       /\ made' = [made EXCEPT ![d] = result]
  /\ UNCHANGED <<row, connected, cards, audit, failures, crashes, drops>>

\* Fault: a card that cannot be written does not hold up the event.
WriteIfPossible(d) ==
  /\ pc[d] = "persist"
  /\ cards' \in {cards, cards \cup {turn[d].id}}
  /\ pc' = [pc EXCEPT ![d] = "complete"]
  /\ UNCHANGED <<row, connected, audit, todo, turn, made, failures, crashes, drops>>

\* persistSkillRunArtifacts: a plain create when there is a draft.
WriteArtifacts(d) ==
  LET i == turn[d].id
  IN  /\ pc[d] = "persist"
      /\ cards' = IF made[d] = "draft" THEN cards \cup {i} ELSE cards
      /\ pc' = [pc EXCEPT ![d] = "complete"]
      /\ UNCHANGED <<row, connected, audit, todo, turn, made, failures, crashes, drops>>

\* The row is marked and skills.loop.completed written in one transaction, whatever
\* the chain returned.
Complete(d) ==
  /\ pc[d] = "complete"
  /\ MarkProcessed(turn[d].id) /\ Says(turn[d].id, made[d])
  /\ \/ NextRow(d, todo[d])
     \/ /\ pc' = [pc EXCEPT ![d] = "fail"]     \* committed, the answer lost
        /\ UNCHANGED <<todo, turn, made>>
  /\ UNCHANGED <<connected, cards, failures, crashes, drops>>

\* A gate, the chain, a write or an audit row throws.
Throw(d) ==
  /\ \/ \E x \in todo[d] : x.active /\ Take(d, x, "fail") /\ UNCHANGED made
     \/ /\ pc[d] \in {"audit", "persist", "complete"}
        /\ pc' = [pc EXCEPT ![d] = "fail"]
        /\ UNCHANGED <<todo, turn, made>>
  /\ UNCHANGED <<row, connected, cards, audit, failures, crashes, drops>>

\* Fault: the attempt is counted when the row is taken and when it fails.
SpentTwice(d) == turn[d].attempts + 2

\* decideRetry: the attempts of the fetched row and this one.
Spent(d) == turn[d].attempts + 1

\* Fault: past the last step the backoff stays at that step.
BackOffForever(d) ==
  LET i == turn[d].id
  IN  /\ pc[d] = "fail"
      /\ row' = [row EXCEPT ![i].error = TRUE, ![i].attempts = CapAttempts(@ + 1),
                            ![i].due = FALSE]
      /\ failures' = [failures EXCEPT ![i] = CapAttempts(@ + 1)]
      /\ NextRow(d, todo[d])
      /\ UNCHANGED <<connected, cards, audit, crashes, drops>>

RecordFailure(d) ==
  LET i == turn[d].id
  IN  /\ pc[d] = "fail"
      /\ row' = [row EXCEPT ![i].error = TRUE, ![i].attempts = CapAttempts(@ + 1),
                            ![i].due = Spent(d) > BACKOFFS,
                            ![i].dead = Spent(d) > BACKOFFS]
      /\ failures' = [failures EXCEPT ![i] = CapAttempts(@ + 1)]
      /\ NextRow(d, todo[d])
      /\ UNCHANGED <<connected, cards, audit, crashes, drops>>

\* The instance dies, or the update above throws: the rest of the batch is dropped.
Crash(d) ==
  /\ pc[d] # "idle" /\ crashes < MaxCrashes
  /\ crashes' = crashes + 1
  /\ NextRow(d, {})
  /\ UNCHANGED <<row, connected, cards, audit, failures, drops>>

Drain(d) == \/ FindReady(d) \/ SkipInactive(d)
            \/ PauseForBilling(d) \/ AuditPause(d) \/ PauseForVacation(d)
            \/ RunSkillChain(d) \/ WriteArtifacts(d) \/ Complete(d)
            \/ Throw(d) \/ RecordFailure(d)

Next == \/ \E n \in Notifications : Deliver(n)
        \/ \E i \in Ids : Elapse(i)
        \/ \E w \in Workspaces : Disconnect(w) \/ Reconnect(w)
        \/ \E d \in Drains : Drain(d) \/ Crash(d)

Spec == Init /\ [][Next]_vars

\* The cron fires a drain every fifteen minutes and Inngest sees it through; time
\* passes.
FairSpec == Spec /\ (\A d \in Drains : WF_vars(Drain(d)))
                 /\ (\A i \in Ids : WF_vars(Elapse(i)))

-----------------------------------------------------------------------------
(* What the drain guarantees however the drains overlap and die.            *)

\* An event completed with a draft has that draft's card: the card is committed
\* before the row is marked, so no crash, retry or overlap completes an event whose
\* draft the owner never gets.
CompletedKeepsDraft ==
  \A i \in Ids : "draft" \in audit[i] => i \in cards

\* An event is given up only after all its attempts: BACKOFFS + 1 failures of it
\* were recorded, however many drains counted from the same stale attemptCount.
DeadIsDeserved ==
  \A i \in Ids : row[i].dead => failures[i] = Cap

\* Short of a crash, a processed event can be accounted for: an audit row says how
\* it ended, its row carries an error, or a drain is about to write one of them.
ProcessedIsExplained ==
  \A i \in Ids : row[i].processed /\ crashes = 0 =>
    \/ audit[i] # {} \/ row[i].error
    \/ \E d \in Drains : pc[d] \in {"audit", "fail"} /\ turn[d].id = i

Ended(i)   == row[i].processed \/ row[i].dead
Waiting(i) == row[i].stored /\ ~Ended(i)

\* Rows that stay at the head of every batch: their workspace is disconnected.
Cut(i) == row[i].stored /\ Owner(i) \notin connected
Stuck  == {i \in Ids : Waiting(i) /\ Cut(i)}

\* The events of a connected workspace end, whatever fails and dies on the way,
\* while the rows of disconnected ones do not fill the batch.
EventEnds ==
  \A i \in Ids : Waiting(i) ~>
    Ended(i) \/ Cut(i) \/ Cardinality(Stuck) >= Limit

-----------------------------------------------------------------------------
(* What makes these three inductive (WebhookInboxProofs).                   *)

\* A drain at work on a row has fetched it, and from the chain on has its result.
TurnIsFetched ==
  \A d \in Drains :
    /\ pc[d] \notin {"idle", "loop"} => turn[d] \in Fetched
    /\ pc[d] \in {"persist", "complete"} => made[d] \in Results

\* Who is about to complete an event with a draft has stored its card.
CardIsStored ==
  \A d \in Drains : pc[d] = "complete" /\ made[d] = "draft" => turn[d].id \in cards

\* An unprocessed row counts its failures, and a fetched one no more than there are.
AttemptsAreFailures ==
  /\ \A i \in Ids : ~row[i].processed => row[i].attempts = failures[i]
  /\ \A d \in Drains : \A x \in todo[d] : x.attempts <= failures[x.id]
  /\ \A d \in Drains : pc[d] \notin {"idle", "loop"} =>
       turn[d].attempts <= failures[turn[d].id]

IInv == /\ TypeOK /\ TurnIsFetched /\ CardIsStored /\ AttemptsAreFailures
        /\ CompletedKeepsDraft /\ DeadIsDeserved /\ ProcessedIsExplained

-----------------------------------------------------------------------------
(* What the comments promise and the code does not keep.                    *)

\* When no message can be read "the webhook event is left unprocessed=false so the
\* next sweep can retry" (skills/runner.ts:217): such a run completes no event.
UnreadStaysQueued == \A i \in Ids : "unread" \notin audit[i]

\* The batch is "large enough that a backlog drains in a few fires"
\* (process-webhook-event.ts:103): the events of a connected workspace end.
BacklogDrains ==
  \A i \in Ids : Waiting(i) ~> Ended(i) \/ Cut(i)
=============================================================================
