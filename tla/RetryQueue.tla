----------------------------- MODULE RetryQueue -----------------------------
(***************************************************************************)
(* The durable retry queue (lib/integrations/retry-queue.ts, retry-store.ts *)
(* and retry-handlers.ts): producers enqueue an action whose integration    *)
(* was down, and sweeps run it again until it resolves or is dead-lettered. *)
(* Sweeps overlap: the six-hourly backstop takes every provider, the daily  *)
(* health sweep and the on-demand event take what they are asked for, and   *)
(* nothing serialises them.  Every store call is a transaction of its own.  *)
(*                                                                         *)
(* A key is one logical action: a workspace and an idempotency key.         *)
(***************************************************************************)
EXTENDS Integers, FiniteSets

CONSTANTS Keys,
          Handled,        \* keys whose actionKind has a registered handler
          Producers,      \* concurrent callers of enqueueRetryableAction
          Backstops, HealthSweeps,
          MAX_ATTEMPTS,
          DEAD_AFTER,     \* the age cap, in ticks
          Backoff,        \* Backoff[n]: ticks to wait after the n-th attempt
          Limit,          \* rows per sweep
          EnqueueUntil,   \* the last tick of the day a key's date names
          MaxTime,        \* bound of the clock
          MaxCrashes      \* bound of the sweeps that die half way

ASSUME HandledAreKeys == Handled \subseteq Keys
ASSUME SweepsDiffer   == Backstops \cap HealthSweeps = {}
ASSUME CapsAreNat ==
  /\ MAX_ATTEMPTS \in Nat \ {0} /\ DEAD_AFTER \in Nat
  /\ Backoff \in [1 .. MAX_ATTEMPTS -> Nat]
  /\ Limit \in Nat \ {0} /\ EnqueueUntil \in Nat /\ MaxCrashes \in Nat
\* A row lives to see its age cap.
ASSUME TimeIsEnough == MaxTime \in Nat /\ MaxTime > EnqueueUntil + DEAD_AFTER

Sweeps == Backstops \cup HealthSweeps

VARIABLES row,       \* row[k]: the RetryableAction, or NoRow
          executed,  \* executed[k]: its done markers in the ledger (two: two or more)
          known,     \* known[p]: what producer p's findByKey returned
          todo,      \* todo[s]: rows sweep s fetched and has not come to
          turn,      \* turn[s]: the fetched row it is working on
          pc,        \* pc[s]: how far it is with that row
          clock,     \* clock[s]: the `now` it started with
          paged,     \* keys about whose death onDeadLetter was called
          runs,      \* history: handler calls that came back, up to MAX_ATTEMPTS
          crashes,
          now

vars == <<row, executed, known, todo, turn, pc, clock, paged, runs, crashes, now>>

Waiting  == {"PENDING", "HELD"}
Terminal == {"RESOLVED", "DEAD"}

\* A fetched row: the fields the sweep uses after the fetch.
Fetched == [key : Keys, attempts : 0 .. MAX_ATTEMPTS, created : 0 .. MaxTime]

Rows == [status : Waiting \cup Terminal \cup {"none"},
         attempts : 0 .. MAX_ATTEMPTS, next : 0 .. MaxTime, created : 0 .. MaxTime]

NoRow    == [status |-> "none", attempts |-> 0, next |-> 0, created |-> 0]
NoTurn   == [attempts |-> 0]
NotAsked == [asked |-> FALSE]
Answers == {NotAsked} \cup
  [asked : {TRUE}, key : Keys, revive : BOOLEAN, at : 0 .. MaxTime]

PCs == {"idle", "loop", "execute", "resolve", "fail", "page"}

TypeOK ==
  /\ row \in [Keys -> Rows]
  /\ executed \in [Keys -> 0 .. 2]
  /\ known \in [Producers -> Answers]
  /\ todo \in [Sweeps -> SUBSET Fetched]
  /\ turn \in [Sweeps -> Fetched \cup {NoTurn}]
  /\ pc \in [Sweeps -> PCs]
  /\ clock \in [Sweeps -> 0 .. MaxTime]
  /\ paged \in SUBSET Keys
  /\ runs \in [Keys -> 0 .. MAX_ATTEMPTS]
  /\ crashes \in 0 .. MaxCrashes
  /\ now \in 0 .. MaxTime

Init ==
  /\ row = [k \in Keys |-> NoRow]
  /\ executed = [k \in Keys |-> 0]
  /\ known = [p \in Producers |-> NotAsked]
  /\ todo = [s \in Sweeps |-> {}]
  /\ turn = [s \in Sweeps |-> NoTurn]
  /\ pc = [s \in Sweeps |-> "idle"]
  /\ clock = [s \in Sweeps |-> 0]
  /\ paged = {}
  /\ runs = [k \in Keys |-> 0]
  /\ crashes = 0
  /\ now = 0

\* Attempts past the cap behave alike, and so do instants past the clock's end.
CapAttempts(n) == IF n < MAX_ATTEMPTS THEN n ELSE MAX_ATTEMPTS
CapTime(t)     == IF t < MaxTime THEN t ELSE MaxTime

Tick == /\ now < MaxTime
        /\ now' = now + 1
        /\ UNCHANGED <<row, executed, known, todo, turn, pc, clock, paged, runs, crashes>>

-----------------------------------------------------------------------------
(* enqueueRetryableAction and holdRetryableAction.  The wired producer's key *)
(* carries the day's date, so nobody enqueues it later.                      *)

FindByKey(p, k) ==
  /\ now <= EnqueueUntil /\ ~known[p].asked
  /\ known' = [known EXCEPT ![p] =
       [asked |-> TRUE, key |-> k, revive |-> row[k].status \in Terminal, at |-> now]]
  /\ UNCHANGED <<row, executed, todo, turn, pc, clock, paged, runs, crashes, now>>

Upsert(p, status) ==
  /\ now <= EnqueueUntil /\ known[p].asked
  /\ LET k == known[p].key
     IN  row' = [row EXCEPT ![k] =
           [status   |-> status,
            attempts |-> IF known[p].revive THEN 0 ELSE row[k].attempts,
            next     |-> known[p].at,
            created  |-> IF row[k].status = "none" THEN now ELSE row[k].created]]
  /\ known' = [known EXCEPT ![p] = NotAsked]
  /\ UNCHANGED <<executed, todo, turn, pc, clock, paged, runs, crashes, now>>

-----------------------------------------------------------------------------
(* resumeRetryableActions.                                                  *)

Eligible(scope, at) == {k \in scope : row[k].status \in Waiting /\ row[k].next <= at}

\* findEligible takes the oldest, at most Limit of them.
OldestOf(keys) ==
  {batch \in SUBSET keys :
     /\ Cardinality(batch) <= Limit
     /\ batch = keys \/ Cardinality(batch) = Limit
     /\ \A k \in batch, l \in keys \ batch : row[k].created <= row[l].created}

\* A health sweep passes the instant it began with, the backstop reads the clock.
FindEligible(s) ==
  /\ pc[s] = "idle"
  /\ \E at    \in IF s \in Backstops THEN {now}  ELSE 0 .. now,
        scope \in IF s \in Backstops THEN {Keys} ELSE SUBSET Keys :
       \E batch \in OldestOf(Eligible(scope, at)) \ {{}} :
         /\ todo' = [todo EXCEPT ![s] =
              {[key |-> k, attempts |-> row[k].attempts, created |-> row[k].created] :
                 k \in batch}]
         /\ clock' = [clock EXCEPT ![s] = at]
  /\ pc' = [pc EXCEPT ![s] = "loop"]
  /\ UNCHANGED <<row, executed, known, turn, paged, runs, crashes, now>>

Oldest(s) == {x \in todo[s] : \A y \in todo[s] : x.created <= y.created}

\* Fault: the handler is looked up first, and the age cap comes after it.
TooOldIfHandled(s, x) == x.key \in Handled /\ clock[s] - x.created > DEAD_AFTER

TooOld(s, x) == clock[s] - x.created > DEAD_AFTER

\* Take a fetched row and go on with it at l.
Take(s, x, l) ==
  /\ pc[s] = "loop" /\ x \in Oldest(s)
  /\ todo' = [todo EXCEPT ![s] = @ \ {x}]
  /\ turn' = [turn EXCEPT ![s] = x]
  /\ pc' = [pc EXCEPT ![s] = l]
  /\ UNCHANGED clock

\* Done with a row: on to the rest of the batch, if there is one.
NextRow(s, rest) ==
  /\ todo' = [todo EXCEPT ![s] = rest]
  /\ turn' = [turn EXCEPT ![s] = NoTurn]
  /\ pc' = [pc EXCEPT ![s] = IF rest = {} THEN "idle" ELSE "loop"]
  /\ clock' = [clock EXCEPT ![s] = IF rest = {} THEN 0 ELSE @]

\* Fault: a status the enum does not have.
MarkFailed(k) == row' = [row EXCEPT ![k].status = "FAILED", ![k].next = 0]

MarkDead(k) ==
  row' = [row EXCEPT ![k].status = "DEAD", ![k].next = 0,
                     ![k].attempts = CapAttempts(@ + 1)]

DeadLetterAged(s) ==
  /\ \E x \in todo[s] : TooOld(s, x) /\ Take(s, x, "page") /\ MarkDead(x.key)
  /\ UNCHANGED <<executed, known, paged, runs, crashes, now>>

SkipNoHandler(s) ==
  /\ pc[s] = "loop"
  /\ \E x \in Oldest(s) :
       /\ ~TooOld(s, x) /\ x.key \notin Handled
       /\ NextRow(s, todo[s] \ {x})
  /\ UNCHANGED <<row, executed, known, paged, runs, crashes, now>>

\* Fault: a read of the ledger that fails counts as "executed".
AssumeExecuted(s) ==
  /\ \E x \in todo[s] :
       /\ ~TooOld(s, x) /\ x.key \in Handled
       /\ \/ Take(s, x, "resolve")
          \/ executed[x.key] = 0 /\ Take(s, x, "execute")
  /\ UNCHANGED <<row, executed, known, paged, runs, crashes, now>>

\* The handler's alreadyExecuted: a read of the ledger that fails counts as
\* "not executed".
AlreadyExecuted(s) ==
  /\ \E x \in todo[s] :
       /\ ~TooOld(s, x) /\ x.key \in Handled
       /\ \/ executed[x.key] > 0 /\ Take(s, x, "resolve")
          \/ Take(s, x, "execute")
  /\ UNCHANGED <<row, executed, known, paged, runs, crashes, now>>

\* The handler's markExecuted, which can throw before or after its commit.  The two
\* handlers that are wired do nothing else: the draft push and the Slack post they
\* stand for come with an override of the registry.
MarkExecuted(s) ==
  LET k == turn[s].key
  IN  /\ pc[s] = "execute"
      /\ \/ /\ executed' = [executed EXCEPT ![k] = IF @ < 2 THEN @ + 1 ELSE 2]
            /\ \E l \in {"resolve", "fail"} : pc' = [pc EXCEPT ![s] = l]
         \/ /\ UNCHANGED executed
            /\ pc' = [pc EXCEPT ![s] = "fail"]
      /\ UNCHANGED <<row, known, todo, turn, clock, paged, runs, crashes, now>>

CameBack(k) == runs' = [runs EXCEPT ![k] = CapAttempts(@ + 1)]

Resolve(s) ==
  /\ pc[s] = "resolve"
  /\ row' = [row EXCEPT ![turn[s].key].status = "RESOLVED", ![turn[s].key].next = 0,
                        ![turn[s].key].attempts = CapAttempts(@ + 1)]
  /\ CameBack(turn[s].key)
  /\ NextRow(s, todo[s])
  /\ UNCHANGED <<executed, known, paged, crashes, now>>

\* Fault: the attempt is counted when the row is taken and when it fails.
SpentTwice(s) == turn[s].attempts + 2

\* The attempts of the fetched row and this one.
Spent(s) == turn[s].attempts + 1

BackOff(s) ==
  /\ pc[s] = "fail" /\ Spent(s) < MAX_ATTEMPTS
  /\ row' = [row EXCEPT ![turn[s].key].attempts = Spent(s),
                        ![turn[s].key].next = CapTime(clock[s] + Backoff[Spent(s)])]
  /\ CameBack(turn[s].key)
  /\ NextRow(s, todo[s])
  /\ UNCHANGED <<executed, known, paged, crashes, now>>

\* Fault: only a death of age is reported.
DieQuietly(s) ==
  /\ pc[s] = "fail" /\ Spent(s) >= MAX_ATTEMPTS
  /\ MarkDead(turn[s].key) /\ CameBack(turn[s].key)
  /\ NextRow(s, todo[s])
  /\ UNCHANGED <<executed, known, paged, crashes, now>>

DeadLetterSpent(s) ==
  /\ pc[s] = "fail" /\ Spent(s) >= MAX_ATTEMPTS
  /\ MarkDead(turn[s].key) /\ CameBack(turn[s].key)
  /\ pc' = [pc EXCEPT ![s] = "page"]
  /\ UNCHANGED <<executed, known, todo, turn, clock, paged, crashes, now>>

\* Whether the page reaches anybody is pageHuman's business, and its result is
\* ignored.
OnDeadLetter(s) ==
  /\ pc[s] = "page"
  /\ paged' = paged \cup {turn[s].key}
  /\ NextRow(s, todo[s])
  /\ UNCHANGED <<row, executed, known, runs, crashes, now>>

\* The instance dies or a store call throws: the rest of the batch is dropped.
Crash(s) ==
  /\ pc[s] # "idle" /\ crashes < MaxCrashes
  /\ crashes' = crashes + 1
  /\ NextRow(s, {})
  /\ UNCHANGED <<row, executed, known, paged, runs, now>>

Resume(s) == \/ FindEligible(s) \/ DeadLetterAged(s) \/ SkipNoHandler(s)
             \/ AlreadyExecuted(s) \/ MarkExecuted(s)
             \/ Resolve(s) \/ BackOff(s) \/ DeadLetterSpent(s) \/ OnDeadLetter(s)

Next == \/ Tick
        \/ \E p \in Producers, k \in Keys : FindByKey(p, k)
        \/ \E p \in Producers, status \in Waiting : Upsert(p, status)
        \/ \E s \in Sweeps : Resume(s) \/ Crash(s)

Spec == Init /\ [][Next]_vars

\* The cron fires the backstop every six hours and Inngest sees it through.
FairSpec == Spec /\ WF_vars(Tick) /\ \A s \in Backstops : WF_vars(Resume(s))

-----------------------------------------------------------------------------
(* What the queue guarantees however the sweeps overlap and die.            *)

Aged(k) == now - row[k].created > DEAD_AFTER

\* No sweep closes a row whose ledger has no row for it: a RESOLVED action has its
\* done marker, whichever sweep resolved it and whatever its own ledger read answered.
\* Of the action it says no more than that (MarkExecuted).
ResolvedIsMarked ==
  \A k \in Keys : row[k].status = "RESOLVED" => executed[k] > 0

\* A row is given up only for a reason: it is past the age cap, or calls of its
\* handler came back MAX_ATTEMPTS times in its life.  No overlap of sweeps, stale
\* batch, crash or revival kills it earlier (nextAttempts is the fetched count plus
\* one own call).
DeadIsDeserved ==
  \A k \in Keys : row[k].status = "DEAD" => Aged(k) \/ runs[k] = MAX_ATTEMPTS

\* Short of a crash, a dead letter is reported: onDeadLetter was called for it, or
\* the sweep that wrote DEAD is about to call it.
DeathIsReported ==
  \A k \in Keys : row[k].status = "DEAD" /\ crashes = 0 =>
    k \in paged \/ \E s \in Sweeps : pc[s] = "page" /\ turn[s].key = k

\* "A customer must never have work silently stuck": a waiting row ends, even one
\* without a handler, one older rows keep out of the batch, or one whose sweep
\* died; the age cap and the backstop see to it.
WaitingEnds ==
  \A k \in Keys : row[k].status \in Waiting ~> row[k].status \in Terminal

-----------------------------------------------------------------------------
(* What makes the guarantees inductive (RetryQueueProofs).                  *)

\* A sweep in the middle of a row has fetched it, and a sweep's clock is not ahead.
InTurn ==
  \A s \in Sweeps : /\ pc[s] \in {"execute", "resolve", "fail", "page"} => turn[s] \in Fetched
                    /\ clock[s] <= now

\* resolve is reached only once the action is in the ledger.
ResolveIsDue ==
  \A s \in Sweeps : pc[s] = "resolve" => executed[turn[s].key] > 0

\* A fetched row has the age of the row it was fetched from.
SameAge ==
  \A s \in Sweeps : /\ \A x \in todo[s] : x.created = row[x.key].created
                    /\ turn[s] \in Fetched => turn[s].created = row[turn[s].key].created

\* Only rows once enqueued are fetched, and a row is blank until it is enqueued.
FetchedExist ==
  /\ \A s \in Sweeps : /\ \A x \in todo[s] : row[x.key].status # "none"
                       /\ turn[s] \in Fetched => row[turn[s].key].status # "none"
  /\ \A k \in Keys : row[k].status = "none" => row[k].attempts = 0

\* Until a row is past the age cap, the attempts counted anywhere were made.
AttemptsWereMade ==
  /\ \A k \in Keys : Aged(k) \/ row[k].attempts <= runs[k]
  /\ \A s \in Sweeps :
       /\ \A x \in todo[s] : Aged(x.key) \/ x.attempts <= runs[x.key]
       /\ turn[s] \in Fetched =>
            Aged(turn[s].key) \/ turn[s].attempts <= runs[turn[s].key]

IInv == /\ TypeOK /\ InTurn /\ SameAge /\ FetchedExist
        /\ ResolveIsDue /\ ResolvedIsMarked
        /\ AttemptsWereMade /\ DeadIsDeserved

-----------------------------------------------------------------------------
(* What the comments promise and the code does not keep.                    *)

\* A handler is idempotent on the key, so that a resume racing another "never
\* double-executes" (retry-handlers.ts:10): the ledger has one row for it.
ExecutedOnce == \A k \in Keys : executed[k] <= 1

\* What it takes: a ledger read that sends a sweep to execute found what is there,
\* and no two sweeps execute one action at a time.
LedgerAnswers ==
  [][\A s \in Sweeps :
       pc'[s] = "execute" => pc[s] = "execute" \/ executed[turn'[s].key] = 0]_vars
ExecuteAlone ==
  \A s, q \in Sweeps :
    pc[s] = "execute" /\ pc[q] = "execute" /\ turn[s].key = turn[q].key => s = q

\* The backstop pages a human "on each dead-letter so a stuck customer action is
\* never silent" (retry-queue-resume-sweep.ts:13): every dead letter was reported,
\* or the sweep that wrote it is about to report it.
NoSilentDeath ==
  \A k \in Keys : row[k].status = "DEAD" =>
    k \in paged \/ \E s \in Sweeps : pc[s] = "page" /\ turn[s].key = k
=============================================================================
