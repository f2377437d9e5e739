------------------------- MODULE WebhookInboxProofs --------------------------
(***************************************************************************)
(* That the inbox keeps its drafts, buries no event early and accounts for  *)
(* those it processed, for any notifications, drains and backoff schedule.  *)
(***************************************************************************)
EXTENDS WebhookInbox, TLAPS

LEMMA InitInv == Init => IInv
<1> SUFFICES ASSUME Init PROVE IInv
  OBVIOUS
<1>1. TypeOK
  BY BoundsAreNat DEF Init, TypeOK, Rows, NoRow, PCs, Cap
<1>2. TurnIsFetched /\ CardIsStored /\ CompletedKeepsDraft
  BY DEF Init, TurnIsFetched, CardIsStored, CompletedKeepsDraft
<1>3. AttemptsAreFailures /\ DeadIsDeserved /\ ProcessedIsExplained
  BY DEF Init, AttemptsAreFailures, DeadIsDeserved, ProcessedIsExplained, NoRow
<1> QED
  BY <1>1, <1>2, <1>3 DEF IInv

LEMMA CapType ==
  /\ Cap \in Nat /\ Cap = BACKOFFS + 1
  /\ \A n \in 0 .. Cap : /\ CapAttempts(n + 1) \in 0 .. Cap
                         /\ n <= CapAttempts(n + 1)
                         /\ BACKOFFS <= n => CapAttempts(n + 1) = Cap
BY BoundsAreNat DEF Cap, CapAttempts

-----------------------------------------------------------------------------
(* What a step does to a row and to a drain.                                *)

\* A row stays, is stored, comes due, is marked, or has a failure recorded.
LEMMA RowStep ==
  ASSUME TypeOK, TurnIsFetched, [Next]_vars, NEW i \in Ids
  PROVE  /\ row'[i] \in Rows
         /\ \/ row'[i].attempts = row[i].attempts /\ row'[i].processed = row[i].processed
            \/ row'[i].processed
            \/ \E d \in Drains : RecordFailure(d) /\ turn[d].id = i
         /\ row'[i].dead => \/ row[i].dead
                            \/ \E d \in Drains : /\ RecordFailure(d) /\ turn[d].id = i
                                                 /\ Spent(d) > BACKOFFS
<1> USE DEF TypeOK
<1>0. row[i] \in Rows /\ row[i].attempts \in 0 .. Cap
  BY DEF Rows
<1>1. CASE row'[i] = row[i]
  BY <1>0, <1>1
<1>2. ASSUME NEW n \in Notifications, Deliver(n) PROVE row'[i] \in Rows /\
         row'[i].attempts = row[i].attempts /\ row'[i].processed = row[i].processed
         /\ row'[i].dead = row[i].dead
  <2>1. PICK j \in Ids :
          row' = [row EXCEPT ![j].stored = TRUE, ![j].of = n, ![j].due = TRUE]
    BY <1>2 DEF Deliver
  <2>2. row'[i] = IF i = j THEN [row[i] EXCEPT !.stored = TRUE, !.of = n, !.due = TRUE]
                           ELSE row[i]
    BY <1>0, <2>1
  <2> QED
    BY <1>0, <2>2 DEF Rows
<1>3. ASSUME NEW j \in Ids, Elapse(j) PROVE row'[i] \in Rows /\
         row'[i].attempts = row[i].attempts /\ row'[i].processed = row[i].processed
         /\ row'[i].dead = row[i].dead
  BY <1>0, <1>3 DEF Elapse, Rows
<1>4. ASSUME NEW j \in Ids, MarkProcessed(j), row'[i] # row[i]
      PROVE  row'[i] \in Rows /\ row'[i].processed /\ row'[i].dead = row[i].dead
  <2>1. CapAttempts(row[i].attempts + 1) \in 0 .. Cap
    BY <1>0, CapType
  <2>2. row'[i] = [row[i] EXCEPT !.processed = TRUE, !.error = FALSE, !.due = TRUE,
                                 !.attempts = CapAttempts(row[i].attempts + 1)]
    BY <1>0, <1>4 DEF MarkProcessed
  <2> QED
    BY <1>0, <2>1, <2>2 DEF Rows
<1>5. ASSUME NEW d \in Drains, RecordFailure(d), row'[i] # row[i]
      PROVE  /\ row'[i] \in Rows /\ turn[d].id = i
             /\ row'[i].dead = (Spent(d) > BACKOFFS)
  <2>1. CapAttempts(row[i].attempts + 1) \in 0 .. Cap
    BY <1>0, CapType
  <2>2. turn[d] \in Fetched /\ turn[d].id = i
    BY <1>5 DEF RecordFailure, TurnIsFetched
  <2>3. PICK over \in BOOLEAN : over = (Spent(d) > BACKOFFS)
    <3>1. Spent(d) \in Int /\ BACKOFFS \in Int
      BY <2>2, CapType, BoundsAreNat DEF Spent, Fetched
    <3>2. (Spent(d) > BACKOFFS) \in BOOLEAN
      BY <3>1
    <3> WITNESS (Spent(d) > BACKOFFS) \in BOOLEAN
    <3> QED
      OBVIOUS
  <2>4. row'[i] = [row[i] EXCEPT !.error = TRUE,
                                 !.attempts = CapAttempts(row[i].attempts + 1),
                                 !.due = over, !.dead = over]
    BY <1>0, <1>5, <2>2, <2>3 DEF RecordFailure
  <2>5. row'[i] \in Rows /\ row'[i].dead = over
    BY <1>0, <2>1, <2>4 DEF Rows
  <2> QED
    BY <2>2, <2>3, <2>5
<1>6. \/ row'[i] = row[i]
      \/ \E n \in Notifications : Deliver(n)
      \/ \E j \in Ids : Elapse(j)
      \/ \E j \in Ids : MarkProcessed(j)
      \/ \E d \in Drains : RecordFailure(d)
  <2>1. ASSUME NEW d \in Drains, PauseForBilling(d) \/ PauseForVacation(d)
        PROVE  \E j \in Ids : MarkProcessed(j)
    <3>1. PICK x \in todo[d] : MarkProcessed(x.id)
      BY <2>1 DEF PauseForBilling, PauseForVacation, First
    <3>2. x.id \in Ids
      BY DEF Fetched
    <3> QED
      BY <3>1, <3>2
  <2>2. ASSUME NEW d \in Drains, Complete(d) PROVE \E j \in Ids : MarkProcessed(j)
    BY <2>2 DEF Complete, TurnIsFetched, Fetched
  <2> QED
    BY <2>1, <2>2 DEF Next, vars, Disconnect, Reconnect, Drain, FindReady, SkipInactive,
       AuditPause, RunSkillChain, WriteArtifacts, Throw, Crash
<1> QED
  BY <1>0, <1>1, <1>2, <1>3, <1>4, <1>5, <1>6

\* A drain is moved by its own steps only.
LEMMA OwnSteps ==
  ASSUME TypeOK, [Next]_vars, NEW d \in Drains
  PROVE  \/ Drain(d) \/ Crash(d)
         \/ pc'[d] = pc[d] /\ turn'[d] = turn[d] /\ made'[d] = made[d] /\ todo'[d] = todo[d]
<1>1. ASSUME NEW e \in Drains, Drain(e) \/ Crash(e), e # d
      PROVE  pc'[d] = pc[d] /\ turn'[d] = turn[d] /\ made'[d] = made[d] /\ todo'[d] = todo[d]
  BY <1>1 DEF TypeOK, Drain, FindReady, SkipInactive, PauseForBilling, AuditPause,
       PauseForVacation, RunSkillChain, WriteArtifacts, Complete, Throw, RecordFailure, Crash,
       NextRow, Take
<1>2. CASE ~\E e \in Drains : Drain(e) \/ Crash(e)
  BY <1>2 DEF Next, vars, Deliver, Elapse, Disconnect, Reconnect
<1> QED
  BY <1>1, <1>2

\* Drain d takes the fetched row x and goes on with it at l.
Takes(d, x, l) ==
  /\ pc[d] = "loop" /\ x \in todo[d]
  /\ todo' = [todo EXCEPT ![d] = @ \ {x}]
  /\ turn' = [turn EXCEPT ![d] = x]
  /\ pc' = [pc EXCEPT ![d] = l]

\* Drain d goes on with the row in hand.
GoesOn(d) ==
  /\ UNCHANGED <<todo, turn, made>>
  /\ \/ pc[d] = "persist" /\ pc' = [pc EXCEPT ![d] = "complete"]
     \/ pc[d] \notin {"idle", "loop"} /\ pc' = [pc EXCEPT ![d] = "fail"]

Works(d) ==
  \/ FindReady(d)
  \/ \E rest \in SUBSET todo[d] : NextRow(d, rest)
  \/ \E x \in todo[d], l \in {"audit", "fail"} : Takes(d, x, l) /\ made' = made
  \/ \E x \in todo[d], result \in Results :
        Takes(d, x, "persist") /\ made' = [made EXCEPT ![d] = result]
  \/ GoesOn(d)

LEMMA DrainWorks ==
  ASSUME TypeOK, NEW d \in Drains, Drain(d) \/ Crash(d)
  PROVE  Works(d)
<1>1. SkipInactive(d) \/ PauseForVacation(d) => \E rest \in SUBSET todo[d] : NextRow(d, rest)
  BY DEF SkipInactive, PauseForVacation
<1>2. AuditPause(d) \/ RecordFailure(d) \/ Crash(d) =>
        \E rest \in SUBSET todo[d] : NextRow(d, rest)
  BY DEF AuditPause, RecordFailure, Crash
<1>3. PauseForBilling(d) => \E x \in todo[d] : Takes(d, x, "audit") /\ made' = made
  BY DEF PauseForBilling, Take, Takes
<1>4. RunSkillChain(d) => \E x \in todo[d], result \in Results :
        Takes(d, x, "persist") /\ made' = [made EXCEPT ![d] = result]
  BY DEF RunSkillChain, Take, Takes
<1>5. WriteArtifacts(d) => GoesOn(d)
  BY DEF WriteArtifacts, GoesOn
<1>6. Complete(d) => GoesOn(d) \/ \E rest \in SUBSET todo[d] : NextRow(d, rest)
  BY DEF Complete, GoesOn
<1>7. Throw(d) => GoesOn(d) \/ \E x \in todo[d] : Takes(d, x, "fail") /\ made' = made
  BY DEF Throw, GoesOn, Take, Takes
<1> QED
  BY <1>1, <1>2, <1>3, <1>4, <1>5, <1>6, <1>7 DEF Drain, Works

\* Fetched rows stay fetched rows.
LEMMA DrainMoves ==
  ASSUME TypeOK, [Next]_vars
  PROVE  /\ todo' \in [Drains -> SUBSET Fetched]
         /\ turn' \in [Drains -> Fetched \cup {NoTurn}]
         /\ made' \in [Drains -> Results \cup {"none"}]
         /\ pc' \in [Drains -> PCs]
<1> DEFINE Typed == /\ todo' \in [Drains -> SUBSET Fetched]
                    /\ turn' \in [Drains -> Fetched \cup {NoTurn}]
                    /\ made' \in [Drains -> Results \cup {"none"}]
                    /\ pc' \in [Drains -> PCs]
<1> USE DEF TypeOK, PCs
<1>1. ASSUME NEW d \in Drains, FindReady(d) PROVE Typed
  <2>1. PICK batch \in OldestOf(Ready) :
          todo' = [todo EXCEPT ![d] =
            {[id |-> i, attempts |-> row[i].attempts, active |-> Owner(i) \in connected] :
               i \in batch}]
    BY <1>1 DEF FindReady
  <2>2. batch \subseteq Ids
    BY DEF OldestOf, Ready
  <2>3. ASSUME NEW i \in batch
        PROVE  [id |-> i, attempts |-> row[i].attempts, active |-> Owner(i) \in connected]
                 \in Fetched
    <3>1. row[i].attempts \in 0 .. Cap /\ i \in Ids
      BY <2>2 DEF Rows
    <3>2. (Owner(i) \in connected) \in BOOLEAN
      OBVIOUS
    <3> QED
      BY <3>1, <3>2 DEF Fetched
  <2>4. {[id |-> i, attempts |-> row[i].attempts, active |-> Owner(i) \in connected] :
           i \in batch} \subseteq Fetched
    BY <2>3
  <2>5. todo' \in [Drains -> SUBSET Fetched]
    BY <2>1, <2>4
  <2> QED
    BY <1>1, <2>5 DEF FindReady
<1>2. ASSUME NEW d \in Drains, NEW rest \in SUBSET todo[d], NextRow(d, rest) PROVE Typed
  BY <1>2 DEF NextRow
<1>3. ASSUME NEW d \in Drains, NEW x \in todo[d], NEW l \in {"audit", "persist", "fail"},
             Takes(d, x, l)
      PROVE  /\ todo' \in [Drains -> SUBSET Fetched]
             /\ turn' \in [Drains -> Fetched \cup {NoTurn}]
             /\ pc' \in [Drains -> PCs]
  BY <1>3 DEF Takes
<1>4. ASSUME NEW d \in Drains, GoesOn(d) PROVE Typed
  BY <1>4 DEF GoesOn
<1>5. CASE UNCHANGED <<todo, turn, made, pc>>
  BY <1>5
<1>6. ASSUME NEW d \in Drains, Works(d) PROVE Typed
  BY <1>1, <1>2, <1>3, <1>4, <1>6 DEF Works
<1>7. UNCHANGED <<todo, turn, made, pc>> \/ \E d \in Drains : Drain(d) \/ Crash(d)
  BY DEF Next, vars, Deliver, Elapse, Disconnect, Reconnect
<1> QED
  BY <1>5, <1>6, <1>7, DrainWorks

\* Failures, cards and audit rows are only added.
LEMMA HistoryGrows ==
  ASSUME TypeOK, TurnIsFetched, [Next]_vars
  PROVE  /\ failures' \in [Ids -> 0 .. Cap] /\ cards \subseteq cards' /\ cards' \subseteq Ids
         /\ \A i \in Ids : /\ failures[i] <= failures'[i]
                           /\ audit[i] \subseteq audit'[i] /\ audit'[i] \subseteq Results
         /\ audit' \in [Ids -> SUBSET Results]
<1> USE DEF TypeOK
<1>1. failures' \in [Ids -> 0 .. Cap] /\ \A i \in Ids : failures[i] <= failures'[i]
  <2>1. CASE failures' = failures
    BY <2>1, CapType
  <2>2. ASSUME NEW d \in Drains, RecordFailure(d)
        PROVE  failures' \in [Ids -> 0 .. Cap] /\ \A i \in Ids : failures[i] <= failures'[i]
    <3>1. turn[d].id \in Ids
      BY <2>2 DEF RecordFailure, TurnIsFetched, Fetched
    <3>2. failures' = [failures EXCEPT ![turn[d].id] = CapAttempts(failures[turn[d].id] + 1)]
      BY <2>2 DEF RecordFailure
    <3> QED
      BY <3>1, <3>2, CapType
  <2> QED
    BY <2>1, <2>2 DEF Next, vars, Deliver, Elapse, Disconnect, Reconnect, Drain, FindReady,
       SkipInactive, PauseForBilling, AuditPause, PauseForVacation, RunSkillChain,
       WriteArtifacts, Complete, Throw, Crash
<1>2. cards \subseteq cards' /\ cards' \subseteq Ids
  <2>1. CASE cards' = cards
    BY <2>1
  <2>2. ASSUME NEW d \in Drains, WriteArtifacts(d)
        PROVE  cards \subseteq cards' /\ cards' \subseteq Ids
    BY <2>2 DEF WriteArtifacts, TurnIsFetched, Fetched
  <2> QED
    BY <2>1, <2>2 DEF Next, vars, Deliver, Elapse, Disconnect, Reconnect, Drain, FindReady,
       SkipInactive, PauseForBilling, AuditPause, PauseForVacation, RunSkillChain,
       Complete, Throw, RecordFailure, Crash
<1>3. \/ audit' = audit
      \/ \E j \in Ids, what \in Results : Says(j, what)
  <2>1. ASSUME NEW d \in Drains, AuditPause(d)
        PROVE  \E j \in Ids, what \in Results : Says(j, what)
    BY <2>1 DEF AuditPause, TurnIsFetched, Fetched, Results
  <2>2. ASSUME NEW d \in Drains, PauseForVacation(d)
        PROVE  \E j \in Ids, what \in Results : Says(j, what)
    BY <2>2 DEF PauseForVacation, First, Fetched, Results
  <2>3. ASSUME NEW d \in Drains, Complete(d)
        PROVE  \E j \in Ids, what \in Results : Says(j, what)
    BY <2>3 DEF Complete, TurnIsFetched, Fetched
  <2> QED
    BY <2>1, <2>2, <2>3 DEF Next, vars, Deliver, Elapse, Disconnect, Reconnect, Drain,
       FindReady, SkipInactive, PauseForBilling, RunSkillChain, WriteArtifacts, Throw,
       RecordFailure, Crash
<1>4. /\ audit' \in [Ids -> SUBSET Results]
      /\ \A i \in Ids : audit[i] \subseteq audit'[i] /\ audit'[i] \subseteq Results
  BY <1>3 DEF Says
<1> QED
  BY <1>1, <1>2, <1>4

-----------------------------------------------------------------------------
(* The parts of the invariant.                                              *)

LEMMA TypeStep == TypeOK /\ TurnIsFetched /\ [Next]_vars => TypeOK'
<1> SUFFICES ASSUME TypeOK, TurnIsFetched, [Next]_vars PROVE TypeOK'
  OBVIOUS
<1>1. row' \in [Ids -> Rows]
  <2>1. row' = [i \in Ids |-> row'[i]]
    BY DEF TypeOK, Next, vars, Deliver, Elapse, Disconnect, Reconnect, Drain, FindReady,
       SkipInactive, PauseForBilling, AuditPause, PauseForVacation, RunSkillChain,
       WriteArtifacts, Complete, Throw, RecordFailure, Crash, MarkProcessed
  <2>2. \A i \in Ids : row'[i] \in Rows
    BY RowStep
  <2> QED
    BY <2>1, <2>2
<1>2. failures' \in [Ids -> 0 .. Cap] /\ cards' \in SUBSET Ids /\ audit' \in [Ids -> SUBSET Results]
  BY HistoryGrows
<1>3. connected' \in SUBSET Workspaces /\ drops' \in 0 .. MaxDrops
  <2>1. CASE connected' = connected /\ drops' = drops
    BY <2>1 DEF TypeOK
  <2>2. ASSUME NEW w \in Workspaces, Disconnect(w)
        PROVE  connected' \in SUBSET Workspaces /\ drops' \in 0 .. MaxDrops
    BY <2>2, BoundsAreNat DEF TypeOK, Disconnect
  <2>3. ASSUME NEW w \in Workspaces, Reconnect(w)
        PROVE  connected' \in SUBSET Workspaces /\ drops' \in 0 .. MaxDrops
    BY <2>3 DEF TypeOK, Reconnect
  <2> QED
    BY <2>1, <2>2, <2>3 DEF Next, vars, Deliver, Elapse, Drain, FindReady, SkipInactive,
       PauseForBilling, AuditPause, PauseForVacation, RunSkillChain, WriteArtifacts, Complete,
       Throw, RecordFailure, Crash
<1>4. crashes' \in 0 .. MaxCrashes
  <2>1. CASE crashes' = crashes
    BY <2>1 DEF TypeOK
  <2>2. ASSUME NEW d \in Drains, Crash(d) PROVE crashes' \in 0 .. MaxCrashes
    BY <2>2, BoundsAreNat DEF TypeOK, Crash
  <2> QED
    BY <2>1, <2>2 DEF Next, vars, Deliver, Elapse, Disconnect, Reconnect, Drain, FindReady,
       SkipInactive, PauseForBilling, AuditPause, PauseForVacation, RunSkillChain,
       WriteArtifacts, Complete, Throw, RecordFailure
<1>5. /\ todo' \in [Drains -> SUBSET Fetched]
      /\ turn' \in [Drains -> Fetched \cup {NoTurn}]
      /\ made' \in [Drains -> Results \cup {"none"}]
      /\ pc' \in [Drains -> PCs]
  BY DrainMoves
<1> QED
  BY <1>1, <1>2, <1>3, <1>4, <1>5 DEF TypeOK
LEMMA TurnStep == TypeOK /\ TurnIsFetched /\ [Next]_vars => TurnIsFetched'
<1> SUFFICES ASSUME TypeOK, TurnIsFetched, [Next]_vars, NEW d \in Drains
             PROVE  /\ pc'[d] \notin {"idle", "loop"} => turn'[d] \in Fetched
                    /\ pc'[d] \in {"persist", "complete"} => made'[d] \in Results
  BY DEF TurnIsFetched
<1>1. CASE Works(d)
  <2>1. CASE FindReady(d) \/ \E rest \in SUBSET todo[d] : NextRow(d, rest)
    BY <2>1 DEF TypeOK, FindReady, NextRow
  <2>2. ASSUME NEW x \in todo[d], NEW l \in {"audit", "persist", "fail"}, Takes(d, x, l)
        PROVE  turn'[d] \in Fetched /\ pc'[d] = l
    BY <2>2 DEF TypeOK, Takes
  <2>3. CASE GoesOn(d)
    BY <2>3 DEF TypeOK, GoesOn, TurnIsFetched
  <2> QED
    BY <1>1, <2>1, <2>2, <2>3 DEF TypeOK, Works
<1> QED
  BY <1>1, DrainWorks, OwnSteps DEF TurnIsFetched

LEMMA CardStep == IInv /\ [Next]_vars => CardIsStored' /\ CompletedKeepsDraft'
<1> SUFFICES ASSUME IInv, [Next]_vars PROVE CardIsStored' /\ CompletedKeepsDraft'
  OBVIOUS
<1>0. TypeOK /\ TurnIsFetched /\ CardIsStored /\ CompletedKeepsDraft
  BY DEF IInv
<1>1. CardIsStored'
  <2> SUFFICES ASSUME NEW d \in Drains, pc'[d] = "complete", made'[d] = "draft"
               PROVE  turn'[d].id \in cards'
    BY DEF CardIsStored
  <2>1. CASE WriteArtifacts(d)
    BY <1>0, <2>1 DEF WriteArtifacts, TypeOK
  <2>2. CASE turn'[d] = turn[d] /\ made'[d] = made[d] /\ pc[d] = "complete"
    BY <1>0, <2>2, HistoryGrows DEF CardIsStored
  <2>3. Drain(d) \/ Crash(d) => WriteArtifacts(d)
    BY <1>0 DEF TypeOK, Drain, FindReady, SkipInactive, PauseForBilling, AuditPause,
       PauseForVacation, RunSkillChain, Complete, Throw, RecordFailure, Crash, NextRow, Take
  <2> QED
    BY <1>0, <2>1, <2>2, <2>3, OwnSteps
<1>2. CompletedKeepsDraft'
  <2> SUFFICES ASSUME NEW i \in Ids, "draft" \in audit'[i] PROVE i \in cards'
    BY DEF CompletedKeepsDraft
  <2>1. CASE "draft" \in audit[i]
    BY <1>0, <2>1, HistoryGrows DEF CompletedKeepsDraft
  <2>2. ASSUME NEW d \in Drains, Complete(d), turn[d].id = i, made[d] = "draft"
        PROVE  i \in cards'
    BY <1>0, <2>2, HistoryGrows DEF Complete, CardIsStored
  <2>3. ASSUME "draft" \notin audit[i]
        PROVE  \E d \in Drains : Complete(d) /\ turn[d].id = i /\ made[d] = "draft"
    <3>1. audit' # audit
      BY <2>3
    <3>2. ASSUME NEW d \in Drains, AuditPause(d) PROVE FALSE
      BY <1>0, <2>3, <3>2 DEF AuditPause, Says, TypeOK
    <3>3. ASSUME NEW d \in Drains, PauseForVacation(d) PROVE FALSE
      BY <1>0, <2>3, <3>3 DEF PauseForVacation, Says, TypeOK
    <3>4. ASSUME NEW d \in Drains, Complete(d)
          PROVE  turn[d].id = i /\ made[d] = "draft"
      BY <1>0, <2>3, <3>4 DEF Complete, Says, TypeOK
    <3> QED
      BY <3>1, <3>2, <3>3, <3>4 DEF Next, vars, Deliver, Elapse, Disconnect, Reconnect, Drain,
         FindReady, SkipInactive, PauseForBilling, RunSkillChain, WriteArtifacts, Throw,
         RecordFailure, Crash
  <2> QED
    BY <2>1, <2>2, <2>3
<1> QED
  BY <1>1, <1>2

\* A recorded failure is counted in the row and in the history alike.
LEMMA FailureCounts ==
  ASSUME TypeOK, TurnIsFetched, NEW d \in Drains, RecordFailure(d), NEW i \in Ids, turn[d].id = i
  PROVE  /\ row'[i].attempts = CapAttempts(row[i].attempts + 1) /\ row'[i].error
         /\ row'[i].processed = row[i].processed
         /\ failures'[i] = CapAttempts(failures[i] + 1)
         /\ \A j \in Ids \ {i} : failures'[j] = failures[j]
<1>1. row[i] \in Rows
  BY DEF TypeOK
<1>2. row'[i] = [row[i] EXCEPT !.error = TRUE,
                               !.attempts = CapAttempts(row[i].attempts + 1),
                               !.due = Spent(d) > BACKOFFS, !.dead = Spent(d) > BACKOFFS]
  BY DEF RecordFailure, TypeOK
<1>3. /\ failures'[i] = CapAttempts(failures[i] + 1)
      /\ \A j \in Ids \ {i} : failures'[j] = failures[j]
  BY DEF RecordFailure, TypeOK
<1> QED
  BY <1>1, <1>2, <1>3 DEF Rows

LEMMA AttemptsStep == IInv /\ [Next]_vars => AttemptsAreFailures'
<1> SUFFICES ASSUME IInv, [Next]_vars PROVE AttemptsAreFailures'
  OBVIOUS
<1>0. TypeOK /\ TurnIsFetched /\ AttemptsAreFailures /\ TypeOK' /\ TurnIsFetched'
  BY TypeStep, TurnStep DEF IInv
<1>1. ASSUME NEW i \in Ids, ~row'[i].processed PROVE row'[i].attempts = failures'[i]
  <2>1. CASE \E d \in Drains : RecordFailure(d) /\ turn[d].id = i
    BY <1>0, <1>1, <2>1, FailureCounts DEF AttemptsAreFailures
  <2>2. CASE ~\E d \in Drains : RecordFailure(d) /\ turn[d].id = i
    <3>1. row'[i].attempts = row[i].attempts /\ ~row[i].processed
      BY <1>0, <1>1, <2>2, RowStep
    <3>2. failures'[i] = failures[i]
      <4>1. ASSUME NEW d \in Drains, RecordFailure(d) PROVE failures'[i] = failures[i]
        <5>1. turn[d].id \in Ids /\ turn[d].id # i
          BY <1>0, <2>2, <4>1 DEF RecordFailure, TurnIsFetched, Fetched
        <5> QED
          BY <1>0, <4>1, <5>1, FailureCounts
      <4> QED
        BY <4>1 DEF Next, vars, Deliver, Elapse, Disconnect, Reconnect, Drain, FindReady,
           SkipInactive, PauseForBilling, AuditPause, PauseForVacation, RunSkillChain,
           WriteArtifacts, Complete, Throw, Crash
    <3> QED
      BY <1>0, <3>1, <3>2 DEF AttemptsAreFailures
  <2> QED
    BY <2>1, <2>2
<1>2. ASSUME NEW x \in Fetched, x.attempts <= failures[x.id]
      PROVE  x.attempts <= failures'[x.id]
  <2>1. x.id \in Ids /\ x.attempts \in Int
    BY CapType DEF Fetched
  <2>2. failures[x.id] <= failures'[x.id] /\ failures[x.id] \in Int /\ failures'[x.id] \in Int
    BY <1>0, <2>1, HistoryGrows, CapType DEF TypeOK
  <2> QED
    BY <1>2, <2>1, <2>2
<1>3. ASSUME NEW d \in Drains, NEW x \in todo'[d] PROVE x.attempts <= failures'[x.id]
  <2>1. CASE x \in todo[d]
    <3>1. x \in Fetched /\ x.attempts <= failures[x.id]
      BY <1>0, <2>1 DEF TypeOK, AttemptsAreFailures
    <3> QED
      BY <1>2, <3>1
  <2>2. CASE FindReady(d)
    <3>1. PICK batch \in OldestOf(Ready) :
            todo' = [todo EXCEPT ![d] =
              {[id |-> i, attempts |-> row[i].attempts, active |-> Owner(i) \in connected] :
                 i \in batch}]
      BY <2>2 DEF FindReady
    <3>2. PICK i \in batch :
            x = [id |-> i, attempts |-> row[i].attempts, active |-> Owner(i) \in connected]
      BY <1>0, <3>1 DEF TypeOK
    <3>3. i \in Ids /\ ~row[i].processed
      BY DEF OldestOf, Ready
    <3>4. x.id = i /\ x.attempts = failures[i] /\ failures' = failures
      BY <1>0, <2>2, <3>2, <3>3 DEF AttemptsAreFailures, FindReady
    <3>5. failures[i] \in Int
      BY <1>0, <3>3, CapType DEF TypeOK
    <3> QED
      BY <3>4, <3>5
  <2>3. CASE Works(d) /\ ~FindReady(d)
    <3>1. x \in todo[d]
      BY <1>0, <2>3 DEF Works, NextRow, Takes, GoesOn, TypeOK
    <3> QED
      BY <2>1, <3>1
  <2> QED
    BY <1>0, <2>1, <2>2, <2>3, DrainWorks, OwnSteps
<1>4. ASSUME NEW d \in Drains, pc'[d] \notin {"idle", "loop"}
      PROVE  turn'[d].attempts <= failures'[turn'[d].id]
  <2>1. turn'[d] \in Fetched
    BY <1>0, <1>4 DEF TurnIsFetched
  <2>2. turn'[d].attempts <= failures[turn'[d].id]
    <3>1. CASE turn'[d] = turn[d] /\ pc[d] \notin {"idle", "loop"}
      BY <1>0, <3>1 DEF AttemptsAreFailures
    <3>2. CASE turn'[d] \in todo[d]
      BY <1>0, <3>2 DEF AttemptsAreFailures
    <3>3. CASE Works(d)
      <4>1. ~FindReady(d) /\ ~\E rest \in SUBSET todo[d] : NextRow(d, rest)
        BY <1>0, <1>4 DEF FindReady, NextRow, TypeOK
      <4>2. turn'[d] \in todo[d] \/ GoesOn(d)
        BY <1>0, <3>3, <4>1 DEF Works, Takes, TypeOK
      <4> QED
        BY <3>1, <3>2, <4>2 DEF GoesOn
    <3> QED
      BY <1>0, <1>4, <3>1, <3>3, DrainWorks, OwnSteps
  <2> QED
    BY <1>2, <2>1, <2>2
<1> QED
  BY <1>1, <1>3, <1>4 DEF AttemptsAreFailures

LEMMA DeadStep == IInv /\ [Next]_vars => DeadIsDeserved'
<1> SUFFICES ASSUME IInv, [Next]_vars, NEW i \in Ids, row'[i].dead PROVE failures'[i] = Cap
  BY DEF DeadIsDeserved
<1>0. TypeOK /\ TurnIsFetched /\ AttemptsAreFailures
  BY DEF IInv
<1>1. failures[i] \in 0 .. Cap /\ failures'[i] \in 0 .. Cap /\ failures[i] <= failures'[i]
  BY <1>0, HistoryGrows DEF TypeOK
<1>2. CASE row[i].dead
  <2>1. failures[i] = Cap
    BY <1>2 DEF IInv, DeadIsDeserved
  <2> QED
    BY <1>1, <2>1, CapType
<1>3. ASSUME NEW d \in Drains, RecordFailure(d), turn[d].id = i, Spent(d) > BACKOFFS
      PROVE  failures'[i] = Cap
  <2>1. turn[d] \in Fetched /\ turn[d].attempts <= failures[i]
    BY <1>0, <1>3 DEF RecordFailure, TurnIsFetched, AttemptsAreFailures
  <2>2. turn[d].attempts \in Int /\ turn[d].attempts >= BACKOFFS
    BY <1>3, <2>1, CapType, BoundsAreNat DEF Fetched, Spent
  <2>3. BACKOFFS <= failures[i]
    BY <1>1, <2>1, <2>2, CapType, BoundsAreNat
  <2>4. failures'[i] = CapAttempts(failures[i] + 1)
    BY <1>0, <1>3, FailureCounts
  <2> QED
    BY <1>1, <2>3, <2>4, CapType
<1> QED
  BY <1>0, <1>2, <1>3, RowStep

LEMMA ExplainedStep == IInv /\ [Next]_vars => ProcessedIsExplained'
<1> SUFFICES ASSUME IInv, [Next]_vars, NEW i \in Ids, row'[i].processed, crashes' = 0
             PROVE  \/ audit'[i] # {} \/ row'[i].error
                    \/ \E d \in Drains : pc'[d] \in {"audit", "fail"} /\ turn'[d].id = i
  BY DEF ProcessedIsExplained
<1>0. TypeOK /\ TurnIsFetched /\ ProcessedIsExplained /\ row[i] \in Rows
  BY DEF IInv, TypeOK
<1>1. crashes = 0 /\ \A d \in Drains : ~Crash(d)
  <2>1. crashes' = crashes \/ \E d \in Drains : Crash(d)
    BY DEF Next, vars, Deliver, Elapse, Disconnect, Reconnect, Drain, FindReady,
       SkipInactive, PauseForBilling, AuditPause, PauseForVacation, RunSkillChain,
       WriteArtifacts, Complete, Throw, RecordFailure
  <2>2. ASSUME NEW d \in Drains, Crash(d) PROVE FALSE
    BY <1>0, <2>2, BoundsAreNat DEF Crash, TypeOK
  <2> QED
    BY <2>1, <2>2
<1>2. ASSUME NEW d \in Drains, PauseForBilling(d), row'[i] # row[i]
      PROVE  pc'[d] = "audit" /\ turn'[d].id = i
  BY <1>0, <1>2 DEF PauseForBilling, Take, MarkProcessed, TypeOK
<1>3. ASSUME NEW d \in Drains, PauseForVacation(d) \/ Complete(d), row'[i] # row[i]
      PROVE  audit'[i] # {}
  <2>1. ASSUME NEW j, MarkProcessed(j) PROVE j = i
    BY <1>0, <1>3, <2>1 DEF MarkProcessed, TypeOK
  <2>2. ASSUME NEW what, Says(i, what) PROVE audit'[i] # {}
    BY <1>0, <2>2 DEF Says, TypeOK
  <2>3. \E j, what : MarkProcessed(j) /\ Says(j, what)
    BY <1>3 DEF PauseForVacation, Complete
  <2> QED
    BY <2>1, <2>2, <2>3
<1>4. ASSUME NEW d \in Drains, RecordFailure(d), turn[d].id = i PROVE row'[i].error
  BY <1>0, <1>4, FailureCounts
<1>5. CASE row'[i].error = row[i].error /\ row[i].processed
           /\ ~\E d \in Drains : RecordFailure(d) /\ turn[d].id = i
  <2>1. CASE audit[i] # {} \/ row[i].error
    BY <1>0, <1>5, <2>1, HistoryGrows
  <2>2. ASSUME NEW d \in Drains, pc[d] \in {"audit", "fail"}, turn[d].id = i
        PROVE  audit'[i] # {} \/ (pc'[d] \in {"audit", "fail"} /\ turn'[d].id = i)
    <3>1. CASE Drain(d)
      <4>1. AuditPause(d) \/ Throw(d)
        BY <1>5, <2>2, <3>1 DEF Drain, FindReady, SkipInactive, PauseForBilling,
           PauseForVacation, RunSkillChain, WriteArtifacts, Complete, RecordFailure, Take
      <4>2. AuditPause(d) => audit'[i] # {}
        BY <1>0, <2>2 DEF AuditPause, Says, TypeOK
      <4>3. Throw(d) => pc'[d] = "fail" /\ turn'[d] = turn[d]
        BY <1>0, <2>2 DEF Throw, Take, TypeOK
      <4> QED
        BY <2>2, <4>1, <4>2, <4>3
    <3> QED
      BY <1>0, <1>1, <2>2, <3>1, OwnSteps
  <2> QED
    BY <1>0, <1>1, <1>5, <2>1, <2>2 DEF ProcessedIsExplained
<1>6. ASSUME row'[i] # row[i],
             ~\E d \in Drains : PauseForBilling(d) \/ PauseForVacation(d) \/ Complete(d)
                                 \/ RecordFailure(d)
      PROVE  row'[i].error = row[i].error /\ row[i].processed
  <2>1. ASSUME NEW n \in Notifications, Deliver(n)
        PROVE  row'[i].error = row[i].error /\ row'[i].processed = row[i].processed
    <3>1. PICK j \in Ids :
            row' = [row EXCEPT ![j].stored = TRUE, ![j].of = n, ![j].due = TRUE]
      BY <2>1 DEF Deliver
    <3>2. row'[i] = [row[i] EXCEPT !.stored = TRUE, !.of = n, !.due = TRUE]
      BY <1>0, <1>6, <3>1 DEF TypeOK
    <3> QED
      BY <1>0, <3>2 DEF Rows
  <2>2. ASSUME NEW j \in Ids, Elapse(j)
        PROVE  row'[i].error = row[i].error /\ row'[i].processed = row[i].processed
    BY <1>0, <2>2 DEF Elapse, Rows, TypeOK
  <2> QED
    BY <1>6, <2>1, <2>2 DEF Next, vars, Disconnect, Reconnect, Drain, FindReady, SkipInactive,
       AuditPause, RunSkillChain, WriteArtifacts, Throw, Crash
<1>7. ASSUME NEW d \in Drains, RecordFailure(d), turn[d].id # i PROVE row'[i] = row[i]
  BY <1>0, <1>7 DEF RecordFailure, TypeOK
<1> QED
  BY <1>2, <1>3, <1>4, <1>5, <1>6, <1>7

\* The invariant from which the theorems follow.
THEOREM InboxInvariant == Spec => []IInv
<1>1. IInv /\ [Next]_vars => IInv'
  <2> SUFFICES ASSUME IInv, [Next]_vars PROVE IInv'
    OBVIOUS
  <2>1. TypeOK' /\ TurnIsFetched'
    BY TypeStep, TurnStep DEF IInv
  <2> QED
    BY <2>1, CardStep, AttemptsStep, DeadStep, ExplainedStep DEF IInv
<1> QED
  BY InitInv, <1>1, PTL DEF Spec

\* Every reachable state of the inbox is well typed: no count passes its cap.
THEOREM InboxTypeCorrect == Spec => []TypeOK
BY InboxInvariant, PTL DEF IInv

\* An event completed with a draft has its card (persistSkillRunArtifacts comes before
\* the update that marks it), whatever crashes, retries or overlaps.
THEOREM CompletedKeptDraft == Spec => []CompletedKeepsDraft
BY InboxInvariant, PTL DEF IInv

\* A dead-lettered event had all its attempts (decideRetry), though every drain counts
\* from the attempts it fetched.
THEOREM DeadWasDeserved == Spec => []DeadIsDeserved
BY InboxInvariant, PTL DEF IInv

\* Short of a crash, a processed event has an audit row, an error, or a drain about to
\* write one.
THEOREM ProcessedWasExplained == Spec => []ProcessedIsExplained
BY InboxInvariant, PTL DEF IInv
=============================================================================
