-------------------------- MODULE RetryQueueProofs --------------------------
(***************************************************************************)
(* What the retry queue guarantees, proved for every number of keys,       *)
(* producers and sweeps, and for every cap, backoff and bound.             *)
(***************************************************************************)
EXTENDS RetryQueue, TLAPS

\* A sweep between two rows holds none.
LEMMA NoTurnIsNoRow == NoTurn \notin Fetched
<1> SUFFICES ASSUME NoTurn \in Fetched PROVE FALSE
  OBVIOUS
<1>1. DOMAIN NoTurn = {"attempts"}
  BY DEF NoTurn
<1>2. "key" \in DOMAIN NoTurn
  BY DEF Fetched
<1> QED
  BY <1>1, <1>2

\* CapAttempts and CapTime stay in range, and capping loses no attempt below the
\* cap.
LEMMA Caps ==
  /\ \A n \in Nat : /\ CapAttempts(n) \in 0 .. MAX_ATTEMPTS
                    /\ \A k \in 0 .. MAX_ATTEMPTS : k <= n => k <= CapAttempts(n)
                    /\ CapAttempts(n) <= n
  /\ \A n \in Nat : CapTime(n) \in 0 .. MaxTime
BY CapsAreNat, TimeIsEnough DEF CapAttempts, CapTime

-----------------------------------------------------------------------------
(* Types.                                                                   *)

LEMMA TypeInit == Init => TypeOK
BY CapsAreNat, TimeIsEnough
   DEF Init, TypeOK, NoRow, Rows, Answers, PCs, Waiting, Terminal

\* What taking a row, and being done with one, do to a sweep's own state.
LEMMA TakeType ==
  ASSUME TypeOK, NEW s \in Sweeps, NEW x \in todo[s], NEW l \in PCs, Take(s, x, l)
  PROVE  /\ x \in Fetched
         /\ todo' \in [Sweeps -> SUBSET Fetched]
         /\ turn' \in [Sweeps -> Fetched \cup {NoTurn}]
         /\ pc' \in [Sweeps -> PCs]
         /\ clock' \in [Sweeps -> 0 .. MaxTime]
BY DEF TypeOK, Take

LEMMA NextRowType ==
  ASSUME TypeOK, NEW s \in Sweeps, NEW rest \in SUBSET todo[s], NextRow(s, rest)
  PROVE  /\ todo' \in [Sweeps -> SUBSET Fetched]
         /\ turn' \in [Sweeps -> Fetched \cup {NoTurn}]
         /\ pc' \in [Sweeps -> PCs]
         /\ clock' \in [Sweeps -> 0 .. MaxTime]
<1>1. rest \in SUBSET Fetched
  BY DEF TypeOK
<1>2. 0 \in 0 .. MaxTime
  BY TimeIsEnough
<1> QED
  BY <1>1, <1>2 DEF TypeOK, NextRow, PCs

\* The three ways a handler's outcome is written keep rows and history in type.
LEMMA MarkDeadType ==
  ASSUME TypeOK, NEW k \in Keys, MarkDead(k) PROVE row' \in [Keys -> Rows]
<1>1. row[k] \in Rows
  BY DEF TypeOK
<1>2. row[k].attempts + 1 \in Nat
  BY <1>1, CapsAreNat DEF Rows
<1>3. CapAttempts(row[k].attempts + 1) \in 0 .. MAX_ATTEMPTS
  BY <1>2, Caps
<1>4. "DEAD" \in Terminal /\ 0 \in 0 .. MaxTime
  BY TimeIsEnough DEF Terminal
<1>5. [row[k] EXCEPT !.status = "DEAD", !.next = 0,
                     !.attempts = CapAttempts(row[k].attempts + 1)] \in Rows
  BY <1>1, <1>3, <1>4 DEF Rows
<1>6. row' = [row EXCEPT ![k] = [row[k] EXCEPT !.status = "DEAD", !.next = 0,
                     !.attempts = CapAttempts(row[k].attempts + 1)]]
  BY <1>1 DEF TypeOK, MarkDead, Rows
<1> QED
  BY <1>5, <1>6 DEF TypeOK

LEMMA CameBackType ==
  ASSUME TypeOK, NEW k \in Keys, CameBack(k)
  PROVE  /\ runs' \in [Keys -> 0 .. MAX_ATTEMPTS]
         /\ \A l \in Keys : runs[l] <= runs'[l]
         /\ runs'[k] = CapAttempts(runs[k] + 1)
<1>1. runs[k] \in 0 .. MAX_ATTEMPTS /\ runs[k] + 1 \in Nat
  BY CapsAreNat DEF TypeOK
<1>2. /\ CapAttempts(runs[k] + 1) \in 0 .. MAX_ATTEMPTS
      /\ runs[k] <= CapAttempts(runs[k] + 1)
  <2>1. runs[k] <= runs[k] + 1
    BY <1>1, CapsAreNat
  <2> QED
    BY <1>1, <2>1, Caps
<1> QED
  BY <1>1, <1>2, CapsAreNat DEF TypeOK, CameBack

LEMMA ResolveRowType ==
  ASSUME TypeOK, NEW s \in Sweeps, turn[s] \in Fetched, Resolve(s)
  PROVE  /\ row' \in [Keys -> Rows]
         /\ row'[turn[s].key].status = "RESOLVED"
         /\ row'[turn[s].key].attempts = CapAttempts(row[turn[s].key].attempts + 1)
         /\ row'[turn[s].key].created = row[turn[s].key].created
         /\ \A k \in Keys \ {turn[s].key} : row'[k] = row[k]
<1> DEFINE k == turn[s].key
           r == [row[k] EXCEPT !.status = "RESOLVED", !.next = 0,
                               !.attempts = CapAttempts(row[k].attempts + 1)]
<1>1. k \in Keys /\ row[k] \in Rows
  BY DEF TypeOK, Fetched
<1>2. row[k].attempts + 1 \in Nat
  BY <1>1, CapsAreNat DEF Rows
<1>3. CapAttempts(row[k].attempts + 1) \in 0 .. MAX_ATTEMPTS
  BY <1>2, Caps
<1>4. "RESOLVED" \in Terminal /\ 0 \in 0 .. MaxTime
  BY TimeIsEnough DEF Terminal
<1>5. /\ r \in Rows /\ r.status = "RESOLVED" /\ r.created = row[k].created
      /\ r.attempts = CapAttempts(row[k].attempts + 1)
  BY <1>1, <1>3, <1>4 DEF Rows
<1>6. row' = [row EXCEPT ![k] = r]
  BY <1>1 DEF TypeOK, Resolve, Rows
<1> QED
  BY <1>1, <1>5, <1>6 DEF TypeOK

LEMMA BackOffRowType ==
  ASSUME TypeOK, NEW s \in Sweeps, turn[s] \in Fetched, BackOff(s)
  PROVE  /\ row' \in [Keys -> Rows]
         /\ row'[turn[s].key].status = row[turn[s].key].status
         /\ row'[turn[s].key].attempts = turn[s].attempts + 1
         /\ row'[turn[s].key].created = row[turn[s].key].created
         /\ \A k \in Keys \ {turn[s].key} : row'[k] = row[k]
<1> DEFINE k == turn[s].key
           n == CapTime(clock[s] + Backoff[Spent(s)])
           r == [row[k] EXCEPT !.attempts = Spent(s), !.next = n]
<1>1. k \in Keys /\ row[k] \in Rows
  BY DEF TypeOK, Fetched
<1>2. /\ Spent(s) = turn[s].attempts + 1 /\ Spent(s) \in 1 .. MAX_ATTEMPTS
      /\ Spent(s) \in 0 .. MAX_ATTEMPTS
  BY CapsAreNat DEF Fetched, Spent, BackOff
<1>3. clock[s] + Backoff[Spent(s)] \in Nat
  BY <1>2, CapsAreNat, TimeIsEnough DEF TypeOK
<1>4. n \in 0 .. MaxTime
  BY <1>3, Caps
<1>5. /\ r \in Rows /\ r.status = row[k].status /\ r.created = row[k].created
      /\ r.attempts = Spent(s)
  BY <1>1, <1>2, <1>4 DEF Rows
<1>6. row' = [row EXCEPT ![k] = r]
  BY <1>1 DEF TypeOK, BackOff, Rows
<1> QED
  BY <1>1, <1>2, <1>5, <1>6 DEF TypeOK

LEMMA MarkDeadRow ==
  ASSUME TypeOK, NEW k \in Keys, MarkDead(k)
  PROVE  /\ row'[k].status = "DEAD"
         /\ row'[k].attempts = CapAttempts(row[k].attempts + 1)
         /\ row'[k].created = row[k].created
         /\ \A l \in Keys \ {k} : row'[l] = row[l]
<1>1. row[k] \in Rows
  BY DEF TypeOK
<1> QED
  BY <1>1 DEF TypeOK, MarkDead, Rows

\* A step keeps the types; a sweep in the middle of a row has fetched it.
LEMMA TypeStep == TypeOK /\ InTurn /\ [Next]_vars => TypeOK'
<1> SUFFICES ASSUME TypeOK, InTurn, [Next]_vars PROVE TypeOK'
  OBVIOUS
<1>1. CASE UNCHANGED vars
  BY <1>1 DEF vars, TypeOK
<1>2. CASE Tick
  BY <1>2, TimeIsEnough DEF Tick, TypeOK
<1>3. ASSUME NEW p \in Producers, NEW k \in Keys, FindByKey(p, k) PROVE TypeOK'
  <2>1. [asked |-> TRUE, key |-> k, revive |-> row[k].status \in Terminal, at |-> now]
          \in Answers
    BY DEF Answers, TypeOK
  <2> QED
    BY <1>3, <2>1 DEF FindByKey, TypeOK
<1>4. ASSUME NEW p \in Producers, NEW status \in Waiting, Upsert(p, status)
      PROVE  TypeOK'
  <2>1. /\ known[p].key \in Keys /\ known[p].at \in 0 .. MaxTime
        /\ row[known[p].key] \in Rows
    <3>1. known[p] # NotAsked
      BY <1>4 DEF NotAsked, Upsert
    <3>2. known[p] \in [asked : {TRUE}, key : Keys, revive : BOOLEAN, at : 0 .. MaxTime]
      BY <3>1 DEF TypeOK, Answers
    <3> QED
      BY <3>2 DEF TypeOK
  <2>2. 0 \in 0 .. MAX_ATTEMPTS
    BY CapsAreNat
  <2>3. row' \in [Keys -> Rows]
    BY <1>4, <2>1, <2>2 DEF TypeOK, Upsert, Rows
  <2>4. known' \in [Producers -> Answers]
    BY <1>4 DEF TypeOK, Upsert, Answers
  <2> QED
    BY <1>4, <2>3, <2>4 DEF TypeOK, Upsert
<1>5. ASSUME NEW s \in Sweeps, Resume(s) PROVE TypeOK'
  <2>1. CASE FindEligible(s)
    <3>1. PICK at \in 0 .. now, scope \in SUBSET Keys :
            \E batch \in OldestOf(Eligible(scope, at)) :
              /\ todo' = [todo EXCEPT ![s] =
                   {[key |-> k, attempts |-> row[k].attempts, created |-> row[k].created] :
                      k \in batch}]
              /\ clock' = [clock EXCEPT ![s] = at]
      <4>1. now \in 0 .. now
        BY DEF TypeOK
      <4> QED
        BY <2>1, <4>1 DEF FindEligible
    <3>2. PICK batch \in SUBSET Keys :
            todo' = [todo EXCEPT ![s] =
              {[key |-> k, attempts |-> row[k].attempts, created |-> row[k].created] :
                 k \in batch}]
      BY <3>1 DEF OldestOf, Eligible
    <3>3. {[key |-> k, attempts |-> row[k].attempts, created |-> row[k].created] :
             k \in batch} \in SUBSET Fetched
      BY DEF TypeOK, Rows, Fetched
    <3>4. at \in 0 .. MaxTime
      BY TimeIsEnough DEF TypeOK
    <3> QED
      BY <2>1, <3>1, <3>2, <3>3, <3>4 DEF FindEligible, TypeOK, PCs
  <2>2. CASE DeadLetterAged(s)
    <3>1. PICK x \in todo[s] : Take(s, x, "page") /\ MarkDead(x.key)
      BY <2>2 DEF DeadLetterAged
    <3>2. x.key \in Keys
      BY DEF TypeOK, Fetched
    <3> QED
      BY <2>2, <3>1, <3>2, TakeType, MarkDeadType DEF DeadLetterAged, TypeOK, PCs
  <2>3. CASE SkipNoHandler(s)
    <3>1. PICK x \in todo[s] : NextRow(s, todo[s] \ {x})
      BY <2>3 DEF SkipNoHandler, Oldest
    <3> QED
      BY <2>3, <3>1, NextRowType DEF SkipNoHandler, TypeOK
  <2>4. CASE AlreadyExecuted(s)
    <3>1. PICK x \in todo[s], l \in {"resolve", "execute"} : Take(s, x, l)
      BY <2>4 DEF AlreadyExecuted
    <3> QED
      BY <2>4, <3>1, TakeType DEF AlreadyExecuted, TypeOK, PCs
  <2>5. CASE MarkExecuted(s)
    BY <2>5 DEF MarkExecuted, TypeOK, PCs
  <2>6. CASE Resolve(s)
    <3>1. turn[s] \in Fetched /\ turn[s].key \in Keys
      BY <2>6 DEF InTurn, Resolve, Fetched
    <3> QED
      BY <2>6, <3>1, ResolveRowType, CameBackType, NextRowType DEF Resolve, TypeOK
  <2>7. CASE BackOff(s)
    <3>1. turn[s] \in Fetched /\ turn[s].key \in Keys
      BY <2>7 DEF InTurn, BackOff, Fetched
    <3> QED
      BY <2>7, <3>1, BackOffRowType, CameBackType, NextRowType DEF BackOff, TypeOK
  <2>8. CASE DeadLetterSpent(s)
    <3>1. turn[s] \in Fetched /\ turn[s].key \in Keys
      BY <2>8 DEF InTurn, DeadLetterSpent, Fetched
    <3> QED
      BY <2>8, <3>1, MarkDeadType, CameBackType DEF DeadLetterSpent, TypeOK, PCs
  <2>9. CASE OnDeadLetter(s)
    <3>1. turn[s].key \in Keys
      BY <2>9 DEF InTurn, OnDeadLetter, Fetched
    <3> QED
      BY <2>9, <3>1, NextRowType DEF OnDeadLetter, TypeOK
  <2> QED
    BY <1>5, <2>1, <2>2, <2>3, <2>4, <2>5, <2>6, <2>7, <2>8, <2>9 DEF Resume
<1>6. ASSUME NEW s \in Sweeps, Crash(s) PROVE TypeOK'
  BY <1>6, NextRowType, CapsAreNat DEF Crash, TypeOK
<1> QED
  BY <1>1, <1>2, <1>3, <1>4, <1>5, <1>6 DEF Next

-----------------------------------------------------------------------------
(* The inductive invariant.                                                 *)

LEMMA InvInit == Init => IInv
BY TypeInit, NoTurnIsNoRow
   DEF Init, IInv, InTurn, SameAge, FetchedExist, ResolveIsDue, ResolvedIsMarked,
       AttemptsWereMade, DeadIsDeserved, NoRow

\* What a sweep holds after taking a row, or after being done with one, and that
\* the other sweeps keep what they hold.
LEMMA TakeDoes ==
  ASSUME TypeOK, NEW s \in Sweeps, NEW x \in todo[s], NEW l \in PCs, Take(s, x, l)
  PROVE  /\ x \in Fetched /\ pc[s] = "loop"
         /\ todo'[s] \subseteq todo[s] /\ turn'[s] = x /\ pc'[s] = l /\ clock' = clock
         /\ \A q \in Sweeps \ {s} :
              todo'[q] = todo[q] /\ turn'[q] = turn[q] /\ pc'[q] = pc[q]
BY DEF TypeOK, Take

LEMMA NextRowDoes ==
  ASSUME TypeOK, NEW s \in Sweeps, NEW rest \in SUBSET todo[s], NextRow(s, rest)
  PROVE  /\ todo'[s] \subseteq todo[s] /\ turn'[s] = NoTurn
         /\ pc'[s] \in {"idle", "loop"} /\ clock'[s] <= clock[s]
         /\ \A q \in Sweeps \ {s} : /\ todo'[q] = todo[q] /\ turn'[q] = turn[q]
                                     /\ pc'[q] = pc[q] /\ clock'[q] = clock[q]
BY TimeIsEnough DEF TypeOK, NextRow

\* What a step may do to the rows and to the history: it keeps a row's creation,
\* takes back no handler call and no ledger row, counts an attempt only once it was
\* made, resolves what was executed and buries for a reason.
AgedAfter(k) == now' - row'[k].created > DEAD_AFTER

RowCarries(k) ==
  /\ runs[k] <= runs'[k] /\ executed[k] <= executed'[k]
  /\ row[k].status # "none" => row'[k].status # "none" /\ row'[k].created = row[k].created
  /\ row'[k].status = "none" => row'[k].attempts = 0
  /\ row'[k].attempts = row[k].attempts \/ AgedAfter(k) \/ row'[k].attempts <= runs'[k]
  /\ row'[k].status = "RESOLVED" => row[k].status = "RESOLVED" \/ executed'[k] > 0
  /\ row'[k].status = "DEAD" =>
       row[k].status = "DEAD" \/ AgedAfter(k) \/ runs'[k] = MAX_ATTEMPTS

RowsCarry == now <= now' /\ \A k \in Keys : RowCarries(k)

\* What a step may do to the sweeps: a sweep holds nothing but what it held, or what
\* it has just read, and gets to resolve only for an executed action.
SweepCarries(s) ==
  /\ pc'[s] \in {"execute", "resolve", "fail", "page"} => turn'[s] \in Fetched
  /\ clock'[s] <= now'
  /\ \A x \in todo'[s] :
       \/ x \in todo[s]
       \/ /\ row'[x.key].status # "none"
          /\ x.created = row'[x.key].created /\ x.attempts = row'[x.key].attempts
  /\ turn'[s] \in Fetched => turn'[s] \in todo[s] \/ turn'[s] = turn[s]
  /\ pc'[s] = "resolve" =>
       \/ pc[s] = "resolve" /\ turn'[s] = turn[s]
       \/ executed'[turn'[s].key] > 0

\* The invariant carries over such a step.
LEMMA Carry ==
  ASSUME IInv, TypeOK', RowsCarry, \A s \in Sweeps : SweepCarries(s)
  PROVE  IInv'
<1>1. TypeOK /\ SameAge /\ FetchedExist /\ AttemptsWereMade
  BY DEF IInv
<1>2. ASSUME NEW k \in Keys
      PROVE  /\ now \in 0 .. MaxTime /\ now' \in 0 .. MaxTime
             /\ row[k] \in Rows /\ row'[k] \in Rows
             /\ runs[k] \in 0 .. MAX_ATTEMPTS /\ runs'[k] \in 0 .. MAX_ATTEMPTS
             /\ executed[k] \in 0 .. 2 /\ executed'[k] \in 0 .. 2
  BY <1>1 DEF TypeOK
<1>3. ASSUME NEW k \in Keys, Aged(k), row[k].status # "none" PROVE AgedAfter(k)
  <2>1. row'[k].created = row[k].created /\ now <= now'
    BY <1>3 DEF RowsCarry, RowCarries
  <2> QED
    BY <1>2, <1>3, <2>1, CapsAreNat, TimeIsEnough DEF Aged, AgedAfter, Rows
<1> DEFINE Held(x) == /\ x.created = row[x.key].created /\ row[x.key].status # "none"
                      /\ Aged(x.key) \/ x.attempts <= runs[x.key]
           Holds(x) == /\ x.created = row'[x.key].created /\ row'[x.key].status # "none"
                       /\ AgedAfter(x.key) \/ x.attempts <= runs'[x.key]
<1>4. \A x \in Fetched : Held(x) => Holds(x)
  <2> SUFFICES ASSUME NEW x \in Fetched, Held(x) PROVE Holds(x)
    OBVIOUS
  <2>1. x.key \in Keys /\ x.attempts \in 0 .. MAX_ATTEMPTS
    BY DEF Fetched
  <2>2. /\ row'[x.key].status # "none" /\ row'[x.key].created = row[x.key].created
        /\ runs[x.key] <= runs'[x.key]
    BY <2>1 DEF RowsCarry, RowCarries
  <2>3. CASE Aged(x.key)
    BY <1>3, <2>1, <2>2, <2>3
  <2>4. CASE x.attempts <= runs[x.key]
    <3>1. x.attempts <= runs'[x.key]
      BY <1>2, <2>1, <2>2, <2>4, CapsAreNat
    <3> QED
      BY <2>2, <3>1
  <2> QED
    BY <2>3, <2>4
<1>5. \A s \in Sweeps : \A x \in todo[s] : x \in Fetched /\ Held(x)
  BY <1>1 DEF TypeOK, SameAge, FetchedExist, AttemptsWereMade
<1>6. \A s \in Sweeps : turn[s] \in Fetched => Held(turn[s])
  BY <1>1 DEF SameAge, FetchedExist, AttemptsWereMade
<1>7. ASSUME NEW k \in Keys PROVE AgedAfter(k) \/ row'[k].attempts <= runs'[k]
  <2>1. /\ row'[k].attempts = row[k].attempts \/ AgedAfter(k)
             \/ row'[k].attempts <= runs'[k]
        /\ runs[k] <= runs'[k]
    BY DEF RowsCarry, RowCarries
  <2>2. CASE row'[k].attempts = row[k].attempts /\ row[k].status = "none"
    BY <1>1, <1>2, <2>2, CapsAreNat DEF FetchedExist
  <2>3. CASE row'[k].attempts = row[k].attempts /\ row[k].status # "none"
    <3>1. Aged(k) \/ row[k].attempts <= runs[k]
      BY <1>1 DEF AttemptsWereMade
    <3> QED
      BY <1>2, <1>3, <2>1, <2>3, <3>1, CapsAreNat DEF Rows
  <2> QED
    BY <2>1, <2>2, <2>3
<1>8. \A s \in Sweeps : \A x \in todo'[s] : Holds(x)
  <2> SUFFICES ASSUME NEW s \in Sweeps, NEW x \in todo'[s] PROVE Holds(x)
    OBVIOUS
  <2>1. CASE x \in todo[s]
    BY <1>4, <1>5, <2>1
  <2>2. CASE x \notin todo[s]
    <3>1. x.key \in Keys
      BY DEF TypeOK, Fetched
    <3> QED
      BY <1>7, <2>2, <3>1 DEF SweepCarries
  <2> QED
    BY <2>1, <2>2
<1>9. \A s \in Sweeps : turn'[s] \in Fetched => Holds(turn'[s])
  <2> SUFFICES ASSUME NEW s \in Sweeps, turn'[s] \in Fetched PROVE Holds(turn'[s])
    OBVIOUS
  <2>1. CASE turn'[s] \in todo[s]
    BY <1>4, <1>5, <2>1
  <2>2. CASE turn'[s] = turn[s]
    BY <1>4, <1>6, <2>2
  <2> QED
    BY <2>1, <2>2 DEF SweepCarries
<1> HIDE DEF Held, Holds
<1>10. InTurn'
  BY DEF InTurn, SweepCarries
<1>11. SameAge'
  BY <1>8, <1>9 DEF SameAge, Holds
<1>12. FetchedExist'
  BY <1>8, <1>9 DEF FetchedExist, Holds, RowsCarry, RowCarries
<1>13. AttemptsWereMade'
  BY <1>7, <1>8, <1>9 DEF AttemptsWereMade, Aged, AgedAfter, Holds
<1>14. ResolveIsDue'
  <2> SUFFICES ASSUME NEW s \in Sweeps, pc'[s] = "resolve"
               PROVE  executed'[turn'[s].key] > 0
    BY DEF ResolveIsDue
  <2>1. CASE pc[s] = "resolve" /\ turn'[s] = turn[s]
    <3>1. executed[turn[s].key] > 0
      BY <2>1 DEF IInv, ResolveIsDue
    <3>2. turn[s].key \in Keys
      BY <2>1 DEF IInv, InTurn, Fetched
    <3>3. executed[turn[s].key] <= executed'[turn[s].key]
      BY <3>2 DEF RowsCarry, RowCarries
    <3> QED
      BY <1>2, <2>1, <3>1, <3>2, <3>3
  <2> QED
    BY <2>1 DEF SweepCarries
<1>15. ResolvedIsMarked'
  <2> SUFFICES ASSUME NEW k \in Keys, row'[k].status = "RESOLVED" PROVE executed'[k] > 0
    BY DEF ResolvedIsMarked
  <2>1. /\ row[k].status = "RESOLVED" \/ executed'[k] > 0
        /\ executed[k] <= executed'[k]
    BY DEF RowsCarry, RowCarries
  <2> QED
    BY <1>2, <2>1 DEF IInv, ResolvedIsMarked
<1>16. DeadIsDeserved'
  <2> SUFFICES ASSUME NEW k \in Keys, row'[k].status = "DEAD"
               PROVE  AgedAfter(k) \/ runs'[k] = MAX_ATTEMPTS
    BY DEF DeadIsDeserved, Aged, AgedAfter
  <2>1. /\ row[k].status = "DEAD" \/ AgedAfter(k) \/ runs'[k] = MAX_ATTEMPTS
        /\ runs[k] <= runs'[k]
    BY DEF RowsCarry, RowCarries
  <2>2. CASE row[k].status = "DEAD"
    <3>1. Aged(k) \/ runs[k] = MAX_ATTEMPTS
      BY <2>2 DEF IInv, DeadIsDeserved
    <3> QED
      BY <1>2, <1>3, <2>1, <2>2, <3>1, CapsAreNat
  <2> QED
    BY <2>1, <2>2
<1> QED
  BY <1>10, <1>11, <1>12, <1>13, <1>14, <1>15, <1>16 DEF IInv

\* A step that writes no row carries the rows, and the three ways a step treats the
\* sweeps carry them.
LEMMA RowsKept ==
  ASSUME IInv, now <= now', UNCHANGED <<row, runs>>,
         \A k \in Keys : executed[k] <= executed'[k]
  PROVE  RowsCarry
<1>1. ASSUME NEW k \in Keys PROVE RowCarries(k)
  <2>1. runs[k] <= runs[k]
    BY CapsAreNat DEF IInv, TypeOK
  <2> QED
    BY <2>1 DEF IInv, FetchedExist, RowCarries
<1> QED
  BY <1>1 DEF RowsCarry

LEMMA SweepsKept ==
  ASSUME IInv, TypeOK', now <= now', UNCHANGED <<todo, turn, pc, clock>>
  PROVE  \A s \in Sweeps : SweepCarries(s)
<1>1. ASSUME NEW s \in Sweeps PROVE clock[s] <= now'
  <2>1. clock[s] \in 0 .. MaxTime /\ now \in 0 .. MaxTime /\ now' \in 0 .. MaxTime
    BY DEF IInv, TypeOK
  <2> QED
    BY <2>1, TimeIsEnough DEF IInv, InTurn
<1> QED
  BY <1>1 DEF IInv, InTurn, SweepCarries

LEMMA SweepTakes ==
  ASSUME IInv, NEW s \in Sweeps, NEW x \in todo[s], NEW l \in PCs, Take(s, x, l),
         now' = now, executed' = executed, l = "resolve" => executed[x.key] > 0
  PROVE  \A q \in Sweeps : SweepCarries(q)
<1>1. /\ x \in Fetched /\ todo'[s] \subseteq todo[s] /\ turn'[s] = x
      /\ pc'[s] = l /\ clock' = clock
      /\ \A q \in Sweeps \ {s} :
           todo'[q] = todo[q] /\ turn'[q] = turn[q] /\ pc'[q] = pc[q]
  BY TakeDoes DEF IInv
<1>2. SweepCarries(s)
  BY <1>1 DEF IInv, InTurn, SweepCarries
<1>3. \A q \in Sweeps \ {s} : SweepCarries(q)
  BY <1>1 DEF IInv, InTurn, SweepCarries
<1> QED
  BY <1>2, <1>3

LEMMA SweepRests ==
  ASSUME IInv, NEW s \in Sweeps, NEW rest \in SUBSET todo[s], NextRow(s, rest),
         now' = now
  PROVE  \A q \in Sweeps : SweepCarries(q)
<1>1. /\ todo'[s] \subseteq todo[s] /\ turn'[s] = NoTurn
      /\ pc'[s] \in {"idle", "loop"} /\ clock'[s] <= clock[s]
      /\ \A q \in Sweeps \ {s} : /\ todo'[q] = todo[q] /\ turn'[q] = turn[q]
                                  /\ pc'[q] = pc[q] /\ clock'[q] = clock[q]
  BY NextRowDoes DEF IInv
<1>2. clock'[s] <= now'
  <2>1. clock[s] \in 0 .. MaxTime /\ clock'[s] \in 0 .. MaxTime /\ now \in 0 .. MaxTime
    BY NextRowType DEF IInv, TypeOK
  <2> QED
    BY <1>1, <2>1, TimeIsEnough DEF IInv, InTurn
<1>3. SweepCarries(s)
  BY <1>1, <1>2, NoTurnIsNoRow DEF SweepCarries
<1>4. \A q \in Sweeps \ {s} : SweepCarries(q)
  BY <1>1 DEF IInv, InTurn, SweepCarries
<1> QED
  BY <1>3, <1>4

\* A handler call that came back pays for the attempt it is counted as.
LEMMA CallPays ==
  ASSUME IInv, NEW k \in Keys, CameBack(k), NEW n \in 0 .. MAX_ATTEMPTS, n <= runs[k]
  PROVE  CapAttempts(n + 1) <= runs'[k]
<1>1. runs'[k] = CapAttempts(runs[k] + 1) /\ runs[k] \in 0 .. MAX_ATTEMPTS
  BY CameBackType DEF IInv, TypeOK
<1> QED
  BY <1>1, CapsAreNat DEF CapAttempts

\* An action that writes one row, keeping its creation, carries all of them if it
\* carries that one.
LEMMA OneRow ==
  ASSUME IInv, NEW k \in Keys, now' = now, executed' = executed,
         \A l \in Keys : runs[l] <= runs'[l],
         \A l \in Keys \ {k} : row'[l] = row[l],
         RowCarries(k)
  PROVE  RowsCarry
<1>1. \A l \in Keys \ {k} : RowCarries(l)
  BY DEF IInv, TypeOK, FetchedExist, RowCarries
<1>2. now <= now'
  BY TimeIsEnough DEF IInv, TypeOK
<1> QED
  BY <1>1, <1>2 DEF RowsCarry

\* A producer may revive a row and reset its count; it neither resolves nor buries.
LEMMA UpsertCarries ==
  ASSUME IInv, NEW p \in Producers, NEW status \in Waiting, Upsert(p, status)
  PROVE  RowsCarry
<1> DEFINE k == known[p].key
<1>1. k \in Keys
  <2>1. known[p] # NotAsked
    BY DEF NotAsked, Upsert
  <2>2. known[p] \in [asked : {TRUE}, key : Keys, revive : BOOLEAN, at : 0 .. MaxTime]
    BY <2>1 DEF IInv, TypeOK, Answers
  <2> QED
    BY <2>2
<1>2. row'[k] = [status   |-> status,
                 attempts |-> IF known[p].revive THEN 0 ELSE row[k].attempts,
                 next     |-> known[p].at,
                 created  |-> IF row[k].status = "none" THEN now ELSE row[k].created]
  BY <1>1 DEF IInv, TypeOK, Upsert
<1>3. \A l \in Keys \ {k} : row'[l] = row[l]
  BY DEF IInv, TypeOK, Upsert
<1>4. \A l \in Keys : runs'[l] = runs[l] /\ runs[l] \in Nat /\ runs[l] <= runs'[l]
  BY CapsAreNat DEF IInv, TypeOK, Upsert
<1>5. executed' = executed /\ now' = now /\ executed[k] \in Nat
  BY <1>1 DEF IInv, TypeOK, Upsert
<1>6. RowCarries(k)
  BY <1>1, <1>2, <1>4, <1>5 DEF RowCarries, Waiting
<1> QED
  BY <1>1, <1>3, <1>4, <1>5, <1>6, OneRow

\* A row past its age is buried with cause.
LEMMA DeadLetterAgedCarries ==
  ASSUME IInv, NEW s \in Sweeps, DeadLetterAged(s)
  PROVE  RowsCarry /\ \A q \in Sweeps : SweepCarries(q)
<1>1. PICK x \in todo[s] : TooOld(s, x) /\ Take(s, x, "page") /\ MarkDead(x.key)
  BY DEF DeadLetterAged
<1>2. UNCHANGED <<executed, runs, now>>
  BY DEF DeadLetterAged
<1>3. x \in Fetched /\ x.key \in Keys /\ x.created = row[x.key].created
      /\ row[x.key].status # "none"
  BY DEF IInv, TypeOK, SameAge, FetchedExist, Fetched
<1>4. /\ row'[x.key].status = "DEAD"
      /\ row'[x.key].created = row[x.key].created
      /\ \A l \in Keys \ {x.key} : row'[l] = row[l]
  BY <1>1, <1>3, MarkDeadRow DEF IInv
<1>5. AgedAfter(x.key)
  <2>1. clock[s] \in 0 .. MaxTime /\ now \in 0 .. MaxTime /\ x.created \in 0 .. MaxTime
    BY <1>3 DEF IInv, TypeOK, Fetched
  <2>2. clock[s] <= now /\ clock[s] - x.created > DEAD_AFTER
    BY <1>1 DEF IInv, InTurn, TooOld
  <2> QED
    BY <1>2, <1>3, <1>4, <2>1, <2>2, CapsAreNat, TimeIsEnough DEF AgedAfter
<1>6. \A l \in Keys : runs[l] <= runs'[l]
  BY <1>2, CapsAreNat DEF IInv, TypeOK
<1>7. executed[x.key] <= executed'[x.key]
  BY <1>2, <1>3 DEF IInv, TypeOK
<1>8. RowCarries(x.key)
  BY <1>3, <1>4, <1>5, <1>6, <1>7 DEF RowCarries
<1>9. RowsCarry
  BY <1>2, <1>3, <1>4, <1>6, <1>8, OneRow
<1> QED
  BY <1>1, <1>2, <1>9, SweepTakes DEF PCs

\* A handler's outcome, written by Resolve, BackOff or DeadLetterSpent, carries the
\* row if a call that came back pays for its count.
LEMMA OutcomeCarries ==
  ASSUME IInv, NEW k \in Keys, CameBack(k), now' = now, executed' = executed,
         row[k].status # "none",
         row'[k].status # "none",
         row'[k].created = row[k].created,
         \A l \in Keys \ {k} : row'[l] = row[l],
         Aged(k) \/ row'[k].attempts <= runs'[k],
         row'[k].status = "RESOLVED" => row[k].status = "RESOLVED" \/ executed[k] > 0,
         row'[k].status = "DEAD" =>
           row[k].status = "DEAD" \/ Aged(k) \/ runs'[k] = MAX_ATTEMPTS
  PROVE  RowsCarry
<1>1. \A l \in Keys : runs[l] <= runs'[l]
  BY CameBackType DEF IInv
<1>2. executed[k] <= executed'[k]
  BY DEF IInv, TypeOK
<1>3. Aged(k) => AgedAfter(k)
  BY DEF Aged, AgedAfter
<1>4. RowCarries(k)
  BY <1>1, <1>2, <1>3 DEF RowCarries
<1> QED
  BY <1>1, <1>4, OneRow

\* What a sweep in the middle of a row knows of it.
LEMMA TurnKnows ==
  ASSUME IInv, NEW s \in Sweeps, pc[s] \in {"execute", "resolve", "fail", "page"}
  PROVE  /\ turn[s] \in Fetched /\ turn[s].key \in Keys
         /\ turn[s].attempts \in 0 .. MAX_ATTEMPTS
         /\ row[turn[s].key] \in Rows /\ row[turn[s].key].status # "none"
         /\ row[turn[s].key].attempts \in 0 .. MAX_ATTEMPTS
         /\ runs[turn[s].key] \in 0 .. MAX_ATTEMPTS
         /\ Aged(turn[s].key) \/ turn[s].attempts <= runs[turn[s].key]
         /\ Aged(turn[s].key) \/ row[turn[s].key].attempts <= runs[turn[s].key]
<1>1. turn[s] \in Fetched /\ turn[s].key \in Keys /\ turn[s].attempts \in 0 .. MAX_ATTEMPTS
  BY DEF IInv, InTurn, Fetched
<1>2. row[turn[s].key] \in Rows /\ runs[turn[s].key] \in 0 .. MAX_ATTEMPTS
  BY <1>1 DEF IInv, TypeOK
<1> QED
  BY <1>1, <1>2 DEF IInv, FetchedExist, AttemptsWereMade, Rows

LEMMA ResolveCarries ==
  ASSUME IInv, NEW s \in Sweeps, Resolve(s) PROVE RowsCarry
<1> DEFINE k == turn[s].key
<1>1. pc[s] = "resolve" /\ CameBack(k) /\ now' = now /\ executed' = executed
  BY DEF Resolve
<1>2. /\ row'[k].status = "RESOLVED" /\ row'[k].created = row[k].created
      /\ row'[k].attempts = CapAttempts(row[k].attempts + 1)
      /\ \A l \in Keys \ {k} : row'[l] = row[l]
  BY <1>1, TurnKnows, ResolveRowType DEF IInv
<1>3. executed[k] > 0
  BY <1>1 DEF IInv, ResolveIsDue
<1>4. Aged(k) \/ row'[k].attempts <= runs'[k]
  BY <1>1, <1>2, TurnKnows, CallPays
<1>5. k \in Keys /\ row[k].status # "none"
  BY <1>1, TurnKnows
<1> QED
  BY <1>1, <1>2, <1>3, <1>4, <1>5, OutcomeCarries

LEMMA BackOffCarries ==
  ASSUME IInv, NEW s \in Sweeps, BackOff(s) PROVE RowsCarry
<1> DEFINE k == turn[s].key
<1>1. /\ pc[s] = "fail" /\ CameBack(k) /\ now' = now /\ executed' = executed
      /\ turn[s].attempts + 1 < MAX_ATTEMPTS
  BY DEF BackOff, Spent
<1>2. /\ row'[k].status = row[k].status /\ row'[k].created = row[k].created
      /\ row'[k].attempts = turn[s].attempts + 1
      /\ \A l \in Keys \ {k} : row'[l] = row[l]
  BY <1>1, TurnKnows, BackOffRowType DEF IInv
<1>3. CapAttempts(turn[s].attempts + 1) = turn[s].attempts + 1
  BY <1>1 DEF CapAttempts
<1>4. Aged(k) \/ row'[k].attempts <= runs'[k]
  BY <1>1, <1>2, <1>3, TurnKnows, CallPays
<1>5. k \in Keys /\ row[k].status # "none"
  BY <1>1, TurnKnows
<1> QED
  BY <1>1, <1>2, <1>4, <1>5, OutcomeCarries

LEMMA DeadLetterSpentCarries ==
  ASSUME IInv, NEW s \in Sweeps, DeadLetterSpent(s) PROVE RowsCarry
<1> DEFINE k == turn[s].key
<1>1. /\ pc[s] = "fail" /\ CameBack(k) /\ now' = now /\ executed' = executed
      /\ MarkDead(k) /\ turn[s].attempts + 1 >= MAX_ATTEMPTS
  BY DEF DeadLetterSpent, Spent
<1>2. k \in Keys /\ row[k].status # "none"
  BY <1>1, TurnKnows
<1>3. /\ row'[k].status = "DEAD" /\ row'[k].created = row[k].created
      /\ row'[k].attempts = CapAttempts(row[k].attempts + 1)
      /\ \A l \in Keys \ {k} : row'[l] = row[l]
  BY <1>1, <1>2, MarkDeadRow DEF IInv
<1>4. Aged(k) \/ row'[k].attempts <= runs'[k]
  BY <1>1, <1>3, TurnKnows, CallPays
<1>5. Aged(k) \/ runs'[k] = MAX_ATTEMPTS
  <2>1. runs'[k] = CapAttempts(runs[k] + 1)
    BY <1>1, <1>2, CameBackType DEF IInv
  <2> QED
    BY <1>1, <2>1, TurnKnows, CapsAreNat DEF CapAttempts
<1> QED
  BY <1>1, <1>2, <1>3, <1>4, <1>5, OutcomeCarries

\* Every step of the queue carries rows and sweeps.
LEMMA ResumeCarries ==
  ASSUME IInv, TypeOK', NEW s \in Sweeps, Resume(s)
  PROVE  RowsCarry /\ \A q \in Sweeps : SweepCarries(q)
<1>1. now' = now /\ now <= now'
  <2>1. now' = now
    BY DEF Resume, FindEligible, DeadLetterAged, SkipNoHandler, AlreadyExecuted,
           MarkExecuted, Resolve, BackOff, DeadLetterSpent, OnDeadLetter
  <2> QED
    BY <2>1, TimeIsEnough DEF IInv, TypeOK
<1>2. ASSUME executed' = executed PROVE \A k \in Keys : executed[k] <= executed'[k]
  BY <1>2 DEF IInv, TypeOK
<1>3. CASE FindEligible(s)
  <2>1. UNCHANGED <<row, runs, executed, turn>>
    BY <1>3 DEF FindEligible
  <2>2. PICK at \in 0 .. now, scope \in SUBSET Keys :
          \E batch \in OldestOf(Eligible(scope, at)) :
            /\ todo' = [todo EXCEPT ![s] =
                 {[key |-> k, attempts |-> row[k].attempts, created |-> row[k].created] :
                    k \in batch}]
            /\ clock' = [clock EXCEPT ![s] = at]
    <3>1. now \in 0 .. now
      BY DEF IInv, TypeOK
    <3> QED
      BY <1>3, <3>1 DEF FindEligible
  <2>3. PICK batch \in SUBSET {k \in Keys : row[k].status \in Waiting} :
          todo' = [todo EXCEPT ![s] =
            {[key |-> k, attempts |-> row[k].attempts, created |-> row[k].created] :
               k \in batch}]
    BY <2>2 DEF OldestOf, Eligible
  <2>4. \A x \in todo'[s] : /\ row'[x.key].status # "none"
                            /\ x.created = row'[x.key].created
                            /\ x.attempts = row'[x.key].attempts
    BY <2>1, <2>3 DEF IInv, TypeOK, Waiting
  <2>5. clock'[s] <= now'
    BY <1>1, <2>2, TimeIsEnough DEF IInv, TypeOK
  <2>6. pc'[s] = "loop"
    BY <1>3 DEF FindEligible, IInv, TypeOK
  <2>7. SweepCarries(s)
    BY <2>1, <2>4, <2>5, <2>6 DEF SweepCarries
  <2>8. \A q \in Sweeps \ {s} : SweepCarries(q)
    BY <1>1, <1>3, <2>1, <2>2 DEF FindEligible, IInv, InTurn, TypeOK, SweepCarries
  <2> QED
    BY <1>1, <1>2, <2>1, <2>7, <2>8, RowsKept
<1>4. CASE DeadLetterAged(s)
  BY <1>4, DeadLetterAgedCarries
<1>5. CASE SkipNoHandler(s)
  <2>1. PICK x \in todo[s] : NextRow(s, todo[s] \ {x})
    BY <1>5 DEF SkipNoHandler, Oldest
  <2>2. UNCHANGED <<row, runs, executed>>
    BY <1>5 DEF SkipNoHandler
  <2> QED
    BY <1>1, <1>2, <2>1, <2>2, RowsKept, SweepRests
<1>6. CASE AlreadyExecuted(s)
  <2>1. PICK x \in todo[s], l \in {"resolve", "execute"} :
          Take(s, x, l) /\ (l = "resolve" => executed[x.key] > 0)
    BY <1>6 DEF AlreadyExecuted
  <2>2. UNCHANGED <<row, runs, executed>>
    BY <1>6 DEF AlreadyExecuted
  <2>3. l \in PCs
    BY DEF PCs
  <2> QED
    BY <1>1, <1>2, <2>1, <2>2, <2>3, RowsKept, SweepTakes
<1>7. CASE MarkExecuted(s)
  <2> DEFINE k == turn[s].key
  <2>1. pc[s] = "execute" /\ turn[s] \in Fetched /\ k \in Keys
    BY <1>7, TurnKnows DEF MarkExecuted
  <2>2. /\ UNCHANGED <<row, runs, todo, turn, clock>>
        /\ pc'[s] \in {"resolve", "fail"} /\ \A q \in Sweeps \ {s} : pc'[q] = pc[q]
    BY <1>7 DEF MarkExecuted, IInv, TypeOK
  <2>3. \A l \in Keys : executed[l] <= executed'[l]
    BY <1>7, <2>1 DEF MarkExecuted, IInv, TypeOK
  <2>4. pc'[s] = "resolve" => executed'[k] > 0
    BY <1>7, <2>1 DEF MarkExecuted, IInv, TypeOK
  <2>5. SweepCarries(s)
    BY <1>1, <2>1, <2>2, <2>4 DEF SweepCarries, IInv, InTurn
  <2>6. \A q \in Sweeps \ {s} : SweepCarries(q)
    BY <1>1, <2>2 DEF SweepCarries, IInv, InTurn
  <2> QED
    BY <1>1, <2>2, <2>3, <2>5, <2>6, RowsKept
<1>8. CASE Resolve(s)
  BY <1>1, <1>8, ResolveCarries, SweepRests DEF Resolve
<1>9. CASE BackOff(s)
  BY <1>1, <1>9, BackOffCarries, SweepRests DEF BackOff
<1>10. CASE DeadLetterSpent(s)
  <2>1. pc[s] = "fail" /\ turn[s] \in Fetched
    BY <1>10, TurnKnows DEF DeadLetterSpent
  <2>2. /\ UNCHANGED <<todo, turn, clock>> /\ pc'[s] = "page"
        /\ \A q \in Sweeps \ {s} : pc'[q] = pc[q]
    BY <1>10 DEF DeadLetterSpent, IInv, TypeOK
  <2>3. SweepCarries(s)
    BY <1>1, <2>1, <2>2 DEF SweepCarries, IInv, InTurn
  <2>4. \A q \in Sweeps \ {s} : SweepCarries(q)
    BY <1>1, <2>2 DEF SweepCarries, IInv, InTurn
  <2> QED
    BY <1>10, <2>3, <2>4, DeadLetterSpentCarries
<1>11. CASE OnDeadLetter(s)
  BY <1>1, <1>2, <1>11, RowsKept, SweepRests DEF OnDeadLetter
<1> QED
  BY <1>3, <1>4, <1>5, <1>6, <1>7, <1>8, <1>9, <1>10, <1>11 DEF Resume

LEMMA InvStep == IInv /\ [Next]_vars => IInv'
<1> SUFFICES ASSUME IInv, [Next]_vars PROVE IInv'
  OBVIOUS
<1>1. TypeOK'
  BY TypeStep DEF IInv
<1>2. now \in Int /\ now <= now /\ \A k \in Keys : executed[k] <= executed[k]
  BY TimeIsEnough DEF IInv, TypeOK
<1>3. CASE UNCHANGED vars
  BY <1>1, <1>2, <1>3, RowsKept, SweepsKept, Carry DEF vars
<1>4. CASE Tick
  BY <1>1, <1>2, <1>4, RowsKept, SweepsKept, Carry DEF Tick
<1>5. ASSUME NEW p \in Producers, NEW k \in Keys, FindByKey(p, k) PROVE IInv'
  BY <1>1, <1>2, <1>5, RowsKept, SweepsKept, Carry DEF FindByKey
<1>6. ASSUME NEW p \in Producers, NEW status \in Waiting, Upsert(p, status) PROVE IInv'
  BY <1>1, <1>2, <1>6, UpsertCarries, SweepsKept, Carry DEF Upsert
<1>7. ASSUME NEW s \in Sweeps, Resume(s) PROVE IInv'
  BY <1>1, <1>7, ResumeCarries, Carry
<1>8. ASSUME NEW s \in Sweeps, Crash(s) PROVE IInv'
  BY <1>1, <1>2, <1>8, RowsKept, SweepRests, Carry DEF Crash
<1> QED
  BY <1>3, <1>4, <1>5, <1>6, <1>7, <1>8 DEF Next

-----------------------------------------------------------------------------
(* The theorems.                                                            *)

\* The invariant holds however the producers and the sweeps interleave, and however
\* many sweeps die half way (retry-queue.ts and retry-handlers.ts).
THEOREM QueueInvariant == Spec => []IInv
<1>1. IInv /\ [Next]_vars => IInv'
  BY InvStep
<1> QED
  BY InvInit, <1>1, PTL DEF Spec

\* Rows, batches and clocks keep their types: no count passes its cap.
THEOREM QueueTypeCorrect == Spec => []TypeOK
<1>1. IInv => TypeOK
  BY DEF IInv
<1> QED
  BY QueueInvariant, <1>1, PTL

\* A RESOLVED row has its done marker in the ledger, whatever sweeps overlapped on it
\* and whatever their ledger reads answered (resumeRetryableActions).
THEOREM ResolvedWasMarked == Spec => []ResolvedIsMarked
<1>1. IInv => ResolvedIsMarked
  BY DEF IInv
<1> QED
  BY QueueInvariant, <1>1, PTL

\* A row is given up only past the age cap, or after MAX_ATTEMPTS handler calls
\* (resumeRetryableActions, under any overlap of sweeps).
THEOREM DeadWasDeserved == Spec => []DeadIsDeserved
<1>1. IInv => DeadIsDeserved
  BY DEF IInv
<1> QED
  BY QueueInvariant, <1>1, PTL

\* Short of a crash, every dead letter is reported: onDeadLetter was called for it
\* or its sweep is about to call it (retry-queue.ts, onDeadLetter after markDead).
LEMMA DeathStep == IInv /\ DeathIsReported /\ [Next]_vars => DeathIsReported'
<1> SUFFICES ASSUME IInv, DeathIsReported, [Next]_vars, crashes' = 0,
                    NEW k \in Keys, row'[k].status = "DEAD"
             PROVE  k \in paged' \/ \E s \in Sweeps : pc'[s] = "page" /\ turn'[s].key = k
  BY DEF DeathIsReported
<1> DEFINE Told    == k \in paged \/ \E s \in Sweeps : pc[s] = "page" /\ turn[s].key = k
           ToldNow == k \in paged' \/ \E s \in Sweeps : pc'[s] = "page" /\ turn'[s].key = k
<1>1. ASSUME crashes = 0, row[k].status = "DEAD" PROVE Told
  BY <1>1 DEF DeathIsReported
<1>2. CASE UNCHANGED <<row, crashes, paged, pc, turn>>
  BY <1>1, <1>2
<1>3. ASSUME NEW p \in Producers, NEW status \in Waiting, Upsert(p, status) PROVE ToldNow
  <2>1. row[k].status = "DEAD"
    BY <1>3 DEF Upsert, IInv, TypeOK, Waiting
  <2> QED
    BY <1>1, <1>3, <2>1 DEF Upsert
<1>4. ASSUME NEW s \in Sweeps, Resume(s) PROVE ToldNow
  <2>1. crashes = 0 /\ paged \subseteq paged'
    BY <1>4 DEF Resume, FindEligible, DeadLetterAged, SkipNoHandler, AlreadyExecuted,
                MarkExecuted, Resolve, BackOff, DeadLetterSpent, OnDeadLetter
  <2>2. \A q \in Sweeps \ {s} : pc'[q] = pc[q] /\ turn'[q] = turn[q]
    BY <1>4 DEF Resume, FindEligible, DeadLetterAged, SkipNoHandler, AlreadyExecuted,
                MarkExecuted, Resolve, BackOff, DeadLetterSpent, OnDeadLetter, Take,
                NextRow, IInv, TypeOK
  <2>3. ASSUME row[k].status = "DEAD", pc[s] # "page" PROVE ToldNow
    BY <1>1, <2>1, <2>2, <2>3
  <2>4. CASE OnDeadLetter(s)
    <3>1. row[k].status = "DEAD" /\ paged' = paged \cup {turn[s].key}
      BY <2>4 DEF OnDeadLetter
    <3> QED
      BY <1>1, <2>1, <2>2, <3>1
  <2>5. CASE DeadLetterAged(s)
    <3>1. PICK x \in todo[s] : Take(s, x, "page") /\ MarkDead(x.key)
      BY <2>5 DEF DeadLetterAged
    <3>2. pc[s] = "loop" /\ pc'[s] = "page" /\ turn'[s] = x /\ x.key \in Keys
      BY <3>1, TakeDoes DEF IInv, PCs, Fetched
    <3>3. k # x.key => row[k].status = "DEAD"
      BY <3>1, <3>2, MarkDeadRow DEF IInv
    <3> QED
      BY <2>3, <3>2, <3>3
  <2>6. CASE DeadLetterSpent(s)
    <3>1. /\ pc[s] = "fail" /\ pc'[s] = "page" /\ turn'[s] = turn[s]
          /\ MarkDead(turn[s].key)
      BY <2>6 DEF DeadLetterSpent, IInv, TypeOK
    <3>2. k # turn[s].key => row[k].status = "DEAD"
      BY <3>1, TurnKnows, MarkDeadRow DEF IInv
    <3> QED
      BY <2>3, <3>1, <3>2
  <2>7. CASE Resolve(s)
    <3>1. pc[s] = "resolve"
      BY <2>7 DEF Resolve
    <3>2. row[k].status = "DEAD"
      BY <2>7, <3>1, TurnKnows, ResolveRowType DEF IInv
    <3> QED
      BY <2>3, <3>1, <3>2
  <2>8. CASE BackOff(s)
    <3>1. pc[s] = "fail"
      BY <2>8 DEF BackOff
    <3>2. row[k].status = "DEAD"
      BY <2>8, <3>1, TurnKnows, BackOffRowType DEF IInv
    <3> QED
      BY <2>3, <3>1, <3>2
  <2>9. CASE FindEligible(s) \/ SkipNoHandler(s) \/ AlreadyExecuted(s) \/ MarkExecuted(s)
    <3>1. row' = row /\ pc[s] # "page"
      BY <2>9 DEF FindEligible, SkipNoHandler, AlreadyExecuted, MarkExecuted, Take
    <3> QED
      BY <2>3, <3>1
  <2> QED
    BY <1>4, <2>4, <2>5, <2>6, <2>7, <2>8, <2>9 DEF Resume
<1>5. ASSUME NEW s \in Sweeps, Crash(s) PROVE FALSE
  BY <1>5, CapsAreNat DEF Crash, IInv, TypeOK
<1> QED
  BY <1>2, <1>3, <1>4, <1>5 DEF Next, vars, Tick, FindByKey

\* A crash-free history keeps no silent death.
THEOREM DeathsAreReported == Spec => []DeathIsReported
<1>1. Init => IInv /\ DeathIsReported
  BY InvInit DEF Init, NoRow, DeathIsReported
<1>2. (IInv /\ DeathIsReported) /\ [Next]_vars => (IInv /\ DeathIsReported)'
  BY InvStep, DeathStep
<1> QED
  BY <1>1, <1>2, PTL DEF Spec

-----------------------------------------------------------------------------
(* What the promise of retry-handlers.ts takes.                             *)

\* With both, what a sweep is executing is not in the ledger yet.
ExecutingIsNew == \A s \in Sweeps : pc[s] = "execute" => executed[turn[s].key] = 0

\* Where a sweep executes, it has just read the ledger or has not moved.
LEMMA StepOfSweep ==
  ASSUME IInv, [Next]_vars, NEW s \in Sweeps, pc[s] = "execute", pc'[s] = "execute"
  PROVE  turn'[s] = turn[s] /\ ~MarkExecuted(s)
<1>0. TypeOK
  BY DEF IInv
<1>1. ASSUME NEW q \in Sweeps, Resume(q) \/ Crash(q), q # s
      PROVE  turn'[s] = turn[s] /\ ~MarkExecuted(s)
  <2>1. pc'[s] = pc[s] /\ turn'[s] = turn[s]
    BY <1>0, <1>1 DEF TypeOK, Resume, Crash, FindEligible, DeadLetterAged, SkipNoHandler,
                AlreadyExecuted, MarkExecuted, Resolve, BackOff, DeadLetterSpent,
                OnDeadLetter, Take, NextRow
  <2>2. ~MarkExecuted(s)
    BY <1>0, <2>1 DEF TypeOK, MarkExecuted
  <2> QED
    BY <2>1, <2>2
<1>2. ~Resume(s) /\ ~Crash(s)
  BY <1>0 DEF TypeOK, Resume, Crash, FindEligible, DeadLetterAged, SkipNoHandler,
              AlreadyExecuted, MarkExecuted, Resolve, BackOff, DeadLetterSpent,
              OnDeadLetter, Take, NextRow
<1>3. CASE UNCHANGED <<pc, turn>>
  BY <1>0, <1>3 DEF TypeOK, MarkExecuted
<1> QED
  BY <1>1, <1>2, <1>3 DEF Next, vars, Tick, FindByKey, Upsert

\* Only markExecuted writes the ledger, one row at a time.
LEMMA LedgerStep ==
  ASSUME IInv, [Next]_vars
  PROVE  \/ executed' = executed
         \/ \E s \in Sweeps :
              /\ pc[s] = "execute" /\ pc'[s] # "execute"
              /\ executed' = [executed EXCEPT ![turn[s].key] = IF @ < 2 THEN @ + 1 ELSE 2]
              /\ turn' = turn /\ \A q \in Sweeps \ {s} : pc'[q] = pc[q]
<1>1. ASSUME NEW s \in Sweeps, MarkExecuted(s), executed' # executed
      PROVE  /\ pc[s] = "execute" /\ pc'[s] # "execute"
             /\ executed' = [executed EXCEPT ![turn[s].key] = IF @ < 2 THEN @ + 1 ELSE 2]
             /\ turn' = turn /\ \A q \in Sweeps \ {s} : pc'[q] = pc[q]
  BY <1>1 DEF MarkExecuted, IInv, TypeOK
<1> QED
  BY <1>1 DEF Next, vars, Tick, FindByKey, Upsert, Resume, Crash, FindEligible,
              DeadLetterAged, SkipNoHandler, AlreadyExecuted, Resolve, BackOff,
              DeadLetterSpent, OnDeadLetter

LEMMA OnceStep ==
  ASSUME IInv, ExecutingIsNew, ExecutedOnce, ExecuteAlone, [Next]_vars,
         [\A s \in Sweeps :
            pc'[s] = "execute" => pc[s] = "execute" \/ executed[turn'[s].key] = 0]_vars
  PROVE  ExecutingIsNew' /\ ExecutedOnce'
<1>0. TypeOK /\ InTurn
  BY DEF IInv
<1>1. ASSUME NEW s \in Sweeps, pc'[s] = "execute" PROVE executed[turn'[s].key] = 0
  <2>1. CASE pc[s] = "execute"
    BY <1>1, <2>1, StepOfSweep DEF ExecutingIsNew
  <2>2. CASE pc[s] # "execute"
    BY <1>1, <2>2 DEF vars
  <2> QED
    BY <2>1, <2>2
<1>2. CASE executed' = executed
  BY <1>1, <1>2 DEF ExecutingIsNew, ExecutedOnce
<1>3. ASSUME NEW s \in Sweeps, pc[s] = "execute", pc'[s] # "execute",
             executed' = [executed EXCEPT ![turn[s].key] = IF @ < 2 THEN @ + 1 ELSE 2],
             turn' = turn, \A q \in Sweeps \ {s} : pc'[q] = pc[q]
      PROVE  ExecutingIsNew' /\ ExecutedOnce'
  <2>1. executed[turn[s].key] = 0
    BY <1>3 DEF ExecutingIsNew
  <2>2. turn[s].key \in Keys
    BY <1>0, <1>3 DEF InTurn, Fetched
  <2>3. executed'[turn[s].key] = 1 /\ \A k \in Keys \ {turn[s].key} : executed'[k] = executed[k]
    BY <1>0, <1>3, <2>1, <2>2 DEF TypeOK
  <2>4. ExecutedOnce'
    BY <2>3 DEF ExecutedOnce
  <2>5. ASSUME NEW q \in Sweeps, pc'[q] = "execute" PROVE executed'[turn'[q].key] = 0
    <3>1. q # s /\ pc[q] = "execute" /\ turn'[q] = turn[q]
      BY <1>3, <2>5
    <3>2. turn[q].key # turn[s].key
      BY <1>3, <3>1 DEF ExecuteAlone
    <3>3. turn[q].key \in Keys
      BY <1>0, <3>1 DEF InTurn, Fetched
    <3> QED
      BY <2>3, <3>1, <3>2, <3>3 DEF ExecutingIsNew
  <2> QED
    BY <2>4, <2>5 DEF ExecutingIsNew
<1> QED
  BY <1>2, <1>3, LedgerStep

\* "Never double-executes" (retry-handlers.ts:10) fails for two reasons only: a read of
\* the ledger that fails, or two sweeps that both read it before either has written.
\* Crashes, stale batches, revivals and a markExecuted that throws after its commit do
\* not break it.
THEOREM ExecutedOnceOtherwise == Spec /\ LedgerAnswers /\ []ExecuteAlone => []ExecutedOnce
<1>1. Init => ExecutingIsNew /\ ExecutedOnce
  BY DEF Init, ExecutingIsNew, ExecutedOnce
<1>2. IInv /\ ExecuteAlone /\ (ExecutingIsNew /\ ExecutedOnce) /\ [Next]_vars
      /\ [\A s \in Sweeps :
            pc'[s] = "execute" => pc[s] = "execute" \/ executed[turn'[s].key] = 0]_vars
      => (ExecutingIsNew /\ ExecutedOnce)'
  BY OnceStep
<1> QED
  BY QueueInvariant, <1>1, <1>2, PTL DEF Spec, LedgerAnswers

=============================================================================
