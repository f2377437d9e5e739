-------------------------- MODULE UsageMeterProofs ---------------------------
(***************************************************************************)
(* What holds of the usage meter, proved for every set of workspaces, model *)
(* calls and sweeps, however the sweeps overlap.                            *)
(***************************************************************************)
EXTENDS UsageMeter, FiniteSetTheorems, TLAPS

LEMMA MeterInvInit == Init => IInv
<1> SUFFICES ASSUME Init PROVE IInv
  OBVIOUS
<1>1. /\ TypeOK /\ SumsAreStored /\ HandIsInBatch /\ ListCoversSum /\ BilledIsMarked
  BY BoundsAreNat
     DEF Init, TypeOK, SumsAreStored, HandIsInBatch, ListCoversSum, BilledIsMarked,
         NoRows, Days
<1>2. \A r \in Records : BilledOn(r) = {}
  BY OwnersAreWorkspaces DEF Init, BilledOn
<1>3. \A r \in Records : \A d : BilledBefore(r, d) = {}
  BY <1>2 DEF BilledBefore
<1>4. Cardinality({}) = 0
  BY FS_EmptySet
<1>5. DatesHaveCome /\ DueWerePaidFor
  BY <1>2 DEF Init, DatesHaveCome, DueWerePaidFor, NoRows
<1>6. faults = 0 /\ 0 <= faults /\ 0 <= faults + 1
  BY DEF Init
<1>7. UnmarkedWerePaidFor
  BY <1>3, <1>4, <1>6 DEF UnmarkedWerePaidFor
<1>8. LeftWerePaidFor /\ BilledOnce
  BY <1>2, <1>4, <1>6 DEF LeftWerePaidFor, BilledOnce
<1> QED
  BY <1>1, <1>5, <1>7, <1>8 DEF IInv

\* What the rest of a batch leaves a sweep with.
LEMMA RestTyped ==
  ASSUME TypeOK, NEW s \in Sweeps, NEW w \in Workspaces, Rest(s, w)
  PROVE  /\ batch' \in [Sweeps -> SUBSET Workspaces]
         /\ hand' \in [Sweeps -> Workspaces \cup {"none"}]
         /\ pc' \in [Sweeps -> {"idle", "list", "report", "mark"}]
BY DEF Rest, GoTo, TypeOK

LEMMA EventTyped ==
  ASSUME TypeOK, NEW s \in Sweeps, NEW w \in Workspaces, TakeEvent(s, w)
  PROVE  event' \in [Workspaces -> [Days -> SUBSET Records]]
<1>1. today[s] \in Days /\ sum[s] \in [Workspaces -> SUBSET Records]
  BY DEF TypeOK
<1>2. sum[s][w] \in SUBSET Records
  BY <1>1
<1>3. event[w] \in [Days -> SUBSET Records]
  BY DEF TypeOK
<1>4. [event[w] EXCEPT ![today[s]] = IF @ = {} THEN sum[s][w] ELSE @]
        \in [Days -> SUBSET Records]
  BY <1>1, <1>2, <1>3
<1> QED
  BY <1>4 DEF TakeEvent, TypeOK

LEMMA MeterTypeStep == IInv /\ [Next]_vars => TypeOK'
<1> SUFFICES ASSUME IInv, [Next]_vars PROVE TypeOK'
  OBVIOUS
<1>0. TypeOK /\ HandIsInBatch
  BY DEF IInv
<1>1. CASE UNCHANGED vars
  BY <1>0, <1>1 DEF vars, TypeOK
<1>2. ASSUME NEW r \in Records, Record(r) PROVE TypeOK'
  BY <1>0, <1>2 DEF Record, TypeOK
<1>3. ASSUME NEW w \in Workspaces, Subscribe(w) PROVE TypeOK'
  BY <1>0, <1>3 DEF Subscribe, TypeOK
<1>4. ASSUME Midnight PROVE TypeOK'
  <2>1. day' \in Days /\ faults' \in 0 .. MaxFaults
    BY <1>0, <1>4, BoundsAreNat DEF Midnight, Fault, TypeOK, Days
  <2> QED
    BY <1>0, <1>4, <2>1 DEF Midnight, TypeOK
<1>5. ASSUME NEW s \in Sweeps, SumGroups(s) PROVE TypeOK'
  <2>1. [w \in Workspaces |-> Unreported(w)] \in [Workspaces -> SUBSET Records]
    BY <1>0 DEF Unreported, TypeOK
  <2>2. sum' \in [Sweeps -> [Workspaces -> SUBSET Records]]
    BY <1>0, <1>5, <2>1 DEF SumGroups, TypeOK
  <2> QED
    BY <1>0, <1>5, <2>2 DEF SumGroups, GoTo, TypeOK
<1>6. ASSUME NEW s \in Sweeps, NEW w \in Workspaces, ListRows(s, w) PROVE TypeOK'
  <2>1. Unreported(w) \in SUBSET Records
    BY <1>0 DEF Unreported, TypeOK
  <2>2. ids' \in [Sweeps -> [Workspaces -> SUBSET Records]]
    BY <1>0, <1>6, <2>1 DEF ListRows, TypeOK
  <2> QED
    BY <1>0, <1>6, <2>2 DEF ListRows, TypeOK
<1>7. ASSUME NEW s \in Sweeps, Listed(s) PROVE TypeOK'
  BY <1>0, <1>7 DEF Listed, GoTo, TypeOK
<1>8. ASSUME NEW s \in Sweeps, NEW w \in Workspaces, Report(s, w) PROVE TypeOK'
  <2>1. event' \in [Workspaces -> [Days -> SUBSET Records]]
    BY <1>0, <1>8, EventTyped DEF Report
  <2> QED
    BY <1>0, <1>8, <2>1 DEF Report, GoTo, TypeOK
<1>9. ASSUME NEW s \in Sweeps, NEW w \in Workspaces, ReportFails(s, w) PROVE TypeOK'
  <2>1. event' \in [Workspaces -> [Days -> SUBSET Records]]
    BY <1>0, <1>9, EventTyped DEF ReportFails, TypeOK
  <2>2. faults' \in 0 .. MaxFaults
    BY <1>0, <1>9, BoundsAreNat DEF ReportFails, Fault, TypeOK
  <2>3. Rest(s, w)
    BY <1>9 DEF ReportFails
  <2> QED
    BY <1>0, <1>9, <2>1, <2>2, <2>3, RestTyped DEF ReportFails, TypeOK
<1>10. ASSUME NEW s \in Sweeps, MarkReported(s) PROVE TypeOK'
  <2>1. hand[s] \in Workspaces
    BY <1>0, <1>10 DEF MarkReported, HandIsInBatch, TypeOK
  <2>2. ids[s][hand[s]] \in SUBSET Records
    BY <1>0, <2>1 DEF TypeOK
  <2>3. marked' \in SUBSET Records
    BY <1>0, <1>10, <2>2 DEF MarkReported, TypeOK
  <2>4. Rest(s, hand[s])
    BY <1>10 DEF MarkReported
  <2> QED
    BY <1>0, <1>10, <2>1, <2>3, <2>4, RestTyped DEF MarkReported, TypeOK
<1>11. ASSUME NEW s \in Sweeps, MarkFails(s) PROVE TypeOK'
  <2>1. hand[s] \in Workspaces
    BY <1>0, <1>11 DEF MarkFails, HandIsInBatch, TypeOK
  <2>2. Rest(s, hand[s])
    BY <1>11 DEF MarkFails
  <2>3. faults' \in 0 .. MaxFaults
    BY <1>0, <1>11, BoundsAreNat DEF MarkFails, Fault, TypeOK
  <2> QED
    BY <1>0, <1>11, <2>1, <2>2, <2>3, RestTyped DEF MarkFails, TypeOK
<1>12. ASSUME NEW s \in Sweeps, Crash(s) PROVE TypeOK'
  <2>1. faults' \in 0 .. MaxFaults
    BY <1>0, <1>12, BoundsAreNat DEF Crash, Fault, TypeOK
  <2> QED
    BY <1>0, <1>12, <2>1 DEF Crash, GoTo, TypeOK
<1> QED
  BY <1>1, <1>2, <1>3, <1>4, <1>5, <1>6, <1>7, <1>8, <1>9, <1>10, <1>11, <1>12
     DEF Next, Sweep

\* Rows are not deleted, and marks not taken back.
LEMMA RowsStay == IInv /\ [Next]_vars => stored \subseteq stored' /\ marked \subseteq marked'
BY DEF Next, vars, Record, Subscribe, Midnight, Sweep, SumGroups, ListRows, Listed,
       Report, ReportFails, MarkReported, MarkFails, Crash

LEMMA SumsStep == IInv /\ [Next]_vars => SumsAreStored'
<1> SUFFICES ASSUME IInv, [Next]_vars, NEW t \in Sweeps, NEW v \in Workspaces,
                    NEW r \in sum'[t][v]
             PROVE  r \in stored' /\ OwnerOf[r] = v
  BY DEF SumsAreStored
<1>0. TypeOK /\ SumsAreStored /\ stored \subseteq stored'
  BY RowsStay DEF IInv
<1>1. CASE sum'[t] = sum[t]
  BY <1>0, <1>1 DEF SumsAreStored
<1>2. CASE SumGroups(t)
  <2>1. sum'[t][v] = Unreported(v)
    BY <1>0, <1>2 DEF SumGroups, TypeOK
  <2> QED
    BY <1>0, <2>1 DEF Unreported
<1>3. sum'[t] = sum[t] \/ SumGroups(t)
  <2>1. ASSUME NEW s \in Sweeps, SumGroups(s) PROVE sum'[t] = sum[t] \/ SumGroups(t)
    BY <1>0, <2>1 DEF SumGroups, TypeOK
  <2> QED
    BY <2>1 DEF Next, vars, Record, Subscribe, Midnight, Sweep, ListRows, Listed,
         Report, ReportFails, MarkReported, MarkFails, Crash
<1> QED
  BY <1>1, <1>2, <1>3

\* What a sweep does to its own hand, and to nobody else's.
LEMMA HandStep == IInv /\ [Next]_vars => HandIsInBatch'
<1> SUFFICES ASSUME IInv, [Next]_vars, NEW t \in Sweeps
             PROVE  /\ pc'[t] = "idle" => batch'[t] = {}
                    /\ pc'[t] # "list" => groups'[t] = {}
                    /\ pc'[t] = "mark" => hand'[t] \in batch'[t]
                    /\ pc'[t] # "mark" => hand'[t] = "none"
  BY DEF HandIsInBatch
<1>0. TypeOK /\ HandIsInBatch
  BY DEF IInv
<1>1. CASE UNCHANGED <<pc, groups, batch, hand>>
  BY <1>0, <1>1 DEF HandIsInBatch
<1>2. ASSUME NEW s \in Sweeps, SumGroups(s) \/ Listed(s)
      PROVE  /\ pc'[t] = "idle" => batch'[t] = {}
             /\ pc'[t] # "list" => groups'[t] = {}
             /\ pc'[t] = "mark" => hand'[t] \in batch'[t]
             /\ pc'[t] # "mark" => hand'[t] = "none"
  BY <1>0, <1>2 DEF SumGroups, Listed, GoTo, TypeOK, HandIsInBatch
<1>3. ASSUME NEW s \in Sweeps, NEW w \in Workspaces, ListRows(s, w)
      PROVE  /\ pc'[t] = "idle" => batch'[t] = {}
             /\ pc'[t] # "list" => groups'[t] = {}
             /\ pc'[t] = "mark" => hand'[t] \in batch'[t]
             /\ pc'[t] # "mark" => hand'[t] = "none"
  BY <1>0, <1>3 DEF ListRows, TypeOK, HandIsInBatch
<1>4. ASSUME NEW s \in Sweeps, NEW w \in Workspaces, Report(s, w)
      PROVE  /\ pc'[t] = "idle" => batch'[t] = {}
             /\ pc'[t] # "list" => groups'[t] = {}
             /\ pc'[t] = "mark" => hand'[t] \in batch'[t]
             /\ pc'[t] # "mark" => hand'[t] = "none"
  BY <1>0, <1>4 DEF Report, GoTo, TypeOK, HandIsInBatch
<1>5. ASSUME NEW s \in Sweeps, NEW w, Rest(s, w), pc[s] # "list", UNCHANGED groups
      PROVE  /\ pc'[t] = "idle" => batch'[t] = {}
             /\ pc'[t] # "list" => groups'[t] = {}
             /\ pc'[t] = "mark" => hand'[t] \in batch'[t]
             /\ pc'[t] # "mark" => hand'[t] = "none"
  BY <1>0, <1>5 DEF Rest, GoTo, TypeOK, HandIsInBatch
<1>6. ASSUME NEW s \in Sweeps, Crash(s)
      PROVE  /\ pc'[t] = "idle" => batch'[t] = {}
             /\ pc'[t] # "list" => groups'[t] = {}
             /\ pc'[t] = "mark" => hand'[t] \in batch'[t]
             /\ pc'[t] # "mark" => hand'[t] = "none"
  BY <1>0, <1>6 DEF Crash, GoTo, TypeOK, HandIsInBatch
<1>7. CASE \E r \in Records : Record(r)
  BY <1>1, <1>7 DEF Record
<1>8. CASE Midnight \/ \E w \in Workspaces : Subscribe(w)
  BY <1>1, <1>8 DEF Midnight, Subscribe
<1>9. ASSUME NEW s \in Sweeps, NEW w \in Workspaces,
             ReportFails(s, w) \/ MarkReported(s) \/ MarkFails(s)
      PROVE  (\E x : Rest(s, x)) /\ pc[s] # "list" /\ UNCHANGED groups
  BY <1>9 DEF ReportFails, MarkReported, MarkFails
<1>10. ASSUME NEW s \in Sweeps, MarkReported(s) \/ MarkFails(s)
       PROVE  (\E x : Rest(s, x)) /\ pc[s] # "list" /\ UNCHANGED groups
  BY <1>10 DEF MarkReported, MarkFails
<1> QED
  BY <1>1, <1>2, <1>3, <1>4, <1>5, <1>6, <1>7, <1>8, <1>9, <1>10 DEF Next, Sweep, vars

LEMMA ListStep == IInv /\ [Next]_vars => ListCoversSum'
<1> SUFFICES ASSUME IInv, [Next]_vars, NEW t \in Sweeps, NEW v \in batch'[t],
                    NEW r \in sum'[t][v]
             PROVE  r \in marked' \/ r \in ids'[t][v]
  BY DEF ListCoversSum
<1>0. TypeOK /\ SumsAreStored /\ HandIsInBatch /\ ListCoversSum /\ marked \subseteq marked'
  BY RowsStay DEF IInv
<1>v. v \in Workspaces
  BY MeterTypeStep DEF TypeOK
<1>1. CASE v \in batch[t] /\ sum'[t] = sum[t] /\ ids'[t][v] = ids[t][v]
  BY <1>0, <1>1 DEF ListCoversSum
<1>2. CASE SumGroups(t)
  BY <1>0, <1>2 DEF SumGroups, HandIsInBatch, TypeOK
<1>3. CASE ListRows(t, v)
  <2>1. ids'[t][v] = Unreported(v) /\ sum'[t][v] = sum[t][v] /\ marked' = marked
    BY <1>0, <1>3, <1>v DEF ListRows, TypeOK
  <2>2. r \in stored /\ OwnerOf[r] = v
    BY <1>0, <1>v, <2>1 DEF SumsAreStored
  <2> QED
    BY <2>1, <2>2 DEF Unreported
<1>4. ASSUME NEW s \in Sweeps, SumGroups(s), s # t
      PROVE  v \in batch[t] /\ sum'[t] = sum[t] /\ ids'[t][v] = ids[t][v]
  BY <1>0, <1>4 DEF SumGroups, TypeOK
<1>5. ASSUME NEW s \in Sweeps, NEW w \in Workspaces, ListRows(s, w), s # t \/ w # v
      PROVE  v \in batch[t] /\ sum'[t] = sum[t] /\ ids'[t][v] = ids[t][v]
  BY <1>0, <1>5 DEF ListRows, TypeOK
<1>6. ASSUME NEW s \in Sweeps, NEW w, Rest(s, w), UNCHANGED <<sum, ids>>
      PROVE  v \in batch[t] /\ sum'[t] = sum[t] /\ ids'[t][v] = ids[t][v]
  BY <1>0, <1>6 DEF Rest, TypeOK
<1>7. ASSUME NEW s \in Sweeps, Crash(s)
      PROVE  v \in batch[t] /\ sum'[t] = sum[t] /\ ids'[t][v] = ids[t][v]
  BY <1>0, <1>7 DEF Crash, TypeOK
<1>8. CASE UNCHANGED <<batch, sum, ids>>
  BY <1>1, <1>8
<1>9. ASSUME NEW s \in Sweeps, NEW w \in Workspaces, ReportFails(s, w)
      PROVE  Rest(s, w) /\ UNCHANGED <<sum, ids>>
  BY <1>9 DEF ReportFails
<1>10. ASSUME NEW s \in Sweeps, MarkReported(s) \/ MarkFails(s)
       PROVE  Rest(s, hand[s]) /\ UNCHANGED <<sum, ids>>
  BY <1>10 DEF MarkReported, MarkFails
<1>11. ASSUME NEW s \in Sweeps, Listed(s) PROVE UNCHANGED <<batch, sum, ids>>
  BY <1>11 DEF Listed
<1>12. ASSUME NEW s \in Sweeps, NEW w \in Workspaces, Report(s, w)
       PROVE  UNCHANGED <<batch, sum, ids>>
  BY <1>12 DEF Report
<1>13. CASE Midnight \/ (\E w \in Workspaces : Subscribe(w)) \/ \E q \in Records : Record(q)
  BY <1>8, <1>13 DEF Midnight, Subscribe, Record
<1> QED
  BY <1>1, <1>2, <1>3, <1>4, <1>5, <1>6, <1>7, <1>8, <1>9, <1>10, <1>11, <1>12, <1>13
     DEF Next, Sweep, vars

\* Without a fault a hand holds on to its rows until they are marked.
LEMMA CoverKept ==
  ASSUME IInv, [Next]_vars, ~Fault, NEW s \in Sweeps, NEW v \in Workspaces,
         hand[s] = v, NEW r \in ids[s][v]
  PROVE  \/ r \in marked'
         \/ hand'[s] = v /\ r \in ids'[s][v]
<1>0. TypeOK /\ HandIsInBatch
  BY DEF IInv
<1>1. pc[s] = "mark"
  BY <1>0, NoneIsNoWorkspace DEF HandIsInBatch
<1>2. CASE UNCHANGED <<hand, ids>>
  BY <1>2
<1>3. ASSUME NEW u \in Sweeps, NEW w \in Workspaces, ListRows(u, w) \/ Report(u, w)
      PROVE  hand'[s] = v /\ r \in ids'[s][v]
  BY <1>0, <1>1, <1>3 DEF ListRows, Report, TypeOK
<1>4. ASSUME NEW u \in Sweeps, MarkReported(u)
      PROVE  \/ r \in marked'
             \/ hand'[s] = v /\ r \in ids'[s][v]
  <2>1. CASE u = s
    BY <1>4, <2>1 DEF MarkReported
  <2>2. CASE u # s
    BY <1>0, <1>4, <2>2 DEF MarkReported, Rest, TypeOK
  <2> QED
    BY <2>1, <2>2
<1> QED
  BY <1>2, <1>3, <1>4
     DEF Next, vars, Record, Subscribe, Midnight, Sweep, SumGroups, Listed,
         ReportFails, MarkFails, Crash

\* A row Stripe was told of stays covered: marked, or in the hand that told.
LEMMA BilledStep == IInv /\ [Next]_vars => BilledIsMarked'
<1> SUFFICES ASSUME IInv, [Next]_vars, faults' = 0, NEW v \in Workspaces, NEW d \in Days,
                    NEW r \in event'[v][d]
             PROVE  \/ r \in marked'
                    \/ \E s \in Sweeps : hand'[s] = v /\ r \in ids'[s][v]
  BY DEF BilledIsMarked
<1>0. /\ TypeOK /\ HandIsInBatch /\ ListCoversSum /\ BilledIsMarked
      /\ marked \subseteq marked'
  BY RowsStay DEF IInv
<1>f. faults = 0 /\ ~Fault
  <2>1. faults \in Nat
    BY <1>0, BoundsAreNat DEF TypeOK
  <2>2. ~Fault
    BY <2>1 DEF Fault
  <2> QED
    BY <2>2 DEF Next, vars, Record, Subscribe, Midnight, Sweep, SumGroups, ListRows,
         Listed, Report, ReportFails, MarkReported, MarkFails, Crash
<1>1. CASE r \in event[v][d]
  <2>1. \/ r \in marked
        \/ \E s \in Sweeps : hand[s] = v /\ r \in ids[s][v]
    BY <1>0, <1>1, <1>f DEF BilledIsMarked
  <2>2. CASE r \in marked
    BY <1>0, <2>2
  <2>3. ASSUME NEW s \in Sweeps, hand[s] = v, r \in ids[s][v]
        PROVE  \/ r \in marked'
               \/ hand'[s] = v /\ r \in ids'[s][v]
    BY <1>f, <2>3, CoverKept
  <2> QED
    BY <2>1, <2>2, <2>3
<1>2. CASE r \notin event[v][d]
  <2>1. PICK s \in Sweeps, w \in Workspaces : Report(s, w)
    BY <1>2, <1>f DEF Next, vars, Record, Subscribe, Midnight, Sweep, SumGroups, ListRows,
         Listed, ReportFails, MarkReported, MarkFails, Crash
  <2>2. w = v /\ r \in sum[s][v]
    BY <1>0, <1>2, <2>1 DEF Report, TakeEvent, TypeOK
  <2>3. r \in marked \/ r \in ids[s][v]
    BY <1>0, <2>1, <2>2 DEF Report, ListCoversSum
  <2>4. hand'[s] = v /\ ids' = ids
    BY <1>0, <2>1, <2>2 DEF Report, TypeOK
  <2> QED
    BY <1>0, <2>3, <2>4
<1> QED
  BY <1>1, <1>2

\* Sets of dates are finite, ...
LEMMA DatesFinite ==
  ASSUME NEW B \in SUBSET Days
  PROVE  B \subseteq Int /\ IsFiniteSet(B) /\ Cardinality(B) \in Nat
<1>1. MaxDays \in Int
  BY BoundsAreNat
<1>2. IsFiniteSet(Days) /\ Days \subseteq Int
  BY <1>1, FS_Interval DEF Days
<1>3. IsFiniteSet(B)
  BY <1>2, FS_Subset
<1> QED
  BY <1>2, <1>3, FS_CardinalityType

\* ... and those a row is billed on are such sets.
LEMMA BilledAreDates ==
  \A r, x : /\ BilledOn(r) \in SUBSET Days /\ BilledOn(r)' \in SUBSET Days
           /\ BilledBefore(r, x) \in SUBSET Days /\ BilledBefore(r, x)' \in SUBSET Days
BY DEF BilledOn, BilledBefore

\* Between two dates no more dates are billed than there are days.
LEMMA DatesBetween ==
  ASSUME NEW c \in Int, NEW d \in Int, c <= d,
         NEW B, IsFiniteSet(B), NEW C, IsFiniteSet(C),
         \A e \in B : e \in Int /\ e < d /\ (e < c => e \in C)
  PROVE  Cardinality(B) <= Cardinality(C) + (d - c)
<1>1. /\ IsFiniteSet(c .. d - 1) /\ Cardinality(c .. d - 1) = d - c
  <2>1. d - 1 \in Int
    OBVIOUS
  <2>2. /\ IsFiniteSet(c .. d - 1)
        /\ Cardinality(c .. d - 1) = IF c > d - 1 THEN 0 ELSE (d - 1) - c + 1
    BY <2>1, FS_Interval
  <2> QED
    BY <2>2
<1>2. B \subseteq C \cup (c .. d - 1)
  OBVIOUS
<1>3. /\ IsFiniteSet(C \cup (c .. d - 1))
      /\ Cardinality(C \cup (c .. d - 1))
           = Cardinality(C) + Cardinality(c .. d - 1) - Cardinality(C \cap (c .. d - 1))
  BY <1>1, FS_Union
<1>4. Cardinality(B) <= Cardinality(C \cup (c .. d - 1))
  BY <1>2, <1>3, FS_Subset
<1>5. IsFiniteSet(C \cap (c .. d - 1))
  BY <1>1, FS_Subset
<1>6. /\ Cardinality(B) \in Nat /\ Cardinality(C) \in Nat
      /\ Cardinality(C \cap (c .. d - 1)) \in Nat
      /\ Cardinality(C \cup (c .. d - 1)) \in Nat
  BY <1>3, <1>5, FS_CardinalityType
<1> QED
  BY <1>1, <1>3, <1>4, <1>6

\* All dates a row was billed on have come.
LEMMA AllHaveCome ==
  ASSUME TypeOK, DatesHaveCome, NEW r \in Records
  PROVE  BilledOn(r) = BilledBefore(r, day + 1)
<1>1. \A d \in BilledOn(r) : d \in Int /\ d <= day
  BY BoundsAreNat DEF DatesHaveCome, BilledOn, Days
<1>2. day \in Int
  BY BoundsAreNat DEF TypeOK, Days
<1>3. \A d \in BilledOn(r) : d < day + 1
  BY <1>1, <1>2
<1> QED
  BY <1>3 DEF BilledBefore

\* When Stripe takes an event, a row that was not in one of that date is in the
\* sweep's sum, and is billed on that date besides.
LEMMA TakeAdds ==
  ASSUME TypeOK, NEW s \in Sweeps, NEW w \in Workspaces, TakeEvent(s, w),
         NEW r \in Records
  PROVE  \/ BilledOn(r)' = BilledOn(r)
         \/ /\ w = OwnerOf[r] /\ r \in sum[s][w]
            /\ BilledOn(r)' = BilledOn(r) \cup {today[s]}
<1>1. today[s] \in Days /\ OwnerOf[r] \in Workspaces
  BY OwnersAreWorkspaces DEF TypeOK
<1>2. CASE w # OwnerOf[r] \/ event[w][today[s]] # {} \/ r \notin sum[s][w]
  <2>1. \A d \in Days : r \in event'[OwnerOf[r]][d] <=> r \in event[OwnerOf[r]][d]
    BY <1>1, <1>2 DEF TakeEvent, TypeOK
  <2> QED
    BY <2>1 DEF BilledOn
<1>3. CASE w = OwnerOf[r] /\ event[w][today[s]] = {} /\ r \in sum[s][w]
  <2>1. \A d \in Days : r \in event'[w][d] <=> r \in event[w][d] \/ d = today[s]
    BY <1>1, <1>3 DEF TakeEvent, TypeOK
  <2> QED
    BY <1>1, <1>3, <2>1 DEF BilledOn
<1> QED
  BY <1>2, <1>3

\* What a sweep has Stripe take was paid for: it was due.
LEMMA TakePaid ==
  ASSUME IInv, NEW s \in Sweeps, NEW w \in batch[s], TakeEvent(s, w),
         NEW r \in Records, NEW x \in Int
  PROVE  \/ BilledBefore(r, x)' = BilledBefore(r, x)
         \/ Cardinality(BilledBefore(r, x)') + (day - x) <= faults
<1>0. TypeOK /\ DueWerePaidFor /\ w \in Workspaces
  BY DEF IInv, TypeOK
<1>t. today[s] \in Int /\ day \in Int /\ faults \in Int
  BY <1>0, BoundsAreNat DEF TypeOK, Days
<1>1. CASE BilledOn(r)' = BilledOn(r)
  BY <1>1 DEF BilledBefore
<1>2. CASE /\ r \in sum[s][w] /\ BilledOn(r)' = BilledOn(r) \cup {today[s]}
  <2>1. CASE x <= today[s]
    <3>1. ~(today[s] < x)
      BY <2>1, <1>t
    <3> QED
      BY <1>2, <3>1 DEF BilledBefore
  <2>2. CASE today[s] < x
    <3> DEFINE B == BilledBefore(r, x)'
               C == BilledBefore(r, today[s])
    <3>1. IsFiniteSet(C) /\ Cardinality(C) \in Nat /\ BilledOn(r) \subseteq Int
      BY DatesFinite, BilledAreDates
    <3>4. IsFiniteSet(B) /\ Cardinality(B) \in Nat
      BY DatesFinite, BilledAreDates
    <3>5. \A e \in B : e \in Int /\ e < x /\ (e < today[s] => e \in C)
      BY <1>2, <1>t, <2>2, <3>1 DEF BilledBefore
    <3> HIDE DEF B, C
    <3>7. Cardinality(B) <= Cardinality(C) + (x - today[s])
      BY <1>t, <2>2, <3>1, <3>4, <3>5, DatesBetween
    <3>8. Cardinality(C) + (day - today[s]) <= faults
      BY <1>0, <1>2 DEF DueWerePaidFor, C
    <3>9. Cardinality(B) + (day - x) <= faults
      BY <1>t, <3>1, <3>4, <3>7, <3>8
    <3> QED
      BY <3>9 DEF B
  <2> QED
    BY <1>t, <2>1, <2>2
<1> QED
  BY <1>0, <1>1, <1>2, TakeAdds

\* Only the report of a sweep changes what Stripe was told, and faults only add up.
LEMMA EventStep ==
  ASSUME IInv, [Next]_vars
  PROVE  /\ \/ UNCHANGED event
            \/ \E s \in Sweeps : \E w \in batch[s] :
                 /\ TakeEvent(s, w)
                 /\ Report(s, w) \/ ReportFails(s, w)
                 /\ UNCHANGED <<today, day, sum, groups, ids, marked>>
         /\ faults \in Int /\ faults' \in Int /\ faults <= faults'
         /\ day \in Int /\ day' \in Int
<1>1. TypeOK /\ TypeOK'
  BY MeterTypeStep DEF IInv
<1>2. faults \in Int /\ faults' \in Int /\ day \in Int /\ day' \in Int
  BY <1>1, BoundsAreNat DEF TypeOK, Days
<1>3. faults' = faults \/ faults' = faults + 1
  BY DEF Next, vars, Record, Subscribe, Midnight, Sweep, SumGroups, ListRows, Listed,
         Report, ReportFails, MarkReported, MarkFails, Crash, Fault
<1>4. ASSUME NEW s \in Sweeps, NEW w \in Workspaces, Report(s, w) \/ ReportFails(s, w)
      PROVE  \/ UNCHANGED event
             \/ /\ w \in batch[s] /\ TakeEvent(s, w)
                /\ UNCHANGED <<today, day, sum, groups, ids, marked>>
  BY <1>4 DEF Report, ReportFails
<1>5. \/ UNCHANGED event
      \/ \E s \in Sweeps : \E w \in Workspaces : Report(s, w) \/ ReportFails(s, w)
  BY DEF Next, vars, Record, Subscribe, Midnight, Sweep, SumGroups, ListRows, Listed,
         MarkReported, MarkFails, Crash
<1> QED
  BY <1>2, <1>3, <1>4, <1>5

LEMMA DatesStep == IInv /\ [Next]_vars => DatesHaveCome'
<1> SUFFICES ASSUME IInv, [Next]_vars PROVE DatesHaveCome'
  OBVIOUS
<1>0. TypeOK /\ DatesHaveCome
  BY DEF IInv
<1>1. day \in Int /\ day' \in Int /\ \A s \in Sweeps : today[s] \in Int
  BY <1>0, EventStep, BoundsAreNat DEF TypeOK, Days
<1>2. day <= day' /\ (UNCHANGED today \/ \E s \in Sweeps : SumGroups(s))
  <2>1. day' = day \/ day' = day + 1
    BY DEF Next, vars, Record, Subscribe, Midnight, Sweep, SumGroups, ListRows, Listed,
           Report, ReportFails, MarkReported, MarkFails, Crash
  <2>2. UNCHANGED today \/ \E s \in Sweeps : SumGroups(s)
    BY DEF Next, vars, Record, Subscribe, Midnight, Sweep, ListRows, Listed,
           Report, ReportFails, MarkReported, MarkFails, Crash
  <2> QED
    BY <1>1, <2>1, <2>2
<1>3. ASSUME NEW s \in Sweeps PROVE today'[s] <= day'
  <2>1. today'[s] = today[s] \/ today'[s] = day
    BY <1>0, <1>2 DEF SumGroups, TypeOK
  <2>2. today[s] <= day
    BY <1>0 DEF DatesHaveCome
  <2> QED
    BY <1>1, <1>2, <2>1, <2>2
<1>4. ASSUME NEW r \in Records, NEW d \in BilledOn(r)' PROVE d <= day'
  <2>1. CASE d \in BilledOn(r)
    <3>1. d \in Int /\ d <= day
      BY <1>0, <2>1, BoundsAreNat DEF DatesHaveCome, BilledOn, Days
    <3> QED
      BY <1>1, <1>2, <3>1
  <2>2. CASE d \notin BilledOn(r)
    <3>1. ~UNCHANGED event
      BY <2>2 DEF BilledOn
    <3>2. PICK s \in Sweeps : \E w \in batch[s] : TakeEvent(s, w)
      BY <3>1, EventStep
    <3>3. PICK w \in Workspaces : TakeEvent(s, w)
      BY <1>0, <3>2 DEF TypeOK
    <3>4. d = today[s]
      BY <1>0, <2>2, <3>3, TakeAdds
    <3>5. today[s] <= day
      BY <1>0 DEF DatesHaveCome
    <3> QED
      BY <1>1, <1>2, <3>4, <3>5
  <2> QED
    BY <2>1, <2>2
<1> QED
  BY <1>3, <1>4 DEF DatesHaveCome

LEMMA DueStep == IInv /\ [Next]_vars => DueWerePaidFor'
<1> SUFFICES ASSUME IInv, [Next]_vars, NEW t \in Sweeps,
                    NEW v \in groups'[t] \cup batch'[t], NEW r \in sum'[t][v],
                    NEW x, x = today'[t]
             PROVE  Cardinality(BilledBefore(r, x)') + (day' - x) <= faults'
  BY DEF DueWerePaidFor, BilledBefore
<1>0. /\ TypeOK /\ TypeOK' /\ HandIsInBatch /\ DueWerePaidFor /\ UnmarkedWerePaidFor
  BY MeterTypeStep DEF IInv
<1>1. /\ faults \in Int /\ faults' \in Int /\ faults <= faults'
      /\ day \in Int /\ day' \in Int /\ x \in Int
  BY <1>0, EventStep, BoundsAreNat DEF TypeOK, Days
<1>2. r \in Records /\ v \in Workspaces
  BY <1>0 DEF TypeOK
<1>c. Cardinality(BilledBefore(r, x)) \in Nat
  BY DatesFinite, BilledAreDates
<1>3. CASE SumGroups(t)
  <2>1. x = day /\ day' = day /\ r \in Unreported(v) /\ UNCHANGED <<event, faults>>
    BY <1>0, <1>2, <1>3 DEF SumGroups, TypeOK
  <2>2. Cardinality(BilledBefore(r, x)) <= faults
    BY <1>0, <1>2, <2>1 DEF UnmarkedWerePaidFor, Unreported
  <2>3. BilledBefore(r, x)' = BilledBefore(r, x)
    BY <2>1 DEF BilledBefore, BilledOn
  <2> QED
    BY <1>1, <1>c, <2>1, <2>2, <2>3
<1>4. CASE ~SumGroups(t)
  <2>1. v \in groups[t] \cup batch[t] /\ sum'[t] = sum[t] /\ today'[t] = today[t]
    <3>1. ASSUME NEW s \in Sweeps, SumGroups(s)
          PROVE  v \in groups[t] \cup batch[t] /\ sum'[t] = sum[t] /\ today'[t] = today[t]
      BY <1>0, <1>4, <3>1 DEF SumGroups, TypeOK
    <3>2. ASSUME NEW s \in Sweeps, NEW w \in Workspaces, ListRows(s, w)
          PROVE  v \in groups[t] \cup batch[t] /\ UNCHANGED <<sum, today>>
      BY <1>0, <3>2 DEF ListRows, TypeOK
    <3>3. ASSUME NEW s \in Sweeps, NEW w, Rest(s, w), UNCHANGED <<groups, sum, today>>
          PROVE  v \in groups[t] \cup batch[t] /\ UNCHANGED <<sum, today>>
      BY <1>0, <3>3 DEF Rest, TypeOK
    <3>4. ASSUME NEW s \in Sweeps, Crash(s)
          PROVE  v \in groups[t] \cup batch[t] /\ UNCHANGED <<sum, today>>
      BY <1>0, <3>4 DEF Crash, TypeOK
    <3>5. ASSUME NEW s \in Sweeps, NEW w \in Workspaces, ReportFails(s, w)
          PROVE  Rest(s, w) /\ UNCHANGED <<groups, sum, today>>
      BY <3>5 DEF ReportFails
    <3>6. ASSUME NEW s \in Sweeps, MarkReported(s) \/ MarkFails(s)
          PROVE  Rest(s, hand[s]) /\ UNCHANGED <<groups, sum, today>>
      BY <3>6 DEF MarkReported, MarkFails
    <3>7. CASE UNCHANGED <<groups, batch, sum, today>>
      BY <3>7
    <3>8. ASSUME NEW s \in Sweeps, NEW w \in Workspaces, Listed(s) \/ Report(s, w)
          PROVE  UNCHANGED <<groups, batch, sum, today>>
      BY <3>8 DEF Listed, Report
    <3>9. ASSUME NEW s \in Sweeps, Listed(s) PROVE UNCHANGED <<groups, batch, sum, today>>
      BY <3>9 DEF Listed
    <3>10. CASE Midnight \/ (\E w \in Workspaces : Subscribe(w)) \/ \E q \in Records : Record(q)
      BY <3>7, <3>10 DEF Midnight, Subscribe, Record
    <3> QED
      BY <3>1, <3>2, <3>3, <3>4, <3>5, <3>6, <3>7, <3>8, <3>9, <3>10 DEF Next, Sweep, vars
  <2>2. Cardinality(BilledBefore(r, x)) + (day - x) <= faults
    BY <1>0, <2>1 DEF DueWerePaidFor
  <2>3. CASE day' = day /\ BilledBefore(r, x)' = BilledBefore(r, x)
    BY <1>1, <1>c, <2>2, <2>3
  <2>4. CASE Midnight
    <3>1. pc[t] # "idle"
      BY <1>0, <2>1 DEF HandIsInBatch
    <3>2. day' = day + 1 /\ faults' = faults + 1 /\ event' = event
      BY <2>4, <3>1 DEF Midnight, Fault
    <3>3. BilledBefore(r, x)' = BilledBefore(r, x)
      BY <3>2 DEF BilledBefore, BilledOn
    <3> QED
      BY <1>1, <1>c, <2>2, <3>2, <3>3
  <2>5. CASE day' = day /\ UNCHANGED event
    BY <2>3, <2>5 DEF BilledBefore, BilledOn
  <2>6. ASSUME NEW s \in Sweeps, NEW w \in batch[s], TakeEvent(s, w), day' = day
        PROVE  Cardinality(BilledBefore(r, x)') + (day' - x) <= faults'
    <3>1. \/ BilledBefore(r, x)' = BilledBefore(r, x)
          \/ Cardinality(BilledBefore(r, x)') + (day - x) <= faults
      BY <1>1, <1>2, <2>6, TakePaid
    <3>2. IsFiniteSet(BilledBefore(r, x)') /\ Cardinality(BilledBefore(r, x)') \in Nat
      BY DatesFinite, BilledAreDates
    <3>3. CASE Cardinality(BilledBefore(r, x)') + (day - x) <= faults
      BY <1>1, <2>6, <3>2, <3>3
    <3> QED
      BY <2>3, <2>6, <3>1, <3>3
  <2>7. Midnight \/ day' = day
    BY DEF Next, vars, Record, Subscribe, Sweep, SumGroups, ListRows, Listed,
           Report, ReportFails, MarkReported, MarkFails, Crash
  <2> QED
    BY <2>4, <2>5, <2>6, <2>7, EventStep
<1> QED
  BY <1>3, <1>4

\* No step bills a row once more than it adds a fault.
LEMMA OnceStep ==
  ASSUME IInv, [Next]_vars, NEW r \in Records
  PROVE  /\ Cardinality(BilledOn(r)') <= faults' + 1
         /\ \/ BilledOn(r)' = BilledOn(r)
            \/ Cardinality(BilledOn(r)') <= faults + 1
<1>0. TypeOK /\ DatesHaveCome /\ BilledOnce
  BY DEF IInv
<1>1. faults \in Int /\ faults' \in Int /\ faults <= faults' /\ day + 1 \in Int /\ day \in Int
  BY EventStep
<1>2. Cardinality(BilledOn(r)) <= faults + 1 /\ Cardinality(BilledOn(r)) \in Nat
  BY <1>0, DatesFinite, BilledAreDates DEF BilledOnce
<1>3. CASE BilledOn(r)' = BilledOn(r)
  BY <1>1, <1>2, <1>3
<1>4. CASE UNCHANGED event
  BY <1>3, <1>4 DEF BilledOn
<1>5. ASSUME NEW s \in Sweeps, NEW w \in batch[s], TakeEvent(s, w), day' = day
      PROVE  \/ BilledOn(r)' = BilledOn(r)
             \/ Cardinality(BilledOn(r)') <= faults + 1
  <2> DEFINE x == day + 1
  <2>1. BilledOn(r)' = BilledBefore(r, x)'
    <3>1. \A d \in BilledOn(r)' : d \in Int /\ d <= day
      BY <1>5, DatesStep, DatesFinite, BilledAreDates DEF DatesHaveCome
    <3>2. \A d \in BilledOn(r)' : d < day + 1
      BY <1>1, <3>1
    <3> QED
      BY <1>5, <3>2 DEF BilledBefore
  <2>2. BilledOn(r) = BilledBefore(r, x)
    BY <1>0, AllHaveCome
  <2>3. \/ BilledBefore(r, x)' = BilledBefore(r, x)
        \/ Cardinality(BilledBefore(r, x)') + (day - x) <= faults
    <3>1. PICK y \in Int : y = day + 1
      BY <1>1
    <3>2. \/ BilledBefore(r, y)' = BilledBefore(r, y)
          \/ Cardinality(BilledBefore(r, y)') + (day - y) <= faults
      BY <1>5, TakePaid
    <3> QED
      BY <1>5, <3>1, <3>2 DEF BilledBefore
  <2>4. Cardinality(BilledOn(r)') \in Nat
    BY DatesFinite, BilledAreDates
  <2>5. CASE Cardinality(BilledBefore(r, x)') + (day - x) <= faults
    BY <1>1, <2>1, <2>4, <2>5
  <2> QED
    BY <2>1, <2>2, <2>3, <2>5
<1>6. \/ BilledOn(r)' = BilledOn(r)
      \/ Cardinality(BilledOn(r)') <= faults + 1
  BY <1>4, <1>5, EventStep DEF BilledOn
<1>7. Cardinality(BilledOn(r)') \in Nat
  BY DatesFinite, BilledAreDates
<1>8. CASE Cardinality(BilledOn(r)') <= faults + 1
  BY <1>1, <1>7, <1>8
<1> QED
  BY <1>3, <1>6, <1>8

LEMMA UnmarkedStep == IInv /\ [Next]_vars => UnmarkedWerePaidFor'
<1> SUFFICES ASSUME IInv, [Next]_vars, NEW r \in Records, r \notin marked', NEW x, x = day'
             PROVE  Cardinality(BilledBefore(r, x)') <= faults'
  BY DEF UnmarkedWerePaidFor, BilledBefore
<1>0. /\ TypeOK /\ HandIsInBatch /\ UnmarkedWerePaidFor /\ LeftWerePaidFor /\ BilledOnce
      /\ r \notin marked
  BY RowsStay DEF IInv
<1>1. faults \in Int /\ faults' \in Int /\ faults <= faults' /\ x \in Int
  BY EventStep
<1>2. /\ Cardinality(BilledBefore(r, x)) \in Nat /\ Cardinality(BilledBefore(r, x)') \in Nat
      /\ IsFiniteSet(BilledOn(r)) /\ Cardinality(BilledOn(r)) \in Nat
  BY DatesFinite, BilledAreDates
<1>3. CASE Midnight
  <2>1. BilledBefore(r, x)' \subseteq BilledOn(r)
    BY <1>3 DEF Midnight, BilledBefore, BilledOn
  <2>2. Cardinality(BilledBefore(r, x)') <= Cardinality(BilledOn(r))
    BY <1>2, <2>1, FS_Subset
  <2>3. CASE \E s \in Sweeps : pc[s] # "idle"
    <3>1. faults' = faults + 1
      BY <1>3, <2>3 DEF Midnight, Fault
    <3>2. Cardinality(BilledOn(r)) <= faults + 1
      BY <1>0 DEF BilledOnce
    <3> QED
      BY <1>1, <1>2, <2>2, <3>1, <3>2
  <2>4. CASE \A s \in Sweeps : pc[s] = "idle"
    <3>1. \A s \in Sweeps : hand[s] # OwnerOf[r]
      BY <1>0, <2>4, NoneIsNoWorkspace, OwnersAreWorkspaces DEF HandIsInBatch
    <3>2. Cardinality(BilledOn(r)) <= faults
      BY <1>0, <3>1 DEF LeftWerePaidFor
    <3> QED
      BY <1>1, <1>2, <2>2, <3>2
  <2> QED
    BY <2>3, <2>4
<1>4. CASE day' = day
  <2>1. Cardinality(BilledBefore(r, x)) <= faults
    BY <1>0, <1>4 DEF UnmarkedWerePaidFor
  <2>2. CASE BilledBefore(r, x)' = BilledBefore(r, x)
    BY <1>1, <1>2, <2>1, <2>2
  <2>3. ASSUME NEW s \in Sweeps, NEW w \in batch[s], TakeEvent(s, w)
        PROVE  Cardinality(BilledBefore(r, x)') <= faults'
    <3>1. \/ BilledBefore(r, x)' = BilledBefore(r, x)
          \/ Cardinality(BilledBefore(r, x)') + (day - x) <= faults
      BY <1>1, <2>3, TakePaid
    <3>2. CASE Cardinality(BilledBefore(r, x)') + (day - x) <= faults
      BY <1>1, <1>2, <1>4, <3>2
    <3> QED
      BY <2>2, <3>1, <3>2
  <2> QED
    BY <2>2, <2>3, EventStep DEF BilledBefore, BilledOn
<1>5. Midnight \/ day' = day
  BY DEF Next, vars, Record, Subscribe, Sweep, SumGroups, ListRows, Listed,
         Report, ReportFails, MarkReported, MarkFails, Crash
<1> QED
  BY <1>3, <1>4, <1>5

LEMMA LeftStep == IInv /\ [Next]_vars => LeftWerePaidFor'
<1> SUFFICES ASSUME IInv, [Next]_vars, NEW r \in Records, r \notin marked',
                    \A s \in Sweeps : ~(hand'[s] = OwnerOf[r] /\ r \in ids'[s][OwnerOf[r]])
             PROVE  Cardinality(BilledOn(r)') <= faults'
  BY DEF LeftWerePaidFor
<1>0. /\ TypeOK /\ HandIsInBatch /\ ListCoversSum /\ LeftWerePaidFor /\ r \notin marked
      /\ OwnerOf[r] \in Workspaces
  BY RowsStay, OwnersAreWorkspaces DEF IInv
<1>1. faults \in Int /\ faults' \in Int /\ faults <= faults'
  BY EventStep
<1>2. Cardinality(BilledOn(r)) \in Nat /\ Cardinality(BilledOn(r)') \in Nat
  BY DatesFinite, BilledAreDates
<1>3. CASE faults' = faults + 1
  <2>1. Cardinality(BilledOn(r)) <= faults + 1
    BY DEF IInv, BilledOnce
  <2>2. \/ BilledOn(r)' = BilledOn(r)
        \/ Cardinality(BilledOn(r)') <= faults + 1
    BY OnceStep
  <2> QED
    BY <1>1, <1>2, <1>3, <2>1, <2>2
<1>4. CASE ~Fault
  <2>1. \A s \in Sweeps : ~(hand[s] = OwnerOf[r] /\ r \in ids[s][OwnerOf[r]])
    BY <1>0, <1>4, CoverKept
  <2>2. Cardinality(BilledOn(r)) <= faults
    BY <1>0, <2>1 DEF LeftWerePaidFor
  <2>3. CASE UNCHANGED event
    <3>1. BilledOn(r)' = BilledOn(r)
      BY <2>3 DEF BilledOn
    <3> QED
      BY <1>1, <1>2, <2>2, <3>1
  <2>4. ASSUME NEW s \in Sweeps, NEW w \in batch[s], TakeEvent(s, w), Report(s, w)
        PROVE  Cardinality(BilledOn(r)') <= faults'
    <3>0. w \in Workspaces
      BY <1>0 DEF TypeOK
    <3>1. CASE BilledOn(r)' = BilledOn(r)
      BY <1>1, <1>2, <2>2, <3>1
    <3>2. CASE w = OwnerOf[r] /\ r \in sum[s][w]
      <4>1. r \in ids[s][w]
        BY <1>0, <2>4, <3>2 DEF ListCoversSum
      <4>2. hand'[s] = w /\ ids' = ids
        BY <1>0, <2>4 DEF Report, TypeOK
      <4> QED
        BY <3>2, <4>1, <4>2
    <3> QED
      BY <1>0, <2>4, <3>0, <3>1, <3>2, TakeAdds
  <2>5. ASSUME NEW s \in Sweeps, NEW w, ReportFails(s, w) PROVE FALSE
    BY <1>4, <2>5 DEF ReportFails
  <2> QED
    BY <2>3, <2>4, <2>5, EventStep
<1> QED
  BY <1>3, <1>4 DEF Fault

\* The invariant from which the theorems follow.
THEOREM MeterInvariant == Spec => []IInv
<1>1. IInv /\ [Next]_vars => IInv'
  <2> SUFFICES ASSUME IInv, [Next]_vars PROVE IInv'
    OBVIOUS
  <2>1. BilledOnce'
    BY OnceStep DEF BilledOnce
  <2> QED
    BY MeterTypeStep, SumsStep, HandStep, ListStep, DatesStep, DueStep, UnmarkedStep,
       LeftStep, BilledStep, <2>1 DEF IInv
<1> QED
  BY MeterInvInit, <1>1, PTL DEF Spec

\* Every reachable state of the meter is well typed: sums, ids and what Stripe was
\* told are rows of model calls.
THEOREM MeterTypeCorrect == Spec => []TypeOK
BY MeterInvariant, PTL DEF IInv

\* Unless something fails, what Stripe was told (reportMeterEvent) is marked, or is
\* about to be (defaultMarkReported), however many sweeps overlap.
THEOREM BilledWasMarked == Spec => []BilledIsMarked
BY MeterInvariant, PTL DEF IInv

\* A call is billed on at most one date more than things went wrong: an identifier
\* (buildIdempotencyKey) guards its date, the marks the dates that follow.
THEOREM BilledOnceHolds == Spec => []BilledOnce
BY MeterInvariant, PTL DEF IInv

-----------------------------------------------------------------------------
(* What the refuted promise takes.                                          *)

\* What a sweep is to mark was in its sum, and what it is about to mark is billed.
IdsAreSummed == \A s \in Sweeps : \A w \in batch[s] : ids[s][w] \subseteq sum[s][w]
IdsAreTaken ==
  \A s \in Sweeps : pc[s] = "mark" => ids[s][hand[s]] \subseteq event[hand[s]][today[s]]

MarkInv == IdsAreSummed /\ IdsAreTaken /\ MarkedIsBilled

\* What makes a mark wrong, step by step (NoneInBetween, NoneRefused).
ListedWhole ==
  \A s \in Sweeps, w \in Workspaces : ListRows(s, w) => Unreported(w) \subseteq sum[s][w]
TakenWhole ==
  \A s \in Sweeps, w \in Workspaces :
    Report(s, w) => LET e == event[w][today[s]] IN e = {} \/ sum[s][w] \subseteq e

\* Stripe forgets no event.
LEMMA EventsStay ==
  ASSUME TypeOK, [Next]_vars, NEW w \in Workspaces, NEW d \in Days
  PROVE  event[w][d] \subseteq event'[w][d]
<1>1. ASSUME NEW s \in Sweeps, NEW v \in Workspaces, TakeEvent(s, v)
      PROVE  event[w][d] \subseteq event'[w][d]
  <2>1. today[s] \in Days /\ event[v] \in [Days -> SUBSET Records]
    BY DEF TypeOK
  <2> QED
    BY <1>1, <2>1 DEF TakeEvent, TypeOK
<1> QED
  BY <1>1
     DEF Next, vars, Record, Subscribe, Midnight, Sweep, SumGroups, ListRows, Listed,
         Report, ReportFails, MarkReported, MarkFails, Crash

LEMMA SummedStep == IInv /\ IdsAreSummed /\ ListedWhole /\ [Next]_vars => IdsAreSummed'
<1> SUFFICES ASSUME IInv, IdsAreSummed, ListedWhole, [Next]_vars, NEW t \in Sweeps,
                    NEW v \in batch'[t]
             PROVE  ids'[t][v] \subseteq sum'[t][v]
  BY DEF IdsAreSummed
<1>0. TypeOK /\ HandIsInBatch
  BY DEF IInv
<1>v. v \in Workspaces
  BY MeterTypeStep DEF TypeOK
<1>1. CASE v \in batch[t] /\ sum'[t] = sum[t] /\ ids'[t][v] = ids[t][v]
  BY <1>1 DEF IdsAreSummed
<1>2. CASE SumGroups(t)
  BY <1>0, <1>2 DEF SumGroups, HandIsInBatch, TypeOK
<1>3. CASE ListRows(t, v)
  <2>1. ids'[t][v] = Unreported(v) /\ sum' = sum
    BY <1>0, <1>3, <1>v DEF ListRows, TypeOK
  <2> QED
    BY <1>3, <1>v, <2>1 DEF ListedWhole
<1>4. ASSUME NEW s \in Sweeps, SumGroups(s), s # t
      PROVE  v \in batch[t] /\ sum'[t] = sum[t] /\ ids'[t][v] = ids[t][v]
  BY <1>0, <1>4 DEF SumGroups, TypeOK
<1>5. ASSUME NEW s \in Sweeps, NEW w \in Workspaces, ListRows(s, w), s # t \/ w # v
      PROVE  v \in batch[t] /\ sum'[t] = sum[t] /\ ids'[t][v] = ids[t][v]
  BY <1>0, <1>5 DEF ListRows, TypeOK
<1>6. ASSUME NEW s \in Sweeps, NEW w, Rest(s, w), UNCHANGED <<sum, ids>>
      PROVE  v \in batch[t] /\ sum'[t] = sum[t] /\ ids'[t][v] = ids[t][v]
  BY <1>0, <1>6 DEF Rest, TypeOK
<1>7. ASSUME NEW s \in Sweeps, Crash(s)
      PROVE  v \in batch[t] /\ sum'[t] = sum[t] /\ ids'[t][v] = ids[t][v]
  BY <1>0, <1>7 DEF Crash, TypeOK
<1>8. CASE UNCHANGED <<batch, sum, ids>>
  BY <1>1, <1>8
<1>9. ASSUME NEW s \in Sweeps, NEW w \in Workspaces, ReportFails(s, w)
      PROVE  Rest(s, w) /\ UNCHANGED <<sum, ids>>
  BY <1>9 DEF ReportFails
<1>10. ASSUME NEW s \in Sweeps, MarkReported(s) \/ MarkFails(s)
       PROVE  Rest(s, hand[s]) /\ UNCHANGED <<sum, ids>>
  BY <1>10 DEF MarkReported, MarkFails
<1>11. ASSUME NEW s \in Sweeps, NEW w \in Workspaces, Listed(s) \/ Report(s, w)
       PROVE  UNCHANGED <<batch, sum, ids>>
  BY <1>11 DEF Listed, Report
<1>12. CASE Midnight \/ (\E w \in Workspaces : Subscribe(w)) \/ \E q \in Records : Record(q)
  BY <1>8, <1>12 DEF Midnight, Subscribe, Record
<1>13. ASSUME NEW s \in Sweeps, Listed(s) PROVE UNCHANGED <<batch, sum, ids>>
  BY <1>13 DEF Listed
<1> QED
  BY <1>1, <1>2, <1>3, <1>4, <1>5, <1>6, <1>7, <1>8, <1>9, <1>10, <1>11, <1>12, <1>13
     DEF Next, Sweep, vars

LEMMA TakenStep ==
  IInv /\ IdsAreSummed /\ IdsAreTaken /\ TakenWhole /\ [Next]_vars => IdsAreTaken'
<1> SUFFICES ASSUME IInv, IdsAreSummed, IdsAreTaken, TakenWhole, [Next]_vars,
                    NEW t \in Sweeps, pc'[t] = "mark"
             PROVE  ids'[t][hand'[t]] \subseteq event'[hand'[t]][today'[t]]
  BY DEF IdsAreTaken
<1>0. TypeOK /\ HandIsInBatch
  BY DEF IInv
<1>1. CASE pc[t] = "mark" /\ hand'[t] = hand[t] /\ ids'[t] = ids[t] /\ today'[t] = today[t]
  <2>1. hand[t] \in Workspaces /\ today[t] \in Days
    BY <1>0, <1>1 DEF HandIsInBatch, TypeOK
  <2>2. event[hand[t]][today[t]] \subseteq event'[hand[t]][today[t]]
    BY <1>0, <2>1, EventsStay
  <2> QED
    BY <1>1, <2>2 DEF IdsAreTaken
<1>2. ASSUME NEW w \in Workspaces, Report(t, w)
      PROVE  ids'[t][hand'[t]] \subseteq event'[hand'[t]][today'[t]]
  <2>1. /\ hand'[t] = w /\ w \in batch[t] /\ ids' = ids /\ today' = today
        /\ today[t] \in Days /\ event[w] \in [Days -> SUBSET Records]
    BY <1>0, <1>2 DEF Report, TypeOK
  <2>2. ids[t][w] \subseteq sum[t][w]
    BY <2>1 DEF IdsAreSummed
  <2>3. event'[w][today[t]] = IF event[w][today[t]] = {} THEN sum[t][w]
                                                        ELSE event[w][today[t]]
    BY <1>0, <1>2, <2>1 DEF Report, TakeEvent, TypeOK
  <2>4. event[w][today[t]] = {} \/ sum[t][w] \subseteq event[w][today[t]]
    BY <1>2 DEF TakenWhole
  <2> QED
    BY <2>1, <2>2, <2>3, <2>4
<1>3. ASSUME NEW s \in Sweeps, NEW w \in Workspaces, Report(s, w), s # t
      PROVE  pc[t] = "mark" /\ hand'[t] = hand[t] /\ ids'[t] = ids[t] /\ today'[t] = today[t]
  BY <1>0, <1>3 DEF Report, GoTo, TypeOK
<1>4. ASSUME NEW s \in Sweeps, SumGroups(s) \/ Listed(s) \/ Crash(s)
      PROVE  pc[t] = "mark" /\ hand'[t] = hand[t] /\ ids'[t] = ids[t] /\ today'[t] = today[t]
  BY <1>0, <1>4 DEF SumGroups, Listed, Crash, GoTo, TypeOK
<1>5. ASSUME NEW s \in Sweeps, NEW w \in Workspaces, ListRows(s, w)
      PROVE  pc[t] = "mark" /\ hand'[t] = hand[t] /\ ids'[t] = ids[t] /\ today'[t] = today[t]
  BY <1>0, <1>5 DEF ListRows, TypeOK
<1>6. ASSUME NEW s \in Sweeps, NEW w, Rest(s, w), UNCHANGED <<ids, today>>
      PROVE  pc[t] = "mark" /\ hand'[t] = hand[t] /\ ids'[t] = ids[t] /\ today'[t] = today[t]
  BY <1>0, <1>6 DEF Rest, GoTo, TypeOK
<1>7. ASSUME NEW s \in Sweeps, NEW w \in Workspaces, ReportFails(s, w)
      PROVE  Rest(s, w) /\ UNCHANGED <<ids, today>>
  BY <1>7 DEF ReportFails
<1>8. ASSUME NEW s \in Sweeps, MarkReported(s) \/ MarkFails(s)
      PROVE  Rest(s, hand[s]) /\ UNCHANGED <<ids, today>>
  BY <1>8 DEF MarkReported, MarkFails
<1>9. CASE UNCHANGED <<pc, hand, ids, today>>
  BY <1>1, <1>9
<1>10. CASE Midnight \/ (\E w \in Workspaces : Subscribe(w)) \/ \E q \in Records : Record(q)
  BY <1>9, <1>10 DEF Midnight, Subscribe, Record
<1> QED
  BY <1>1, <1>2, <1>3, <1>4, <1>5, <1>6, <1>7, <1>8, <1>9, <1>10 DEF Next, Sweep, vars

LEMMA MarkedStep == IInv /\ MarkInv /\ [Next]_vars => MarkedIsBilled'
<1> SUFFICES ASSUME IInv, MarkInv, [Next]_vars, NEW r \in marked'
             PROVE  BilledOn(r)' # {}
  BY DEF MarkedIsBilled
<1>0. TypeOK /\ SumsAreStored /\ HandIsInBatch
  BY DEF IInv
<1>1. r \in Records /\ OwnerOf[r] \in Workspaces
  BY MeterTypeStep, OwnersAreWorkspaces DEF TypeOK
<1>2. ASSUME NEW d \in Days, r \in event[OwnerOf[r]][d] PROVE BilledOn(r)' # {}
  <2>1. r \in event'[OwnerOf[r]][d]
    BY <1>0, <1>1, <1>2, EventsStay
  <2> QED
    BY <2>1 DEF BilledOn
<1>3. CASE r \in marked
  BY <1>2, <1>3 DEF MarkInv, MarkedIsBilled, BilledOn
<1>4. CASE r \notin marked
  <2>1. PICK s \in Sweeps : MarkReported(s)
    BY <1>4 DEF Next, vars, Record, Subscribe, Midnight, Sweep, SumGroups, ListRows, Listed,
                Report, ReportFails, MarkFails, Crash
  <2>2. /\ hand[s] \in batch[s] /\ hand[s] \in Workspaces /\ today[s] \in Days
        /\ r \in ids[s][hand[s]] /\ pc[s] = "mark"
    BY <1>0, <1>4, <2>1 DEF MarkReported, HandIsInBatch, TypeOK
  <2>3. OwnerOf[r] = hand[s]
    BY <1>0, <2>2 DEF MarkInv, IdsAreSummed, SumsAreStored
  <2>4. r \in event[OwnerOf[r]][today[s]]
    BY <2>2, <2>3 DEF MarkInv, IdsAreTaken
  <2> QED
    BY <1>2, <2>2, <2>4
<1> QED
  BY <1>3, <1>4

\* What is marked was billed (stripe-meter.ts: "row ids that contributed to the sum")
\* unless a row came between a sweep's two reads, or an event was taken for an earlier
\* one of its date: there is no third way.
THEOREM MarkedWasBilledOtherwise ==
  Spec /\ NoneInBetween /\ NoneRefused => []MarkedIsBilled
<1>1. Init => MarkInv
  BY DEF Init, MarkInv, IdsAreSummed, IdsAreTaken, MarkedIsBilled
<1>2. IInv /\ MarkInv /\ [Next]_vars /\ [ListedWhole]_vars /\ [TakenWhole]_vars => MarkInv'
  <2> SUFFICES ASSUME IInv, MarkInv, [Next]_vars, [ListedWhole]_vars, [TakenWhole]_vars
               PROVE  MarkInv'
    OBVIOUS
  <2>1. CASE UNCHANGED vars
    BY <2>1 DEF vars, MarkInv, IdsAreSummed, IdsAreTaken, MarkedIsBilled, BilledOn
  <2>2. CASE ListedWhole /\ TakenWhole
    BY <2>2, SummedStep, TakenStep, MarkedStep DEF MarkInv
  <2> QED
    BY <2>1, <2>2
<1>3. MarkInv => MarkedIsBilled
  BY DEF MarkInv
<1>4. NoneInBetween /\ NoneRefused => [][ListedWhole]_vars /\ [][TakenWhole]_vars
  BY PTL DEF NoneInBetween, NoneRefused, ListedWhole, TakenWhole
<1> QED
  BY MeterInvariant, <1>1, <1>2, <1>3, <1>4, PTL DEF Spec
=============================================================================
