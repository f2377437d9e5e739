----------------------------- MODULE UsageMeter ------------------------------
(***************************************************************************)
(* Metering of what the model calls cost (lib/billing/usage/recorder.ts,    *)
(* stripe-meter.ts).  Every call leaves a row; once a day, or when it is    *)
(* asked to, a sweep reports the sum of a workspace's unreported rows to    *)
(* Stripe, under an identifier made of the workspace and the date, and      *)
(* marks the rows.  The sum and the ids it marks are two reads.             *)
(***************************************************************************)
EXTENDS Integers, FiniteSets

CONSTANTS Workspaces,
          Records,    \* model calls with a cost
          OwnerOf,    \* OwnerOf[r]: the workspace the call was made for
          Sweeps,
          MaxDays,    \* bound of the dates
          MaxFaults   \* bound of what goes wrong

ASSUME OwnersAreWorkspaces == OwnerOf \in [Records -> Workspaces]
ASSUME BoundsAreNat == MaxDays \in Nat \ {0} /\ MaxFaults \in Nat
ASSUME NoneIsNoWorkspace == "none" \notin Workspaces

Days == 1 .. MaxDays

VARIABLES stored,   \* LlmUsageRecord rows
          marked,   \* rows with stripeReportedAt
          linked,   \* workspaces with a Subscription, and so a Stripe customer
          day,      \* the date
          event,    \* event[w][d]: the rows in the sum Stripe has for w on date d
          today,    \* today[s]: the date sweep s began
          sum,      \* sum[s][w]: the rows in the sum it read
          ids,      \* ids[s][w]: the rows it is to mark
          groups,   \* groups[s]: workspaces whose rows it has still to list
          batch,    \* batch[s]: workspaces it has still to report
          pc,       \* pc[s]: how far it is
          hand,     \* hand[s]: the workspace whose event was taken, or "none"
          faults    \* failed calls, dead runs, and runs the date changed under

vars == <<stored, marked, linked, day, event, today, sum, ids, groups, batch, pc, hand,
          faults>>

TypeOK ==
  /\ stored \in SUBSET Records
  /\ marked \in SUBSET Records
  /\ linked \in SUBSET Workspaces
  /\ day \in Days
  /\ event \in [Workspaces -> [Days -> SUBSET Records]]
  /\ today \in [Sweeps -> Days]
  /\ sum \in [Sweeps -> [Workspaces -> SUBSET Records]]
  /\ ids \in [Sweeps -> [Workspaces -> SUBSET Records]]
  /\ groups \in [Sweeps -> SUBSET Workspaces]
  /\ batch \in [Sweeps -> SUBSET Workspaces]
  /\ pc \in [Sweeps -> {"idle", "list", "report", "mark"}]
  /\ hand \in [Sweeps -> Workspaces \cup {"none"}]
  /\ faults \in 0 .. MaxFaults

NoRows == [w \in Workspaces |-> {}]

Init ==
  /\ stored = {}
  /\ marked = {}
  /\ linked = {}
  /\ day = 1
  /\ event = [w \in Workspaces |-> [d \in Days |-> {}]]
  /\ today = [s \in Sweeps |-> 1]
  /\ sum = [s \in Sweeps |-> NoRows]
  /\ ids = [s \in Sweeps |-> NoRows]
  /\ groups = [s \in Sweeps |-> {}]
  /\ batch = [s \in Sweeps |-> {}]
  /\ pc = [s \in Sweeps |-> "idle"]
  /\ hand = [s \in Sweeps |-> "none"]
  /\ faults = 0

-----------------------------------------------------------------------------
(* The fleet, the subscription and the date.                                *)

\* persistUsageRecorder.  A row that cannot be written is let go: that call is one
\* of those that never come.
Record(r) ==
  /\ r \notin stored
  /\ stored' = stored \cup {r}
  /\ UNCHANGED <<marked, linked, day, event, today, sum, ids, groups, batch, pc, hand,
                 faults>>

\* syncSubscription (Billing)
Subscribe(w) ==
  /\ w \notin linked
  /\ linked' = linked \cup {w}
  /\ UNCHANGED <<stored, marked, day, event, today, sum, ids, groups, batch, pc, hand,
                 faults>>

Fault == faults < MaxFaults /\ faults' = faults + 1

Midnight ==
  /\ day < MaxDays
  /\ day' = day + 1
  /\ IF \E s \in Sweeps : pc[s] # "idle" THEN Fault ELSE UNCHANGED faults
  /\ UNCHANGED <<stored, marked, linked, event, today, sum, ids, groups, batch, pc, hand>>

-----------------------------------------------------------------------------
(* runStripeMeterSweep.                                                     *)

Unreported(w) == {r \in stored \ marked : OwnerOf[r] = w}

GoTo(s, l) == pc' = [pc EXCEPT ![s] = l]

\* Fault: a workspace without usage has no sum, not an empty one.
SumDueOnly(s) ==
  LET due == {w \in Workspaces : Unreported(w) # {}}
  IN  /\ pc[s] = "idle" /\ due # {}
      /\ today' = [today EXCEPT ![s] = day]
      /\ sum' = [sum EXCEPT ![s] = [w \in due |-> Unreported(w)]]
      /\ groups' = [groups EXCEPT ![s] = due]
      /\ GoTo(s, "list")
      /\ UNCHANGED <<stored, marked, linked, day, event, ids, batch, hand, faults>>

\* Fault: the sums are those of all rows.
SumEverything(s) ==
  LET due == {w \in Workspaces : Unreported(w) # {}}
  IN  /\ pc[s] = "idle" /\ due # {}
      /\ today' = [today EXCEPT ![s] = day]
      /\ sum' = [sum EXCEPT ![s] = [w \in Workspaces |-> {r \in stored : OwnerOf[r] = w}]]
      /\ groups' = [groups EXCEPT ![s] = due]
      /\ GoTo(s, "list")
      /\ UNCHANGED <<stored, marked, linked, day, event, ids, batch, hand, faults>>

\* The clock is read, and the sums of all workspaces in one statement.
SumGroups(s) ==
  LET due == {w \in Workspaces : Unreported(w) # {}}
  IN  /\ pc[s] = "idle" /\ due # {}
      /\ today' = [today EXCEPT ![s] = day]
      /\ sum' = [sum EXCEPT ![s] = [w \in Workspaces |-> Unreported(w)]]
      /\ groups' = [groups EXCEPT ![s] = due]
      /\ GoTo(s, "list")
      /\ UNCHANGED <<stored, marked, linked, day, event, ids, batch, hand, faults>>

\* Fault: the ids come a page at a time, and the second page is not asked for.
ListPage(s, w) ==
  /\ pc[s] = "list" /\ w \in groups[s]
  /\ \E rows \in SUBSET Unreported(w) :
       /\ \A q, r \in rows : q = r
       /\ ids' = [ids EXCEPT ![s][w] = rows]
       /\ batch' = [batch EXCEPT ![s] = IF w \in linked /\ rows # {} THEN @ \cup {w} ELSE @]
  /\ groups' = [groups EXCEPT ![s] = @ \ {w}]
  /\ UNCHANGED <<stored, marked, linked, day, event, today, sum, pc, hand, faults>>

\* The subscription and the ids of the unreported rows as they are now.  Without a
\* customer, or with no rows left, the workspace is skipped.
ListRows(s, w) ==
  /\ pc[s] = "list" /\ w \in groups[s]
  /\ ids' = [ids EXCEPT ![s][w] = Unreported(w)]
  /\ batch' = [batch EXCEPT ![s] =
                 IF w \in linked /\ Unreported(w) # {} THEN @ \cup {w} ELSE @]
  /\ groups' = [groups EXCEPT ![s] = @ \ {w}]
  /\ UNCHANGED <<stored, marked, linked, day, event, today, sum, pc, hand, faults>>

Listed(s) ==
  /\ pc[s] = "list" /\ groups[s] = {}
  /\ GoTo(s, IF batch[s] = {} THEN "idle" ELSE "report")
  /\ UNCHANGED <<stored, marked, linked, day, event, today, sum, ids, groups, batch, hand,
                 faults>>

\* On to the rest of the batch, if there is one.
Rest(s, w) ==
  /\ batch' = [batch EXCEPT ![s] = @ \ {w}]
  /\ hand' = [hand EXCEPT ![s] = "none"]
  /\ GoTo(s, IF batch[s] = {w} THEN "idle" ELSE "report")

\* Stripe, as buildIdempotencyKey relies on it: a second event of a workspace under
\* a date is taken for the first one again.
TakeEvent(s, w) ==
  event' = [event EXCEPT ![w][today[s]] = IF @ = {} THEN sum[s][w] ELSE @]

\* reportMeterEvent
Report(s, w) ==
  /\ pc[s] = "report" /\ w \in batch[s]
  /\ TakeEvent(s, w)
  /\ hand' = [hand EXCEPT ![s] = w]
  /\ GoTo(s, "mark")
  /\ UNCHANGED <<stored, marked, linked, day, today, sum, ids, groups, batch, faults>>

\* It throws: the event was not taken, or the answer was lost.
ReportFails(s, w) ==
  /\ pc[s] = "report" /\ w \in batch[s]
  /\ TakeEvent(s, w) \/ UNCHANGED event
  /\ Rest(s, w)
  /\ Fault
  /\ UNCHANGED <<stored, marked, linked, day, today, sum, ids, groups>>

\* defaultMarkReported
MarkReported(s) ==
  LET w == hand[s]
  IN  /\ pc[s] = "mark"
      /\ marked' = marked \cup ids[s][w]
      /\ Rest(s, w)
      /\ UNCHANGED <<stored, linked, day, event, today, sum, ids, groups, faults>>

MarkFails(s) ==
  /\ pc[s] = "mark"
  /\ Rest(s, hand[s])
  /\ Fault
  /\ UNCHANGED <<stored, marked, linked, day, event, today, sum, ids, groups>>

\* The run dies, or the lister throws.
Crash(s) ==
  /\ pc[s] # "idle"
  /\ GoTo(s, "idle")
  /\ groups' = [groups EXCEPT ![s] = {}]
  /\ batch' = [batch EXCEPT ![s] = {}]
  /\ hand' = [hand EXCEPT ![s] = "none"]
  /\ Fault
  /\ UNCHANGED <<stored, marked, linked, day, event, today, sum, ids>>

Sweep(s) == \/ SumGroups(s) \/ Listed(s) \/ MarkReported(s) \/ MarkFails(s) \/ Crash(s)
            \/ \E w \in Workspaces : ListRows(s, w) \/ Report(s, w) \/ ReportFails(s, w)

Next == \/ \E r \in Records : Record(r)
        \/ \E w \in Workspaces : Subscribe(w)
        \/ Midnight
        \/ \E s \in Sweeps : Sweep(s)

Spec == Init /\ [][Next]_vars

-----------------------------------------------------------------------------
(* What the meter guarantees however the sweeps overlap.                    *)

\* Unless something fails, what Stripe was told is marked, or is about to be by the
\* sweep that told it: the ids are read after the sum, so they name every row in it
\* that no other sweep has marked in between.
BilledIsMarked ==
  faults = 0 => \A w \in Workspaces : \A d \in Days : \A r \in event[w][d] :
    \/ r \in marked
    \/ \E s \in Sweeps : hand[s] = w /\ r \in ids[s][w]

BilledOn(r) == {d \in Days : r \in event[OwnerOf[r]][d]}

\* No call is billed more often than once and once more for everything that went
\* wrong: sweeps of one date overlap under one identifier, and the next date finds
\* the rows marked.
BilledOnce == \A r \in Records : Cardinality(BilledOn(r)) <= faults + 1

-----------------------------------------------------------------------------
(* What makes both inductive (UsageMeterProofs).                            *)

\* A sum is of rows that were stored, and of one workspace.
SumsAreStored ==
  \A s \in Sweeps : \A w \in Workspaces :
    \A r \in sum[s][w] : r \in stored /\ OwnerOf[r] = w

\* A sweep at rest has nothing to report, only one that lists has anything to list,
\* and only one that is about to mark has an event in hand.
HandIsInBatch ==
  \A s \in Sweeps :
    /\ pc[s] = "idle" => batch[s] = {}
    /\ pc[s] # "list" => groups[s] = {}
    /\ pc[s] = "mark" => hand[s] \in batch[s]
    /\ pc[s] # "mark" => hand[s] = "none"

\* Of every workspace it is to report, a sweep has the ids of all rows in the sum
\* that are not marked: rows are never unmarked, and were listed after the sum.
ListCoversSum ==
  \A s \in Sweeps : \A w \in batch[s] :
    \A r \in sum[s][w] : r \in marked \/ r \in ids[s][w]

\* No date is billed, and no sweep begun, before it comes.
DatesHaveCome ==
  /\ \A s \in Sweeps : today[s] <= day
  /\ \A r \in Records : \A d \in BilledOn(r) : d <= day

BilledBefore(r, d) == {e \in BilledOn(r) : e < d}

\* The dates a row was billed on before the date of a sweep that is to bill it, and
\* the midnights since that date, were each paid for by a fault.
DueWerePaidFor ==
  \A s \in Sweeps : \A w \in groups[s] \cup batch[s] : \A r \in sum[s][w] :
    Cardinality(BilledBefore(r, today[s])) + (day - today[s]) <= faults

\* So were the dates before this one on which an unmarked row was billed ...
UnmarkedWerePaidFor ==
  \A r \in Records \ marked : Cardinality(BilledBefore(r, day)) <= faults

\* ... and this one too, when no sweep is about to mark it.
LeftWerePaidFor ==
  \A r \in Records \ marked :
    \/ \E s \in Sweeps : hand[s] = OwnerOf[r] /\ r \in ids[s][OwnerOf[r]]
    \/ Cardinality(BilledOn(r)) <= faults

IInv == /\ TypeOK /\ SumsAreStored /\ HandIsInBatch /\ ListCoversSum
        /\ DatesHaveCome /\ DueWerePaidFor /\ UnmarkedWerePaidFor /\ LeftWerePaidFor
        /\ BilledIsMarked /\ BilledOnce

-----------------------------------------------------------------------------
(* What the comments promise and the code does not keep.                    *)

\* The ids marked are "row ids that contributed to the sum" (stripe-meter.ts:54):
\* what is marked was billed.
MarkedIsBilled == \A r \in marked : BilledOn(r) # {}

\* What it takes: no row is written between a sweep's sum and its list, and no event
\* with rows of its own is taken for an earlier one.
NoneInBetween ==
  [][\A s \in Sweeps, w \in Workspaces :
       ListRows(s, w) => Unreported(w) \subseteq sum[s][w]]_vars
NoneRefused ==
  [][\A s \in Sweeps, w \in Workspaces :
       Report(s, w) => LET e == event[w][today[s]] IN e = {} \/ sum[s][w] \subseteq e]_vars
=============================================================================
