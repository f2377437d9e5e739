------------------------------ MODULE Closure --------------------------------
(***************************************************************************)
(* How a workspace ends.  Its owner closes it and may think better of it    *)
(* until an hourly sweep erases it (lib/customer-data/closure.ts,           *)
(* teardown-scheduler.ts); the guarantee lets the owner walk away at once   *)
(* (lib/guarantee/walk-away.ts); a daily sweep refunds and closes one that  *)
(* pays for a vertical nobody serves (unsupported-vertical-refund.ts).      *)
(* Each reads, refunds, pages, erases and writes the status in transactions *)
(* of their own, and none locks the row.  One workspace: no two share one.  *)
(***************************************************************************)
EXTENDS Naturals

CONSTANTS Runs,       \* runs of the refund sweep, and taps of the walk-away
          Walks,      \* the taps
          Purgers,    \* runs of the hourly sweep, by the hour or by its event
          MaxCharges, \* bound of the payments
          Amount,     \* Amount[c]: what payment c was
          Cap,        \* the most a run refunds on its own
          MaxFaults   \* bound of what goes wrong

ASSUME WalksAreRuns == Walks \subseteq Runs
ASSUME ClosureBoundsAreNat == MaxCharges \in Nat /\ MaxFaults \in Nat /\ Cap \in Nat
ASSUME AmountsAreNat == Amount \in [1 .. MaxCharges -> Nat \ {0}]

Charges == 1 .. MaxCharges

VARIABLES closure,  \* closureStatus
          purge,    \* scheduledHardPurgeAt: none, ahead, or past
          data,     \* the tenant's rows are there
          charged,  \* payments made, the newest last
          refund,   \* refund[c]: who had payment c refunded, "none", "leak" or "walk"
          guard,    \* flows whose OpsFlag guard is set
          pc,       \* pc[r]: how far run r is
          todo,     \* todo[r]: payments it has still to look at
          total,    \* total[r]: what it has refunded
          seen,     \* history: seen[r], the payments it was to refund
          outcome,  \* outcome[r]: what came of them
          told,     \* history: runs that have reached a human
          owner,    \* what the owner's request has read and is about to write
          purger,   \* purger[p]: how far run p of the hourly sweep is
          faults    \* failed calls and dead runs

closureVars == <<closure, purge, data, charged, refund, guard, pc, todo, total, seen,
                 outcome, told, owner, purger, faults>>

workspace == <<closure, purge, data>>
money     == <<charged, refund>>
progress  == <<todo, total, seen, outcome>>

Flow(r) == IF r \in Walks THEN "walk" ELSE "leak"

PCs == {"idle", "listed", "refund", "page", "audit", "erase", "close", "mark", "done", "dead"}

ClosureTypeOK ==
  /\ closure \in {"ACTIVE", "CLOSING", "CLOSED"}
  /\ purge \in {"none", "ahead", "past"}
  /\ data \in BOOLEAN
  /\ charged \in 0 .. MaxCharges
  /\ refund \in [Charges -> {"none", "leak", "walk"}]
  /\ guard \in SUBSET {"leak", "walk"}
  /\ pc \in [Runs -> PCs]
  /\ todo \in [Runs -> SUBSET Charges]
  /\ total \in [Runs -> 0 .. Cap]
  /\ seen \in [Runs -> SUBSET Charges]
  /\ outcome \in [Runs -> {"none", "manual", "failed", "over", "paid", "nothing"}]
  /\ told \in SUBSET Runs
  /\ owner \in {"idle", "close", "cancel"}
  /\ purger \in [Purgers -> {"idle", "due", "erase", "close"}]
  /\ faults \in 0 .. MaxFaults

ClosureInit ==
  /\ closure = "ACTIVE" /\ purge = "none" /\ data = TRUE
  /\ charged = 0
  /\ refund = [c \in Charges |-> "none"]
  /\ guard = {}
  /\ pc = [r \in Runs |-> "idle"]
  /\ todo = [r \in Runs |-> {}]
  /\ total = [r \in Runs |-> 0]
  /\ seen = [r \in Runs |-> {}]
  /\ outcome = [r \in Runs |-> "none"]
  /\ told = {}
  /\ owner = "idle"
  /\ purger = [p \in Purgers |-> "idle"]
  /\ faults = 0

Faults(n) == faults + n <= MaxFaults /\ faults' = faults + n

-----------------------------------------------------------------------------
(* Stripe and time.                                                         *)

\* Nothing that closes a workspace cancels its subscription.
Charge ==
  /\ charged < MaxCharges
  /\ charged' = charged + 1
  /\ UNCHANGED <<workspace, refund, guard, pc, progress, told, owner, purger, faults>>

GraceElapses ==
  /\ purge = "ahead"
  /\ purge' = "past"
  /\ UNCHANGED <<closure, data, money, guard, pc, progress, told, owner, purger, faults>>

-----------------------------------------------------------------------------
(* The owner: initiateWorkspaceClosure and cancelWorkspaceClosure.          *)

\* The findUnique, and what it lets through.
Ask(what) ==
  /\ owner = "idle"
  /\ closure = (IF what = "close" THEN "ACTIVE" ELSE "CLOSING")
  /\ owner' = what
  /\ UNCHANGED <<workspace, money, guard, pc, progress, told, purger, faults>>

\* The update names the workspace and nothing else.
InitiateClosure ==
  /\ owner = "close"
  /\ closure' = "CLOSING" /\ purge' = "ahead"
  /\ owner' = "idle"
  /\ UNCHANGED <<data, money, guard, pc, progress, told, purger, faults>>

CancelClosure ==
  /\ owner = "cancel"
  /\ closure' = "ACTIVE" /\ purge' = "none"
  /\ owner' = "idle"
  /\ UNCHANGED <<data, money, guard, pc, progress, told, purger, faults>>

-----------------------------------------------------------------------------
(* The hourly sweep.                                                        *)

\* Fault: a workspace whose rows are gone is taken for one that is done.
FindUnerased(p) ==
  /\ purger[p] = "idle" /\ closure = "CLOSING" /\ purge = "past" /\ data
  /\ purger' = [purger EXCEPT ![p] = "due"]
  /\ UNCHANGED <<workspace, money, guard, pc, progress, told, owner, faults>>

\* findWorkspacesDueForHardPurge
FindDue(p) ==
  /\ purger[p] = "idle" /\ closure = "CLOSING" /\ purge = "past"
  /\ purger' = [purger EXCEPT ![p] = "due"]
  /\ UNCHANGED <<workspace, money, guard, pc, progress, told, owner, faults>>

\* hardPurgeWorkspace reads the status again, but not the date.
PreCheck(p) ==
  /\ purger[p] = "due"
  /\ purger' = [purger EXCEPT ![p] = IF closure = "CLOSING" THEN "erase" ELSE "idle"]
  /\ UNCHANGED <<workspace, money, guard, pc, progress, told, owner, faults>>

PurgeData(p) ==
  /\ purger[p] = "erase"
  /\ data' = FALSE
  /\ purger' = [purger EXCEPT ![p] = "close"]
  /\ UNCHANGED <<closure, purge, money, guard, pc, progress, told, owner, faults>>

PurgeCloses(p) ==
  /\ purger[p] = "close"
  /\ closure' = "CLOSED" /\ purge' = "none"
  /\ purger' = [purger EXCEPT ![p] = "idle"]
  /\ UNCHANGED <<data, money, guard, pc, progress, told, owner, faults>>

PurgeDies(p) ==
  /\ purger[p] # "idle"
  /\ purger' = [purger EXCEPT ![p] = "idle"]
  /\ Faults(1)
  /\ UNCHANGED <<workspace, money, guard, pc, progress, told, owner>>

Purge(p) == FindDue(p) \/ PreCheck(p) \/ PurgeData(p) \/ PurgeCloses(p)

-----------------------------------------------------------------------------
(* executeWalkAway, and runUnsupportedVerticalRefundSweep for the workspace. *)

GoTo(r, l) == pc' = [pc EXCEPT ![r] = l]

\* Payments Stripe lists as paid and not refunded.
Refundable == {c \in 1 .. charged : refund[c] = "none"}

\* The sweep lists the active workspaces, and comes to each when it is done with those
\* before it.
ListCandidate(r) ==
  /\ pc[r] = "idle" /\ r \notin Walks /\ closure = "ACTIVE"
  /\ GoTo(r, "listed")
  /\ UNCHANGED <<workspace, money, guard, progress, told, owner, purger, faults>>

\* The tap comes from a page that was shown while the workspace was active.
Starts(r) == pc[r] = IF r \in Walks THEN "idle" ELSE "listed"

\* The guard is read first, and a read that fails counts as handled.
Skip(r) ==
  /\ Starts(r)
  /\ \/ Flow(r) \in guard /\ UNCHANGED faults
     \/ Faults(1)
  /\ GoTo(r, "done")
  /\ UNCHANGED <<workspace, money, guard, progress, told, owner, purger>>

\* With the switch off a human is asked to refund; otherwise the payments are listed,
\* or the listing fails.
Begin(r) ==
  /\ Starts(r) /\ Flow(r) \notin guard
  /\ seen' = [seen EXCEPT ![r] = Refundable]
  /\ \E o \in {"manual", "failed", "paid"} :
       /\ outcome' = [outcome EXCEPT ![r] =
                        IF o = "paid" /\ Refundable = {} THEN "nothing" ELSE o]
       /\ todo' = [todo EXCEPT ![r] = IF o = "paid" THEN Refundable ELSE {}]
       /\ GoTo(r, IF o = "paid" THEN "refund" ELSE "page")
       /\ IF o = "failed" THEN Faults(1) ELSE UNCHANGED faults
  /\ UNCHANGED <<workspace, money, guard, total, told, owner, purger>>

\* Where a run goes once the money is settled.
AfterRefund(r) == IF r \in Walks THEN "erase" ELSE "audit"

Ends(r, o) == outcome' = [outcome EXCEPT ![r] = o]

\* The run is about to refund payment c, the newest left.
AtCharge(r, c) ==
  pc[r] = "refund" /\ c \in todo[r] /\ \A d \in todo[r] : d <= c

\* Fault: what exceeds the cap ends the list like anything else.
StopSilently(r, c) ==
  /\ AtCharge(r, c) /\ total[r] + Amount[c] > Cap
  /\ Ends(r, "over") /\ GoTo(r, AfterRefund(r))
  /\ UNCHANGED <<workspace, money, guard, todo, total, seen, told, owner, purger, faults>>

\* A payment is refunded whole or not at all.
Stop(r, c) ==
  /\ AtCharge(r, c) /\ total[r] + Amount[c] > Cap
  /\ Ends(r, "over") /\ GoTo(r, "page")
  /\ UNCHANGED <<workspace, money, guard, todo, total, seen, told, owner, purger, faults>>

\* Fault: the cap is a payment's, not the run's.
RefundEach(r, c) ==
  /\ AtCharge(r, c) /\ Amount[c] <= Cap
  /\ refund[c] \in {"none", Flow(r)}
  /\ refund' = [refund EXCEPT ![c] = Flow(r)]
  /\ total' = [total EXCEPT ![r] = @ + Amount[c]]
  /\ todo' = [todo EXCEPT ![r] = @ \ {c}]
  /\ UNCHANGED <<workspace, charged, guard, pc, seen, outcome, told, owner, purger, faults>>

\* Stripe, as the idempotency key has it: a second refund of the flow is answered
\* like the first.
Refund(r, c) ==
  /\ AtCharge(r, c) /\ total[r] + Amount[c] <= Cap
  /\ refund[c] \in {"none", Flow(r)}
  /\ refund' = [refund EXCEPT ![c] = Flow(r)]
  /\ total' = [total EXCEPT ![r] = @ + Amount[c]]
  /\ todo' = [todo EXCEPT ![r] = @ \ {c}]
  /\ UNCHANGED <<workspace, charged, guard, pc, seen, outcome, told, owner, purger, faults>>

\* It throws: the other flow has refunded it, the call failed, or its answer was lost.
RefundFails(r, c) ==
  /\ AtCharge(r, c) /\ total[r] + Amount[c] <= Cap
  /\ \/ refund[c] \notin {"none", Flow(r)} /\ UNCHANGED <<refund, faults>>
     \/ Faults(1) /\ UNCHANGED refund
     \/ Faults(1) /\ refund[c] = "none" /\ refund' = [refund EXCEPT ![c] = Flow(r)]
  /\ Ends(r, "failed") /\ GoTo(r, "page")
  /\ UNCHANGED <<workspace, charged, guard, todo, total, seen, told, owner, purger>>

Refunded(r) ==
  /\ pc[r] = "refund" /\ todo[r] = {}
  /\ GoTo(r, AfterRefund(r))
  /\ UNCHANGED <<workspace, money, guard, progress, told, owner, purger, faults>>

\* notifyHuman: a flag, whose failure nobody looks at, and a mail.
Page(r) ==
  /\ pc[r] = "page"
  /\ \/ told' = told \cup {r} /\ UNCHANGED faults
     \/ Faults(2) /\ UNCHANGED told
  /\ GoTo(r, AfterRefund(r))
  /\ UNCHANGED <<workspace, money, guard, progress, owner, purger>>

\* writeRefundAudit, and the mail.  Where a human is to refund, nothing is closed.
Audit(r) ==
  /\ pc[r] = "audit"
  /\ GoTo(r, IF outcome[r] \in {"manual", "failed"} THEN "mark" ELSE "erase")
  /\ UNCHANGED <<workspace, money, guard, progress, told, owner, purger, faults>>

\* tearDownWorkspaceData
Erase(r) ==
  /\ pc[r] = "erase"
  /\ data' = FALSE
  /\ GoTo(r, "close")
  /\ UNCHANGED <<closure, purge, money, guard, progress, told, owner, purger, faults>>

\* closeLeakingWorkspace, deleteCustomerData: whatever the status, and the date of a
\* purge stays.
Close(r) ==
  /\ pc[r] = "close"
  /\ closure' = "CLOSED"
  /\ GoTo(r, "mark")
  /\ UNCHANGED <<purge, data, money, guard, progress, told, owner, purger, faults>>

\* What a run knew goes with it.
Forget(r) ==
  /\ todo' = [todo EXCEPT ![r] = {}] /\ total' = [total EXCEPT ![r] = 0]
  /\ Ends(r, "none")

\* The result of the flag store is not looked at.
Mark(r) ==
  /\ pc[r] = "mark"
  /\ \/ guard' = guard \cup {Flow(r)} /\ UNCHANGED faults
     \/ Faults(1) /\ UNCHANGED guard
  /\ GoTo(r, "done") /\ Forget(r)
  /\ UNCHANGED <<workspace, money, seen, told, owner, purger>>

\* The instance dies, or a transaction throws.
RunDies(r) ==
  /\ pc[r] \notin {"idle", "done", "dead"}
  /\ GoTo(r, "dead") /\ Forget(r)
  /\ seen' = [seen EXCEPT ![r] = {}]
  /\ Faults(1)
  /\ UNCHANGED <<workspace, money, guard, told, owner, purger>>

Run(r) == \/ ListCandidate(r) \/ Skip(r) \/ Begin(r)
          \/ \E c \in Charges : Stop(r, c) \/ Refund(r, c) \/ RefundFails(r, c)
          \/ Refunded(r) \/ Page(r) \/ Audit(r) \/ Erase(r) \/ Close(r) \/ Mark(r)
          \/ RunDies(r)

ClosureNext ==
  \/ Charge \/ GraceElapses
  \/ \E what \in {"close", "cancel"} : Ask(what)
  \/ InitiateClosure \/ CancelClosure
  \/ \E p \in Purgers : Purge(p) \/ PurgeDies(p)
  \/ \E r \in Runs : Run(r)

ClosureSpec == ClosureInit /\ [][ClosureNext]_closureVars

\* The sweep fires every hour.
ClosureFairSpec == ClosureSpec /\ WF_closureVars(\E p \in Purgers : Purge(p))

-----------------------------------------------------------------------------
(* What holds however the three ways to close overlap.                      *)

\* Nobody's money is kept quietly: when a run goes on to erase the workspace, or to
\* mark it as handled, every payment it was to refund is refunded, or a human was
\* told, even if one call failed (runUnsupportedVerticalRefundSweep's "page a human"
\* branches, executeWalkAway's refundPaged).
OwedIsTold ==
  faults < 2 => \A r \in Runs :
    pc[r] \in {"audit", "erase", "close", "mark", "done"} =>
      r \in told \/ \A c \in seen[r] : refund[c] # "none"

\* A closing whose grace is over comes to its end, whatever dies on the way, unless
\* the owner cancels it.
ClosureEnds ==
  closure = "CLOSING" /\ purge = "past" ~> closure # "CLOSING" \/ purge # "past"

-----------------------------------------------------------------------------
(* What makes OwedIsTold inductive (AccountProofs).                         *)

\* Until it starts a run owes nobody anything, and while it refunds, what is not yet
\* refunded is on its list.
ListIsWhole ==
  \A r \in Runs :
    /\ pc[r] \in {"idle", "listed"} => seen[r] = {}
    /\ pc[r] = "refund" => \A c \in seen[r] : c \in todo[r] \/ refund[c] # "none"

ClosureInv == ClosureTypeOK /\ ListIsWhole /\ OwedIsTold

-----------------------------------------------------------------------------
(* What a comment promises and the code does not keep.                      *)

\* "A cancellation racing with this call is fine - the read here sees the flip and
\* we bail out without touching any rows" (teardown-scheduler.ts:137): an active
\* workspace that no refund run has erased has its rows.
CancelKeepsData == closure = "ACTIVE" /\ (\A r \in Runs : pc[r] = "idle") => data

\* What it takes: a cancellation finds the rows there, and no purge past its read.
CancelInTime == [][CancelClosure => data /\ \A p \in Purgers : purger[p] # "erase"]_closureVars
=============================================================================
