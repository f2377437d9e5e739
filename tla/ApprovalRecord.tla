--------------------------- MODULE ApprovalRecord ---------------------------
(***************************************************************************)
(* What the approval queue promises, without any of its machinery: an item *)
(* leaves PENDING once, towards one verdict, and the very step that moves  *)
(* it leaves one piece of evidence naming the decision and who took it     *)
(* (the header of applyApprovalDecisionTx, lib/approvals/decisions.ts).    *)
(* ApprovalQueue.tla implements it with read-then-conditional-write        *)
(* transactions racing each other.                                         *)
(***************************************************************************)
CONSTANTS Items, Tasks

VARIABLES verdict,    \* verdict[i]: where item i stands
          evidence    \* the decision rows of the audit log

vars == <<verdict, evidence>>

Init == /\ verdict = [i \in Items |-> "PENDING"]
        /\ evidence = {}

Decide(i, d, t) ==
  /\ verdict[i] = "PENDING"
  /\ verdict' = [verdict EXCEPT ![i] = d]
  /\ evidence' = evidence \cup {[item |-> i, action |-> d, by |-> t]}

Next == \E i \in Items, d \in {"APPROVED", "REJECTED"}, t \in Tasks :
          Decide(i, d, t)

Spec == Init /\ [][Next]_vars
=============================================================================
