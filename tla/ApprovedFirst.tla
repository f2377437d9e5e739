---------------------------- MODULE ApprovedFirst -----------------------------
(***************************************************************************)
(* The standing promise of the product, "agents draft, a human approves"    *)
(* (lib/approvals/decisions.ts), without any of its machinery: deeds are    *)
(* approved one at a time and for good, and what is performed was approved  *)
(* in an earlier step.  The three places where something leaves the        *)
(* product on an approval implement it, each with its own deeds: the        *)
(* executors (ApprovalQueue), a connector's writes (ConnectorGate) and the  *)
(* replies a client is shown (PortalChat).                                 *)
(***************************************************************************)
CONSTANT Deeds

VARIABLES approved, \* what a human has approved
          done      \* what has left the product

vars == <<approved, done>>

Init == approved = {} /\ done = {}

Approve(d) == /\ approved' = approved \cup {d}
              /\ UNCHANGED done

\* A page of the chat shows several replies at once.
Perform(D) == /\ D \subseteq approved
              /\ done' = done \cup D
              /\ UNCHANGED approved

Next == \/ \E d \in Deeds : Approve(d)
        \/ \E D \in SUBSET Deeds : Perform(D)

Spec == Init /\ [][Next]_vars
=============================================================================
