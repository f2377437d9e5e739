-------------------------- MODULE MCApprovalQueue ---------------------------
(* ApprovalQueue on a small instance: a reply, an instruction and a         *)
(* connector write, three calls, two texts.                                 *)
EXTENDS ApprovalQueue, TLC

Symmetry == Permutations(Tasks) \cup Permutations(Texts)
=============================================================================
