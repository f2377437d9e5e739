---------------------------- MODULE MCUsageMeter -----------------------------
(* Two workspaces; wb makes one call.                                       *)
EXTENDS UsageMeter, TLC

CONSTANTS wa, wb, b1

MCOwnerOf == [r \in Records |-> IF r = b1 THEN wb ELSE wa]
SameSweeps == Permutations(Sweeps)
=============================================================================
