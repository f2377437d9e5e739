---------------------------- MODULE MCPortalChat -----------------------------
(* Two clients, or one with two threads.                                    *)
EXTENDS PortalChat, TLC

Symmetric == Permutations(Visits) \cup Permutations(Clients) \cup Permutations(Bodies)
=============================================================================
