--------------------------- MODULE MCSupportReply ---------------------------
(* SupportReply on a small instance: one request, two drafts, three calls.  *)
EXTENDS SupportReply, TLC

Symmetry == Permutations(Tasks) \cup Permutations(Items)
=============================================================================
