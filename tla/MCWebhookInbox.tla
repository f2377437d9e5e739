--------------------------- MODULE MCWebhookInbox ---------------------------
(* Two mailboxes; a1 carries a dedupe key, b1 does not.                     *)
EXTENDS WebhookInbox, TLC

CONSTANTS wa, wb, a1, b1

MCOwnerOf == [n \in Notifications |-> IF n = b1 THEN wb ELSE wa]
SameDrains == Permutations(Drains)
=============================================================================
