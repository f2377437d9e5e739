-------------------------- MODULE MCConnectorGate ---------------------------
(* Two workspaces, two actions.                                             *)
EXTENDS ConnectorGate, TLC

CONSTANTS wa, wb, a1, a2

Symmetric == Permutations(Calls) \cup Permutations(Actions) \cup Permutations(Workspaces)
=============================================================================
