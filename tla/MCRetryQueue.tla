---------------------------- MODULE MCRetryQueue ----------------------------
(* RetryQueue on a small instance.  The wait doubles with each attempt.     *)
EXTENDS RetryQueue

MCBackoff == [n \in 1 .. MAX_ATTEMPTS |-> 2 ^ (n - 1)]
=============================================================================
