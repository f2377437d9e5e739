----------------------------- MODULE MCClosure -------------------------------
(* Payments that exceed the cap together, and one by itself.                 *)
EXTENDS Closure

MCAmount == [c \in 1 .. MaxCharges |-> IF c = 1 THEN 1 ELSE 2]
=============================================================================
