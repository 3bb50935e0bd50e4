------------------------------ MODULE MCStripe ------------------------------
(* The values of Stripe's constants that a configuration file cannot write. *)
EXTENDS Stripe

\* A POST session needs two streams that fail at once to have all of them wait for room;
\* a gRPC session ends with the first of two that fails while the other is down.
Breaks == [kind \in BOOLEAN |-> IF kind THEN 1 ELSE 2]
=============================================================================
