------------------------------ MODULE FifoPipe ------------------------------
(***************************************************************************)
(* What the HTTP carrier promises to the framing above it: a byte pipe.    *)
(* The pieces that were accepted come out in the order in which they went  *)
(* in, each once; nothing else comes out.  A piece is identified by its    *)
(* place in the order of acceptance.                                       *)
(***************************************************************************)
EXTENDS Integers, Sequences

VARIABLES accepted,    \* how many pieces the pipe has taken
          out          \* the pieces it has yielded, in order

Init == accepted = 0 /\ out = <<>>

Accept == accepted' = accepted + 1 /\ UNCHANGED out

\* A piece that fills a gap may free several at once.
Yield == \E k \in Len(out) + 1 .. accepted :
           /\ out' = [j \in 1 .. k |-> j]
           /\ UNCHANGED accepted

Next == Accept \/ Yield

Spec == Init /\ [][Next]_<<accepted, out>>
=============================================================================
