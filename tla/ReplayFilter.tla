---------------------------- MODULE ReplayFilter ----------------------------
(***************************************************************************)
(* What a replay guard promises the carrier that owns it, with no ring and *)
(* no bit in sight: of the numbers offered to it in one session it accepts *)
(* each at most once, and it refuses one only because it has accepted it   *)
(* before or because it is a whole window behind the highest accepted one. *)
(* ReplayGuard is shown to implement this specification.                   *)
(***************************************************************************)
EXTENDS Integers

CONSTANTS Window,   \* how far behind the highest accepted number is still judged
          Seqs      \* the sequence numbers a session may use

VARIABLES top,        \* the highest number accepted in this session
          accepted,   \* every number accepted in this session
          verdict     \* the last answer: the number offered and whether it was accepted

filterVars == <<top, accepted, verdict>>

NoVerdict == [seq |-> 0, ok |-> FALSE]

Init == /\ top = 0
        /\ accepted = {}
        /\ verdict = NoVerdict

\* A number is fresh when it was never accepted and is not a window behind.
Fresh(seq) == accepted = {} \/ (seq \notin accepted /\ seq + Window > top)

Accept(seq) ==
  /\ Fresh(seq)
  /\ accepted' = accepted \union {seq}
  /\ top' = IF accepted = {} \/ seq > top THEN seq ELSE top
  /\ verdict' = [seq |-> seq, ok |-> TRUE]

Refuse(seq) ==
  /\ ~Fresh(seq)
  /\ verdict' = [seq |-> seq, ok |-> FALSE]
  /\ UNCHANGED <<top, accepted>>

\* The owner installs a new session: every number is fresh again.
Renew == /\ top' = 0
         /\ accepted' = {}
         /\ verdict' = NoVerdict

Next == Renew \/ \E seq \in Seqs : Accept(seq) \/ Refuse(seq)

Spec == Init /\ [][Next]_filterVars
=============================================================================
