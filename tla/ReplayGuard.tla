---------------------------- MODULE ReplayGuard -----------------------------
(***************************************************************************)
(* The sliding replay window of internal/packet/replay.go.  The guard keeps *)
(* one bit per recent sequence number in a ring of Words words of WordBits  *)
(* bits (512 and 64 in the code).  The bit of seq lives in word             *)
(* seq % Window / WordBits at position seq % WordBits, so a bit is reused   *)
(* by every number that is a multiple of Window away and must be cleared in *)
(* time.                                                                    *)
(*                                                                          *)
(* The owner (UDP.handleCrypto, Raw.handleCrypto, TCP.readLoop) offers only *)
(* frames that opened under the current session's key, so all of them carry *)
(* the one session id their sender drew, and it starts from a zero guard    *)
(* when it installs a new session (udp.go:809, udp.go:39).                  *)
(***************************************************************************)
EXTENDS Integers

CONSTANTS Words,      \* replayWords
          WordBits,   \* bits in a word, 64 in the code
          MaxSeq,     \* bound on the numbers one session uses
          Sessions    \* the session ids senders may draw

ASSUME WordsAssumption == Words \in Nat \ {0}
ASSUME WordBitsAssumption == WordBits \in Nat \ {0}
ASSUME MaxSeqAssumption == MaxSeq \in Nat
ASSUME SessionsAssumption == Sessions \subseteq Nat

\* replayWindow: the code writes replayWords as replayWindow / 64, without a rest.
Window == Words * WordBits

Seqs == 1 .. MaxSeq   \* Sealer counts from ctr.Add(1), so 0 never arrives

VARIABLES haveSession, session, top,   \* the fields of replayGuard ...
          bits,                        \* ... the set of positions on, per word
          sender,     \* the session id of the frames that open now
          times,      \* history: how often each number was accepted in this session
          verdict     \* history: the last number offered and the answer

guardVars == <<haveSession, session, top, bits>>
vars == <<haveSession, session, top, bits, sender, times, verdict>>

NoBits == [w \in 0 .. Words - 1 |-> {}]

Word(seq) == (seq % Window) \div WordBits

Bit(seq) == seq % WordBits

\* mark(seq, true), mark(seq, false) and seen(seq) on a ring b.
MarkOn(b, seq) == [b EXCEPT ![Word(seq)] = @ \union {Bit(seq)}]
Seen(b, seq) == Bit(seq) \in b[Word(seq)]

\* Mutants of MarkOff: the loop forgotten, and the loop ending one number early.
MarkOffNone(b, from, to) == b
MarkOffShort(b, from, to) ==
  [w \in 0 .. Words - 1 |->
     b[w] \ {Bit(s) : s \in {t \in from .. to - 1 : Word(t) = w}}]

\* The loop of ok that takes the bits of from .. to off before top moves past them.
MarkOff(b, from, to) ==
  [w \in 0 .. Words - 1 |->
     b[w] \ {Bit(s) : s \in {t \in from .. to : Word(t) = w}}]

----------------------------------------------------------------------------
Init == /\ haveSession = FALSE
        /\ session = 0
        /\ top = 0
        /\ bits = NoBits
        /\ sender \in Sessions
        /\ times = [s \in Seqs |-> 0]
        /\ verdict = [seq |-> 0, ok |-> FALSE]

Answer(seq, ok) ==
  /\ verdict' = [seq |-> seq, ok |-> ok]
  /\ times' = IF ok THEN [times EXCEPT ![seq] = @ + 1] ELSE times
  /\ UNCHANGED sender

\* open: start a window whose only number is seq.
Open(seq) == /\ haveSession' = TRUE
             /\ session' = sender
             /\ top' = seq
             /\ bits' = MarkOn(NoBits, seq)
             /\ Answer(seq, TRUE)

Known == haveSession /\ session = sender

\* ok, a session the guard does not know.
OkFirst(seq) == ~Known /\ Open(seq)

\* ok, a number so far ahead that nothing in the ring is worth keeping.
OkJump(seq) == Known /\ seq > top /\ seq - top >= Window /\ Open(seq)

\* ok, a number ahead within a window: clear what is skipped, then mark it.
OkAhead(seq) ==
  /\ Known
  /\ seq > top
  /\ seq - top < Window
  /\ bits' = MarkOn(MarkOff(bits, top + 1, seq - 1), seq)
  /\ top' = seq
  /\ UNCHANGED <<haveSession, session>>
  /\ Answer(seq, TRUE)

\* Mutant of OkBehind: a number older than the window is looked up all the same.
OkBehindUnbounded(seq) ==
  /\ Known
  /\ seq <= top
  /\ ~Seen(bits, seq)
  /\ bits' = MarkOn(bits, seq)
  /\ UNCHANGED <<haveSession, session, top>>
  /\ Answer(seq, TRUE)

\* ok, a number at or behind top that was not seen.
OkBehind(seq) ==
  /\ Known
  /\ seq <= top
  /\ top - seq < Window
  /\ ~Seen(bits, seq)
  /\ bits' = MarkOn(bits, seq)
  /\ UNCHANGED <<haveSession, session, top>>
  /\ Answer(seq, TRUE)

\* ok, both early returns of false: too old, or seen.
Reject(seq) ==
  /\ Known
  /\ seq <= top
  /\ top - seq >= Window \/ Seen(bits, seq)
  /\ UNCHANGED guardVars
  /\ Answer(seq, FALSE)

\* The owner stores a fresh guard with a new session; its frames carry a new id.
Rekey ==
  /\ haveSession' = FALSE
  /\ top' = 0
  /\ bits' = NoBits
  /\ session' = 0
  /\ sender' \in Sessions
  /\ times' = [s \in Seqs |-> 0]
  /\ verdict' = [seq |-> 0, ok |-> FALSE]

Next == \/ Rekey
        \/ \E seq \in Seqs : \/ OkFirst(seq)
                             \/ OkJump(seq)
                             \/ OkAhead(seq)
                             \/ OkBehind(seq)
                             \/ Reject(seq)

Spec == Init /\ [][Next]_vars

----------------------------------------------------------------------------
\* The fields keep their types: a word never holds a position it does not have.
TypeOK ==
  /\ haveSession \in BOOLEAN
  /\ session \in Sessions \union {0}
  /\ top \in Nat
  /\ bits \in [0 .. Words - 1 -> SUBSET (0 .. WordBits - 1)]
  /\ sender \in Sessions
  /\ times \in [Seqs -> Nat]
  /\ verdict \in [seq : Nat, ok : BOOLEAN]

\* No number of a session is accepted twice by ok, whatever order, duplication
\* or jump the frames arrive with, and however often their bit is reused.
NoReplay == \A s \in Seqs : times[s] <= 1

Accepted == {s \in Seqs : times[s] > 0}

\* The ring tells the truth about the window: of the numbers a window up to top,
\* exactly the accepted ones have their bit on, and nothing beyond top was
\* accepted.  This is what makes NoReplay inductive.
RingIsTruthful ==
  /\ haveSession <=> Accepted # {}
  /\ haveSession => /\ session = sender
                    /\ top \in Accepted
                    /\ \A s \in Seqs : s > top => times[s] = 0
                    /\ \A s \in Seqs : (s <= top /\ top - s < Window)
                                       => (Seen(bits, s) <=> times[s] > 0)
  /\ ~haveSession => top = 0 /\ bits = NoBits

\* The guard accepts and refuses exactly what the windowless filter does.
Filter == INSTANCE ReplayFilter WITH accepted <- Accepted
ImplementsFilter == Filter!Spec
=============================================================================
