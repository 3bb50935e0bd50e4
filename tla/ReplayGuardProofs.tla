------------------------- MODULE ReplayGuardProofs --------------------------
(***************************************************************************)
(* The replay guard for every ring size and every number of frames: no     *)
(* number is accepted twice, and the ring of reused bits answers exactly as *)
(* the filter that remembers everything.                                   *)
(***************************************************************************)
EXTENDS ReplayGuard, TLAPS

----------------------------------------------------------------------------
(* Arithmetic: quotients and remainders.                                   *)

\* The code's window is never empty.
LEMMA WindowPositive == Window \in Nat /\ Window > 0
  BY WordsAssumption, WordBitsAssumption, SMT DEF Window

\* Multiplying by a natural keeps the order.
LEMMA TimesMonotonic ==
  ASSUME NEW m \in Nat, NEW p \in Int, NEW q \in Int, p <= q
  PROVE  m * p <= m * q
<1>1. m * (q - p) >= 0
  BY SMT
<1>2. m * (q - p) = m * q - m * p
  BY SMT
<1> QED BY <1>1, <1>2, SMT

\* Division with rest.
LEMMA DivMod ==
  ASSUME NEW a \in Nat, NEW m \in Nat, m > 0
  PROVE  /\ a \div m \in Nat
         /\ a % m \in 0 .. m - 1
         /\ a = m * (a \div m) + (a % m)
  BY SMT

\* Quotient and rest are unique.
LEMMA DivModUnique ==
  ASSUME NEW m \in Nat, m > 0,
         NEW p \in Int, NEW q \in Int,
         NEW r \in 0 .. m - 1, NEW s \in 0 .. m - 1,
         m * p + r = m * q + s
  PROVE  p = q /\ r = s
<1>1. ~(p < q)
  <2> SUFFICES ASSUME p < q PROVE FALSE
    OBVIOUS
  <2>1. m * (p + 1) <= m * q
    BY TimesMonotonic
  <2>2. m * (p + 1) = m * p + m
    BY SMT
  <2> QED BY <2>1, <2>2, SMT
<1>2. ~(q < p)
  <2> SUFFICES ASSUME q < p PROVE FALSE
    OBVIOUS
  <2>1. m * (q + 1) <= m * p
    BY TimesMonotonic
  <2>2. m * (q + 1) = m * q + m
    BY SMT
  <2> QED BY <2>1, <2>2, SMT
<1>3. p = q
  BY <1>1, <1>2, SMT
<1> QED BY <1>3, SMT

\* The place of a number in the ring: its word is its rest in the window divided
\* by the word size, and its bit is what that division leaves, because a window
\* is a whole number of words.
LEMMA SlotOfRest ==
  ASSUME NEW a \in Nat
  PROVE  /\ Word(a) \in 0 .. Words - 1
         /\ Bit(a) \in 0 .. WordBits - 1
         /\ a % Window = WordBits * Word(a) + Bit(a)
<1> DEFINE r == a % Window
           q == a \div Window
           k == r \div WordBits
           m == r % WordBits
<1>1. q \in Nat /\ r \in 0 .. Window - 1 /\ a = Window * q + r
  BY WindowPositive, DivMod
<1>2. k \in Nat /\ m \in 0 .. WordBits - 1 /\ r = WordBits * k + m
  BY <1>1, WindowPositive, WordBitsAssumption, DivMod
<1>3. a \div WordBits \in Nat /\ a % WordBits \in 0 .. WordBits - 1
      /\ a = WordBits * (a \div WordBits) + (a % WordBits)
  BY WordBitsAssumption, DivMod
<1> HIDE DEF r, q, k, m
<1>4. WordBits * (Words * q + k) + m = a
  <2>1. WordBits * (Words * q + k) = (Words * WordBits) * q + WordBits * k
    BY <1>1, <1>2, WordsAssumption, WordBitsAssumption, SMT
  <2> QED BY <1>1, <1>2, <2>1, WordsAssumption, WordBitsAssumption, SMT DEF Window
<1>5. m = a % WordBits
  <2> DEFINE p == Words * q + k
             d == a \div WordBits
             e == a % WordBits
  <2>1. p \in Int /\ d \in Int /\ e \in 0 .. WordBits - 1
    BY <1>1, <1>2, <1>3, WordsAssumption
  <2>2. WordBits * p + m = WordBits * d + e
    BY <1>3, <1>4
  <2>3. WordBits \in Nat /\ WordBits > 0 /\ m \in 0 .. WordBits - 1
    BY <1>2, WordBitsAssumption
  <2>4. m = e
    <3> HIDE DEF p, d, e
    <3> QED BY <2>1, <2>2, <2>3, DivModUnique
  <2> QED BY <2>4
<1>6. k < Words
  <2> SUFFICES ASSUME Words <= k PROVE FALSE
    BY <1>2, WordsAssumption
  <2>1. WordBits * Words <= WordBits * k
    BY <1>2, WordBitsAssumption, WordsAssumption, TimesMonotonic
  <2> QED BY <1>1, <1>2, <2>1, WordBitsAssumption, WordsAssumption, SMT DEF Window
<1> QED BY <1>2, <1>5, <1>6, WordsAssumption DEF Word, Bit, r, k, m

\* Two numbers less than a window apart never share a bit.
LEMMA SlotDistinct ==
  ASSUME NEW a \in Nat, NEW b \in Nat,
         Word(a) = Word(b), Bit(a) = Bit(b),
         a - b < Window, b - a < Window
  PROVE  a = b
<1> DEFINE ra == a % Window  qa == a \div Window
           rb == b % Window  qb == b \div Window
<1>1. ra = rb
  BY SlotOfRest
<1>2. qa \in Nat /\ ra \in 0 .. Window - 1 /\ a = Window * qa + ra
  BY WindowPositive, DivMod
<1>3. qb \in Nat /\ rb \in 0 .. Window - 1 /\ b = Window * qb + rb
  BY WindowPositive, DivMod
<1> HIDE DEF ra, rb, qa, qb
<1>4. ~(qa < qb)
  <2> SUFFICES ASSUME qa < qb PROVE FALSE
    OBVIOUS
  <2>1. Window * (qa + 1) <= Window * qb
    BY <1>2, <1>3, WindowPositive, TimesMonotonic
  <2>2. Window * (qa + 1) = Window * qa + Window
    BY <1>2, WindowPositive, SMT
  <2> QED BY <1>1, <1>2, <1>3, <2>1, <2>2, WindowPositive, SMT
<1>5. ~(qb < qa)
  <2> SUFFICES ASSUME qb < qa PROVE FALSE
    OBVIOUS
  <2>1. Window * (qb + 1) <= Window * qa
    BY <1>2, <1>3, WindowPositive, TimesMonotonic
  <2>2. Window * (qb + 1) = Window * qb + Window
    BY <1>3, WindowPositive, SMT
  <2> QED BY <1>1, <1>2, <1>3, <2>1, <2>2, WindowPositive, SMT
<1>6. qa = qb
  BY <1>2, <1>3, <1>4, <1>5, SMT
<1> QED BY <1>1, <1>2, <1>3, <1>6

----------------------------------------------------------------------------
(* The operations on the ring.                                             *)

Ring == [0 .. Words - 1 -> SUBSET (0 .. WordBits - 1)]

\* An empty ring has seen nothing.
LEMMA NoBitsSeen == NoBits \in Ring /\ \A t \in Nat : ~Seen(NoBits, t)
  BY SlotOfRest DEF NoBits, Ring, Seen

\* Marking a number turns on its bit and no other.
LEMMA MarkOnSeen ==
  ASSUME NEW b \in Ring, NEW s \in Nat
  PROVE  /\ MarkOn(b, s) \in Ring
         /\ \A t \in Nat : Seen(MarkOn(b, s), t)
              <=> (Seen(b, t) \/ (Word(t) = Word(s) /\ Bit(t) = Bit(s)))
  BY SlotOfRest DEF Ring, MarkOn, Seen

\* Clearing a range turns off the bits of its numbers and no other.
LEMMA MarkOffSeen ==
  ASSUME NEW b \in Ring, NEW from \in Nat, NEW to \in Int
  PROVE  /\ MarkOff(b, from, to) \in Ring
         /\ \A t \in Nat : Seen(MarkOff(b, from, to), t)
              <=> (Seen(b, t) /\ \A s \in from .. to : ~(Word(s) = Word(t) /\ Bit(s) = Bit(t)))
<1>1. MarkOff(b, from, to) \in Ring
  BY DEF Ring, MarkOff
<1>2. ASSUME NEW t \in Nat
      PROVE Seen(MarkOff(b, from, to), t)
              <=> (Seen(b, t) /\ \A s \in from .. to : ~(Word(s) = Word(t) /\ Bit(s) = Bit(t)))
  <2>1. Word(t) \in 0 .. Words - 1
    BY SlotOfRest
  <2>2. MarkOff(b, from, to)[Word(t)]
          = b[Word(t)] \ {Bit(s) : s \in {u \in from .. to : Word(u) = Word(t)}}
    BY <2>1 DEF MarkOff
  <2> QED BY <2>2, Zenon DEF Seen
<1> QED BY <1>1, <1>2

----------------------------------------------------------------------------
(* The inductive invariant.                                                *)

IInv == TypeOK /\ NoReplay /\ RingIsTruthful

\* Initially nothing was accepted and no bit is on.
LEMMA InitIInv == Init => IInv
<1> SUFFICES ASSUME Init PROVE IInv
  OBVIOUS
<1>1. Accepted = {}
  BY DEF Init, Accepted
<1>2. TypeOK
  BY NoBitsSeen DEF Init, TypeOK, Ring
<1> QED BY <1>1, <1>2 DEF Init, IInv, NoReplay, RingIsTruthful

\* Starting a window at seq is right when seq was not accepted and everything
\* that was is a window or more behind it.
LEMMA OpenStep ==
  ASSUME IInv, NEW seq \in Seqs, Open(seq),
         \A s \in Seqs : times[s] > 0 => seq - s >= Window
  PROVE  IInv'
<1>1. seq \in Nat /\ times[seq] = 0
  BY WindowPositive DEF IInv, TypeOK, Seqs
<1>2. times' = [times EXCEPT ![seq] = @ + 1]
  BY DEF Open, Answer
<1>3. TypeOK'
  BY <1>1, <1>2, NoBitsSeen, MarkOnSeen DEF IInv, TypeOK, Open, Answer, Ring
<1>4. NoReplay'
  BY <1>1, <1>2 DEF IInv, TypeOK, NoReplay
<1>5. \A t \in Nat : Seen(bits', t) <=> (Word(t) = Word(seq) /\ Bit(t) = Bit(seq))
  BY <1>1, NoBitsSeen, MarkOnSeen DEF Open
<1>6. \A s \in Seqs : (s <= seq /\ seq - s < Window) => (Seen(bits', s) <=> times'[s] > 0)
  <2> SUFFICES ASSUME NEW s \in Seqs, s <= seq, seq - s < Window
               PROVE  Seen(bits', s) <=> times'[s] > 0
    OBVIOUS
  <2>1. s \in Nat
    BY DEF Seqs
  <2>2. CASE s = seq
    BY <1>1, <1>2, <1>5, <2>2 DEF IInv, TypeOK
  <2>3. CASE s # seq
    <3>1. times'[s] = times[s] /\ ~(times[s] > 0)
      BY <1>2, <2>1, <2>3, <1>1, WindowPositive DEF IInv, TypeOK
    <3>2. ~Seen(bits', s)
      <4>1. s - seq < Window
        BY <1>1, <2>1, WindowPositive
      <4> QED BY <1>1, <1>5, <2>1, <2>3, <4>1, SlotDistinct
    <3> QED BY <3>1, <3>2
  <2> QED BY <2>2, <2>3
<1>7. \A s \in Seqs : s > seq => times'[s] = 0
  BY <1>1, <1>2, WindowPositive DEF IInv, TypeOK, Seqs
<1>8. seq \in Accepted'
  BY <1>1, <1>2 DEF IInv, TypeOK, Accepted
<1>9. RingIsTruthful'
  BY <1>6, <1>7, <1>8 DEF RingIsTruthful, Open, Answer
<1> QED BY <1>3, <1>4, <1>9 DEF IInv

\* What a known session knows: top was accepted and nothing beyond it.
LEMMA KnownFacts ==
  ASSUME IInv, Known
  PROVE  /\ haveSession /\ session = sender /\ top \in Seqs /\ top \in Nat
         /\ bits \in Ring /\ times \in [Seqs -> Nat]
         /\ \A s \in Seqs : s > top => times[s] = 0
         /\ \A s \in Seqs : (s <= top /\ top - s < Window)
                              => (Seen(bits, s) <=> times[s] > 0)
  BY DEF IInv, TypeOK, Known, RingIsTruthful, Accepted, Ring, Seqs

\* Moving ahead within the window keeps the ring truthful.
LEMMA AheadStep ==
  ASSUME IInv, NEW seq \in Seqs, OkAhead(seq)
  PROVE  IInv'
<1>0. Known /\ seq > top /\ seq - top < Window
  BY DEF OkAhead
<1> DEFINE cleared == MarkOff(bits, top + 1, seq - 1)
<1>1. seq \in Nat /\ times[seq] = 0
  BY <1>0, KnownFacts DEF Seqs
<1>2. times' = [times EXCEPT ![seq] = @ + 1]
  BY DEF OkAhead, Answer
<1>3. cleared \in Ring
      /\ \A t \in Nat : Seen(cleared, t)
           <=> (Seen(bits, t) /\ \A s \in top + 1 .. seq - 1 :
                                    ~(Word(s) = Word(t) /\ Bit(s) = Bit(t)))
  <2>1. top + 1 \in Nat /\ seq - 1 \in Int
    BY <1>0, <1>1, KnownFacts
  <2>2. bits \in Ring
    BY <1>0, KnownFacts
  <2> QED BY <2>1, <2>2, MarkOffSeen
<1>4. bits' \in Ring
      /\ \A t \in Nat : Seen(bits', t)
           <=> (Seen(cleared, t) \/ (Word(t) = Word(seq) /\ Bit(t) = Bit(seq)))
  <2>1. bits' = MarkOn(cleared, seq)
    BY DEF OkAhead
  <2> HIDE DEF cleared
  <2> QED BY <1>1, <1>3, <2>1, MarkOnSeen
<1> HIDE DEF cleared
<1>5. TypeOK'
  BY <1>1, <1>2, <1>4 DEF IInv, TypeOK, OkAhead, Answer, Ring
<1>6. NoReplay'
  BY <1>1, <1>2 DEF IInv, TypeOK, NoReplay
<1>7. \A s \in Seqs : (s <= seq /\ seq - s < Window) => (Seen(bits', s) <=> times'[s] > 0)
  <2> SUFFICES ASSUME NEW s \in Seqs, s <= seq, seq - s < Window
               PROVE  Seen(bits', s) <=> times'[s] > 0
    OBVIOUS
  <2>1. s \in Nat /\ s - seq < Window
    BY <1>1, WindowPositive DEF Seqs
  <2>2. CASE s = seq
    BY <1>1, <1>2, <1>4, <2>2 DEF IInv, TypeOK
  <2>3. CASE s # seq
    <3>1. times'[s] = times[s]
      BY <1>2, <2>3 DEF IInv, TypeOK
    <3>2. ~(Word(s) = Word(seq) /\ Bit(s) = Bit(seq))
      BY <1>1, <2>1, <2>3, SlotDistinct
    <3>3. Seen(bits', s) <=> Seen(cleared, s)
      BY <1>4, <2>1, <3>2
    <3>4. CASE s > top
      <4>1. s \in top + 1 .. seq - 1
        BY <1>0, <1>1, <2>1, <2>3, <3>4, KnownFacts
      <4>2. ~Seen(cleared, s)
        BY <1>3, <2>1, <4>1
      <4>3. times[s] = 0
        BY <1>0, <3>4, KnownFacts
      <4> QED BY <3>1, <3>3, <4>2, <4>3
    <3>5. CASE s <= top
      <4>1. \A u \in top + 1 .. seq - 1 : ~(Word(u) = Word(s) /\ Bit(u) = Bit(s))
        <5> SUFFICES ASSUME NEW u \in top + 1 .. seq - 1
                     PROVE  ~(Word(u) = Word(s) /\ Bit(u) = Bit(s))
          OBVIOUS
        <5>1. u \in Nat /\ u # s /\ u - s < Window /\ s - u < Window
          BY <1>0, <1>1, <2>1, <3>5, KnownFacts, WindowPositive
        <5> QED BY <2>1, <5>1, SlotDistinct
      <4>2. Seen(cleared, s) <=> Seen(bits, s)
        BY <1>3, <2>1, <4>1
      <4>3. top - s < Window
        BY <1>0, <1>1, <2>1, KnownFacts, WindowPositive
      <4>4. Seen(bits, s) <=> times[s] > 0
        BY <1>0, <3>5, <4>3, KnownFacts
      <4> QED BY <3>1, <3>3, <4>2, <4>4
    <3> QED BY <1>0, <2>1, <3>4, <3>5, KnownFacts
  <2> QED BY <2>2, <2>3
<1>8. \A s \in Seqs : s > seq => times'[s] = 0
  <2> SUFFICES ASSUME NEW s \in Seqs, s > seq
               PROVE  times'[s] = 0
    OBVIOUS
  <2>1. s > top /\ s # seq
    BY <1>0, <1>1, KnownFacts DEF Seqs
  <2> QED BY <1>0, <1>2, <2>1, KnownFacts
<1>9. seq \in Accepted'
  BY <1>1, <1>2 DEF IInv, TypeOK, Accepted
<1>10. RingIsTruthful'
  BY <1>0, <1>7, <1>8, <1>9, KnownFacts DEF RingIsTruthful, OkAhead, Answer
<1> QED BY <1>5, <1>6, <1>10 DEF IInv

\* Filling a hole behind top keeps the ring truthful.
LEMMA BehindStep ==
  ASSUME IInv, NEW seq \in Seqs, OkBehind(seq)
  PROVE  IInv'
<1>0. Known /\ seq <= top /\ top - seq < Window /\ ~Seen(bits, seq)
  BY DEF OkBehind
<1>1. seq \in Nat /\ times[seq] = 0
  <2>1. ~(times[seq] > 0) /\ times[seq] \in Nat
    BY <1>0, KnownFacts
  <2> QED BY <2>1 DEF Seqs
<1>2. times' = [times EXCEPT ![seq] = @ + 1]
  BY DEF OkBehind, Answer
<1>3. bits' \in Ring
      /\ \A t \in Nat : Seen(bits', t)
           <=> (Seen(bits, t) \/ (Word(t) = Word(seq) /\ Bit(t) = Bit(seq)))
  BY <1>0, <1>1, KnownFacts, MarkOnSeen DEF OkBehind
<1>4. TypeOK'
  BY <1>1, <1>2, <1>3 DEF IInv, TypeOK, OkBehind, Answer, Ring
<1>5. NoReplay'
  BY <1>1, <1>2 DEF IInv, TypeOK, NoReplay
<1>6. \A s \in Seqs : (s <= top /\ top - s < Window) => (Seen(bits', s) <=> times'[s] > 0)
  <2> SUFFICES ASSUME NEW s \in Seqs, s <= top, top - s < Window
               PROVE  Seen(bits', s) <=> times'[s] > 0
    OBVIOUS
  <2>1. s \in Nat
    BY DEF Seqs
  <2>2. CASE s = seq
    BY <1>1, <1>2, <1>3, <2>2 DEF IInv, TypeOK
  <2>3. CASE s # seq
    <3>1. times'[s] = times[s]
      BY <1>2, <2>3 DEF IInv, TypeOK
    <3>2. s - seq < Window /\ seq - s < Window
      BY <1>0, <1>1, <2>1, KnownFacts, WindowPositive
    <3>3. Seen(bits', s) <=> Seen(bits, s)
      BY <1>1, <1>3, <2>1, <2>3, <3>2, SlotDistinct
    <3> QED BY <1>0, <3>1, <3>3, KnownFacts
  <2> QED BY <2>2, <2>3
<1>7. \A s \in Seqs : s > top => times'[s] = 0
  <2> SUFFICES ASSUME NEW s \in Seqs, s > top
               PROVE  times'[s] = 0
    OBVIOUS
  <2>1. s # seq
    BY <1>0, <1>1, KnownFacts DEF Seqs
  <2> QED BY <1>0, <1>2, <2>1, KnownFacts
<1>8. top \in Accepted'
  <2>1. top \in Seqs /\ times[top] > 0
    BY <1>0 DEF IInv, RingIsTruthful, Accepted, Known
  <2>2. times'[top] > 0
    BY <1>0, <1>2, <2>1, KnownFacts
  <2> QED BY <2>1, <2>2 DEF Accepted, OkBehind
<1>9. RingIsTruthful'
  BY <1>0, <1>6, <1>7, <1>8, KnownFacts DEF RingIsTruthful, OkBehind, Answer
<1> QED BY <1>4, <1>5, <1>9 DEF IInv

\* Every step of the guard keeps the invariant.
LEMMA StepIInv == IInv /\ [Next]_vars => IInv'
<1> SUFFICES ASSUME IInv, [Next]_vars PROVE IInv'
  OBVIOUS
<1>1. CASE Rekey
  <2>1. Accepted' = {}
    BY <1>1 DEF Rekey, Accepted
  <2>2. TypeOK'
    BY <1>1, NoBitsSeen DEF Rekey, TypeOK, Ring
  <2> QED BY <1>1, <2>1, <2>2 DEF Rekey, IInv, NoReplay, RingIsTruthful
<1>2. ASSUME NEW seq \in Seqs, OkFirst(seq) PROVE IInv'
  <2>1. \A s \in Seqs : ~(times[s] > 0)
    BY <1>2 DEF OkFirst, Known, IInv, RingIsTruthful, Accepted
  <2> QED BY <1>2, <2>1, OpenStep DEF OkFirst
<1>3. ASSUME NEW seq \in Seqs, OkJump(seq) PROVE IInv'
  <2>1. ASSUME NEW s \in Seqs, times[s] > 0 PROVE seq - s >= Window
    <3>1. s <= top
      BY <1>3, <2>1, KnownFacts DEF OkJump, Seqs
    <3> QED BY <1>3, <3>1, KnownFacts, WindowPositive DEF OkJump, Seqs
  <2> QED BY <1>3, <2>1, OpenStep DEF OkJump
<1>4. ASSUME NEW seq \in Seqs, OkAhead(seq) PROVE IInv'
  BY <1>4, AheadStep
<1>5. ASSUME NEW seq \in Seqs, OkBehind(seq) PROVE IInv'
  BY <1>5, BehindStep
<1>6. ASSUME NEW seq \in Seqs, Reject(seq) PROVE IInv'
  BY <1>6 DEF Reject, Answer, guardVars, IInv, TypeOK, NoReplay, RingIsTruthful, Accepted, Seqs
<1>7. CASE UNCHANGED vars
  BY <1>7 DEF vars, IInv, TypeOK, NoReplay, RingIsTruthful, Accepted
<1> QED BY <1>1, <1>2, <1>3, <1>4, <1>5, <1>6, <1>7 DEF Next

\* In every behaviour the ring is truthful and no number is accepted twice.
THEOREM GuardInvariant == Spec => []IInv
  BY InitIInv, StepIInv, PTL DEF Spec

\* The fields of replayGuard keep their types, for every ring size.
THEOREM GuardTypeOK == Spec => []TypeOK
<1>1. IInv => TypeOK
  BY DEF IInv
<1> QED BY <1>1, GuardInvariant, PTL

\* ok never accepts one number of a session twice, for every ring size and
\* every sequence of arrivals.
THEOREM GuardNoReplay == Spec => []NoReplay
<1>1. IInv => NoReplay
  BY DEF IInv
<1> QED BY <1>1, GuardInvariant, PTL

\* The bits of the window are exactly the accepted numbers.
THEOREM GuardRingIsTruthful == Spec => []RingIsTruthful
<1>1. IInv => RingIsTruthful
  BY DEF IInv
<1> QED BY <1>1, GuardInvariant, PTL
----------------------------------------------------------------------------
(* The guard implements the filter.                                        *)

\* An acceptance adds exactly its number to the accepted ones.
LEMMA AnswerAccepts ==
  ASSUME IInv, NEW seq \in Seqs, Answer(seq, TRUE)
  PROVE  Accepted' = Accepted \union {seq}
<1>1. times \in [Seqs -> Nat] /\ times' = [times EXCEPT ![seq] = @ + 1]
  BY DEF IInv, TypeOK, Answer
<1>2. ASSUME NEW s \in Seqs PROVE times'[s] > 0 <=> (times[s] > 0 \/ s = seq)
  BY <1>1
<1> QED BY <1>2 DEF Accepted

\* Each step of the guard is a step of the filter with the same verdict.
LEMMA StepRefines == IInv /\ [Next]_vars => [Filter!Next]_(Filter!filterVars)
<1> SUFFICES ASSUME IInv, [Next]_vars PROVE [Filter!Next]_(Filter!filterVars)
  OBVIOUS
<1> USE DEF Filter!Next, Filter!filterVars
<1>1. CASE Rekey
  <2>1. Accepted' = {}
    BY <1>1 DEF Rekey, Accepted
  <2> QED BY <1>1, <2>1 DEF Rekey, Filter!Renew, Filter!NoVerdict
<1>2. ASSUME NEW seq \in Seqs, OkFirst(seq) PROVE Filter!Accept(seq)
  <2>1. Accepted = {}
    BY <1>2 DEF OkFirst, Known, IInv, RingIsTruthful
  <2>2. Accepted' = Accepted \union {seq}
    BY <1>2, AnswerAccepts DEF OkFirst, Open
  <2> QED BY <1>2, <2>1, <2>2 DEF OkFirst, Open, Answer, Filter!Accept, Filter!Fresh
<1>3. ASSUME NEW seq \in Seqs, OkJump(seq) PROVE Filter!Accept(seq)
  <2>1. Accepted' = Accepted \union {seq}
    BY <1>3, AnswerAccepts DEF OkJump, Open
  <2>2. seq \notin Accepted /\ seq + Window > top
    BY <1>3, KnownFacts, WindowPositive DEF OkJump, Accepted, Seqs
  <2> QED BY <1>3, <2>1, <2>2 DEF OkJump, Open, Answer, Filter!Accept, Filter!Fresh
<1>4. ASSUME NEW seq \in Seqs, OkAhead(seq) PROVE Filter!Accept(seq)
  <2>1. Accepted' = Accepted \union {seq}
    BY <1>4, AnswerAccepts DEF OkAhead
  <2>2. seq \notin Accepted /\ seq + Window > top
    BY <1>4, KnownFacts, WindowPositive DEF OkAhead, Accepted, Seqs
  <2> QED BY <1>4, <2>1, <2>2 DEF OkAhead, Answer, Filter!Accept, Filter!Fresh
<1>5. ASSUME NEW seq \in Seqs, OkBehind(seq) PROVE Filter!Accept(seq)
  <2>1. Accepted' = Accepted \union {seq}
    BY <1>5, AnswerAccepts DEF OkBehind
  <2>2. Known /\ seq <= top /\ top - seq < Window /\ ~Seen(bits, seq)
    BY <1>5 DEF OkBehind
  <2>3. seq \notin Accepted /\ seq + Window > top
    BY <2>2, KnownFacts, WindowPositive DEF Accepted, Seqs
  <2>4. Accepted # {} /\ ~(seq > top)
    BY <2>2, KnownFacts DEF IInv, RingIsTruthful, Seqs
  <2> QED BY <1>5, <2>1, <2>3, <2>4 DEF OkBehind, Answer, Filter!Accept, Filter!Fresh
<1>6. ASSUME NEW seq \in Seqs, Reject(seq) PROVE Filter!Refuse(seq)
  <2>1. Known /\ seq <= top /\ (top - seq >= Window \/ Seen(bits, seq))
    BY <1>6 DEF Reject
  <2>2. Accepted # {}
    BY <2>1 DEF Known, IInv, RingIsTruthful
  <2>3. ~(seq \notin Accepted /\ seq + Window > top)
    <3>1. CASE top - seq >= Window
      BY <2>1, <3>1, KnownFacts, WindowPositive DEF Seqs
    <3>2. CASE Seen(bits, seq) /\ top - seq < Window
      BY <2>1, <3>2, KnownFacts DEF Accepted
    <3> QED BY <2>1, <3>1, <3>2, KnownFacts, WindowPositive DEF Seqs
  <2>4. Accepted' = Accepted
    BY <1>6 DEF Reject, Answer, Accepted
  <2> QED BY <1>6, <2>2, <2>3, <2>4 DEF Reject, Answer, guardVars, Filter!Refuse, Filter!Fresh
<1>7. CASE UNCHANGED vars
  BY <1>7 DEF vars, Accepted
<1> QED BY <1>1, <1>2, <1>3, <1>4, <1>5, <1>6, <1>7 DEF Next

\* The guard of replay.go accepts and refuses exactly what a filter does that
\* remembers every number, for every ring size.
THEOREM GuardImplementsFilter == Spec => ImplementsFilter
<1>1. Init => Filter!Init
  BY DEF Init, Accepted, Filter!Init, Filter!NoVerdict
<1> QED BY <1>1, StepRefines, GuardInvariant, PTL DEF Spec, ImplementsFilter, Filter!Spec
=============================================================================
