---------------------------- MODULE HttpUpProofs ----------------------------
(***************************************************************************)
(* Proofs about HttpUp.  The batches that workers cut are consecutive      *)
(* pieces of the stream of chunks, but a batch may be anywhere, or lost:   *)
(* no variable holds the places where the stream was cut.  The invariant   *)
(* says that such places exist: one function c for which batch n, wherever *)
(* it is, holds the chunks after c[n] up to c[n + 1], and a generation     *)
(* whose next batch is n has yielded the first c[n] chunks.  What chunks   *)
(* weigh, and hence where the cuts are and what the limits refuse, does    *)
(* not matter.                                                             *)
(***************************************************************************)
EXTENDS HttpUp, FiniteSetTheorems, SequenceTheorems, WellFoundedInduction, TLAPS

----------------------------------------------------------------------------
(* Numbers and sets.                                                       *)

\* The least-number principle, for sets.
LEMMA LeastNatural ==
  ASSUME NEW T, T \subseteq Nat, T # {}
  PROVE  \E x \in T : \A y \in T : x <= y
<1> DEFINE R == OpToRel(<, Nat)
<1>1. IsWellFoundedOn(R, Nat)
  BY NatLessThanWellFounded, Zenon
<1>2. \A x, y \in Nat : x < y => <<x, y>> \in R
  BY DEF OpToRel
<1> HIDE DEF R
<1>3. PICK x \in T : \A y \in T : ~(<<y, x>> \in R)
  BY <1>1, WFMin
<1>4. \A y \in T : x <= y
  <2> SUFFICES ASSUME NEW y \in T, ~(x <= y) PROVE FALSE
    OBVIOUS
  <2>1. x \in Nat /\ y \in Nat
    OBVIOUS
  <2>2. y < x
    BY <2>1
  <2>3. <<y, x>> \in R
    BY <1>2, <2>1, <2>2, Zenon
  <2> QED BY <1>3, <2>3
<1> QED BY <1>4

\* What a mapping by a function leaves of a finite set is finite and no larger.
LEMMA ImageFinite ==
  ASSUME NEW P, NEW f, DOMAIN f = P, f \in [P -> {f[x] : x \in P}], IsFiniteSet(P)
  PROVE  /\ IsFiniteSet({f[x] : x \in P})
         /\ Cardinality({f[x] : x \in P}) <= Cardinality(P)
<1>1. f \in Surjection(P, {f[x] : x \in P})
  BY DEF Surjection
<1> QED BY <1>1, FS_Surjection

\* A finite set of numbers has a first gap at or after start, and it is not far away.
LEMMA FirstGap ==
  ASSUME NEW N, IsFiniteSet(N), NEW c \in Nat, Cardinality(N) <= c, NEW start \in Nat
  PROVE  \E k \in start .. start + c : start .. k - 1 \subseteq N /\ k \notin N
<1> DEFINE T == {k \in start .. start + c : k \notin N}
<1>1. T # {}
  <2> SUFFICES ASSUME T = {} PROVE FALSE
    OBVIOUS
  <2>1. start .. start + c \in SUBSET N
    OBVIOUS
  <2>2. Cardinality(start .. start + c) <= Cardinality(N)
    BY <2>1, FS_Subset
  <2>3. Cardinality(start .. start + c) = c + 1
    BY FS_Interval
  <2>4. Cardinality(N) \in Nat
    BY FS_CardinalityType
  <2> QED BY <2>2, <2>3, <2>4
<1>2. T \subseteq Nat
  OBVIOUS
<1>3. PICK k \in T : \A y \in T : k <= y
  BY <1>1, <1>2, LeastNatural
<1>4. start .. k - 1 \subseteq N
  <2> SUFFICES ASSUME NEW y \in start .. k - 1, y \notin N PROVE FALSE
    OBVIOUS
  <2>1. y \in T
    BY <1>3
  <2> QED BY <1>2, <1>3, <2>1
<1> QED BY <1>3, <1>4

----------------------------------------------------------------------------
\* What the variables hold.  A size is whatever Size computes.
Types ==
  /\ seq \in Nat /\ accepted \in Nat /\ up \in BOOLEAN
  /\ ch \in Seq([id : Nat, size : Sizes]) /\ carry \in Seq([id : Nat, size : Sizes])
  /\ made \in Gens /\ table \in 0 .. made /\ open \subseteq 1 .. made
  /\ next \in [Gens -> Nat]
  /\ DOMAIN pend = Gens /\ \A g \in Gens : IsFiniteSet(pend[g])
  /\ DOMAIN out = Gens
  /\ \A r \in reqs : r \in [b : {r.b}, gen : 0 .. made, pooled : BOOLEAN]

\* A request that holds a buffer of the pool is due, or late by now: next only grows.
Pooled == \A r \in reqs : r.gen # None /\ r.pooled => r.b.n <= next[r.gen]

\* The chunks after x up to y, in order.
Run(x, y) == [j \in 1 .. y - x |-> x + j]

\* The chunks of batch n, if the stream is cut at c.
Piece(c, n) == Run(c[n], c[n + 1])

\* A batch that was made, with what belongs in it.
Right(c, b) == b.n \in 0 .. seq - 1 /\ b.ids = Piece(c, b.n)

\* Cuts in order.
Rising(c) == \A m, n \in DOMAIN c : m < n => c[m] < c[n]

\* The stream is cut at c; what has not been cut waits, while the client is open.
Cut(c) ==
  /\ c[0] = 0 /\ Rising(c)
  /\ c[seq] <= accepted
  /\ up => /\ c[seq] + Len(Waiting) = accepted
           /\ \A j \in 1 .. Len(Waiting) : Waiting[j].id = c[seq] + j
  /\ \A r \in reqs : Right(c, r.b)
  /\ \A g \in Gens : \A e \in pend[g] : Right(c, e.b)
  /\ \A g \in Gens : next[g] <= seq
  /\ \A g \in open : out[g] = Run(0, c[next[g]])
  /\ \A g \in Gens : g > made => next[g] = 0 /\ out[g] = <<>>

IInv == Types /\ Pooled /\ PooledNeverWaits /\ \E c \in [0 .. seq -> Nat] : Cut(c)

----------------------------------------------------------------------------
(* What the operators compute.                                             *)

\* Two pieces of the stream that meet are one piece.
LEMMA PiecesMeet ==
  ASSUME NEW x \in Nat, NEW y \in Nat, NEW z \in Nat, x <= y, y <= z
  PROVE  Run(x, y) \o Run(y, z) = Run(x, z)
<1> DEFINE p == [j \in 1 .. y - x |-> x + j]
           q == [j \in 1 .. z - y |-> y + j]
           w == [j \in 1 .. z - x |-> x + j]
<1>1. p \in Seq(Nat) /\ q \in Seq(Nat) /\ Len(p) = y - x /\ Len(q) = z - y
  OBVIOUS
<1>2. w \in Seq(Nat) /\ Len(w) = z - x
  OBVIOUS
<1>3. p \o q \in Seq(Nat) /\ Len(p \o q) = z - x
  BY <1>1
<1>4. ASSUME NEW j \in 1 .. z - x PROVE (p \o q)[j] = w[j]
  <2>1. CASE j <= y - x
    BY <1>1, <2>1
  <2>2. CASE j > y - x
    <3>1. (p \o q)[j] = q[j - (y - x)]
      BY <1>1, <2>2
    <3>2. j - (y - x) \in 1 .. z - y
      BY <2>2
    <3> QED BY <3>1, <3>2
  <2> QED BY <2>1, <2>2
<1> HIDE DEF p, q, w
<1>5. p \o q = w
  BY <1>2, <1>3, <1>4, SeqEqual
<1> QED BY <1>5 DEF p, q, w, Run

\* Consecutive batches, put together (the loop of reseq.deliver that writes what is due),
\* are the piece of the stream from the first cut to the last.
LEMMA FlattenPieces ==
  ASSUME NEW N \in Nat, NEW c \in [0 .. N -> Nat], Rising(c),
         NEW a \in Nat, NEW m \in Nat \ {0}, a + m <= N
  PROVE  FlattenSeq([j \in 1 .. m |-> Piece(c, a + j - 1)]) = Run(c[a], c[a + m])
<1> DEFINE s == [j \in 1 .. m |-> Piece(c, a + j - 1)]
           Upto(i) == Run(c[a], c[a + i])
           Law(f) == f = [i \in 1 .. Len(s) |-> IF i = 1 THEN s[i] ELSE f[i - 1] \o s[i]]
<1>0. Len(s) = m /\ \A i \in 1 .. m : s[i] = Piece(c, a + i - 1)
  OBVIOUS
<1>a. \A i \in 0 .. N : c[i] \in Nat
  OBVIOUS
<1> HIDE DEF s
<1>1. Upto(1) = s[1]
  <2>1. s[1] = Piece(c, a)
    BY <1>0
  <2> QED BY <2>1 DEF Piece
<1>2. ASSUME NEW i \in 2 .. m PROVE Upto(i - 1) \o s[i] = Upto(i)
  <2>1. s[i] = Run(c[a + i - 1], c[a + i])
    <3>1. s[i] = Piece(c, a + i - 1) /\ a + i - 1 + 1 = a + i
      BY <1>0
    <3> QED BY <3>1 DEF Piece
  <2>2. a + (i - 1) = a + i - 1 /\ {a, a + i - 1, a + i} \subseteq 0 .. N
    OBVIOUS
  <2>3. c[a] < c[a + i - 1] /\ c[a + i - 1] < c[a + i]
    BY <2>2 DEF Rising
  <2>4. c[a] \in Nat /\ c[a + i - 1] \in Nat /\ c[a + i] \in Nat
    BY <1>a, <2>2
  <2>5. Upto(i - 1) = Run(c[a], c[a + i - 1])
    BY <2>2
  <2>6. c[a] <= c[a + i - 1] /\ c[a + i - 1] <= c[a + i]
    BY <2>3, <2>4
  <2>7. Run(c[a], c[a + i - 1]) \o Run(c[a + i - 1], c[a + i]) = Run(c[a], c[a + i])
    BY <2>4, <2>6, PiecesMeet, Zenon
  <2> QED BY <2>1, <2>5, <2>7, Zenon
<1> HIDE DEF Upto
<1>3. Law([i \in 1 .. m |-> Upto(i)])
  <2> DEFINE w == [i \in 1 .. m |-> Upto(i)]
  <2>1. ASSUME NEW i \in 1 .. m PROVE w[i] = IF i = 1 THEN s[i] ELSE w[i - 1] \o s[i]
    BY <1>1, <1>2
  <2>2. w = [i \in 1 .. m |-> IF i = 1 THEN s[i] ELSE w[i - 1] \o s[i]]
    BY <2>1
  <2> QED BY <1>0, <2>2
<1>4. ASSUME NEW f, Law(f) PROVE f[m] = Upto(m)
  <2> DEFINE T == {i \in 1 .. m : f[i] # Upto(i)}
  <2>0. \A i \in 1 .. m : f[i] = IF i = 1 THEN s[i] ELSE f[i - 1] \o s[i]
    BY <1>0, <1>4
  <2>1. SUFFICES ASSUME T # {} PROVE FALSE
    OBVIOUS
  <2>a. T \subseteq 1 .. m /\ T \subseteq Nat
    OBVIOUS
  <2>b. \A i \in T : f[i] # Upto(i)
    OBVIOUS
  <2>c. \A i \in 1 .. m : i \notin T => f[i] = Upto(i)
    OBVIOUS
  <2> HIDE DEF T
  <2>2. PICK i \in T : \A k \in T : i <= k
    BY <2>1, <2>a, LeastNatural
  <2>3. i # 1
    BY <1>1, <2>0, <2>a, <2>b
  <2>4. i \in 2 .. m /\ i - 1 \in 1 .. m /\ i - 1 \notin T
    BY <2>2, <2>3, <2>a
  <2>5. f[i] = Upto(i - 1) \o s[i]
    BY <2>0, <2>3, <2>4, <2>a, <2>c
  <2> QED BY <1>2, <2>4, <2>5, <2>b
<1>5. FlattenSeq(s) = (CHOOSE f : Law(f))[m]
  BY <1>0 DEF FlattenSeq
<1>6. FlattenSeq(s) = Upto(m)
  BY <1>3, <1>4, <1>5
<1> QED BY <1>6 DEF s, Upto

\* next() always finds how much to cut: a chunk at least, and no more than there is.
LEMMA BatchCuts ==
  ASSUME NEW T, NEW q \in Seq(T), q # <<>>
  PROVE  Batch(q) \in 1 .. Len(q)
<1> DEFINE Ends == {k \in 1 .. Len(q) : k = Len(q) \/ ~Fits(q, k + 1)}
<1>1. DOMAIN q = 1 .. Len(q) /\ Len(q) \in Nat /\ Len(q) # 0
  OBVIOUS
<1>2. Len(q) \in Ends
  BY <1>1
<1>a. Ends \subseteq Nat /\ Ends # {}
  BY <1>2
<1>3. PICK k \in Ends : \A y \in Ends : k <= y
  <2> HIDE DEF Ends
  <2> QED BY <1>a, LeastNatural
<1>4. Fits(q, k)
  <2>1. CASE k = 1
    BY <2>1 DEF Fits
  <2>2. CASE k # 1
    <3>1. k - 1 \notin Ends /\ k - 1 \in 1 .. Len(q) /\ k - 1 + 1 = k
      BY <1>3, <2>2
    <3> QED BY <3>1
  <2> QED BY <2>1, <2>2
<1> QED BY <1>1, <1>3, <1>4 DEF Batch

\* reseq.deliver's loop: what is due is a run of entries with consecutive numbers from next
\* on, and it is not empty if the batch that is next is there.
LEMMA DueRuns ==
  ASSUME NEW g, NEW p, IsFiniteSet(p), next[g] \in Nat, \A e \in p : e.b.n \in Nat
  PROVE  \E m \in Nat :
           /\ Due(g, p) = [j \in 1 .. m |-> CHOOSE e \in p : e.b.n = next[g] + j - 1]
           /\ \A j \in 1 .. m : \E e \in p : e.b.n = next[g] + j - 1
           /\ (\E e \in p : e.b.n = next[g]) => m # 0
<1> DEFINE numbers == {e.b.n : e \in p}
           n == next[g]
           Gap(k) == n .. k - 1 \subseteq numbers /\ k \notin numbers
           last == CHOOSE k \in n .. n + Cardinality(p) : Gap(k)
           f == [e \in p |-> e.b.n]
<1>1. numbers = {f[e] : e \in p}
  OBVIOUS
<1>2. IsFiniteSet(numbers) /\ Cardinality(numbers) <= Cardinality(p) /\ Cardinality(p) \in Nat
  <2>1. DOMAIN f = p /\ f \in [p -> {f[e] : e \in p}]
    OBVIOUS
  <2> HIDE DEF f, numbers
  <2> QED BY <1>1, <2>1, ImageFinite, FS_CardinalityType
<1> HIDE DEF numbers
<1>3. \E k \in n .. n + Cardinality(p) : Gap(k)
  BY <1>2, FirstGap
<1>4. last \in n .. n + Cardinality(p) /\ Gap(last)
  BY <1>3
<1> HIDE DEF last
<1>5. last - n \in Nat
  BY <1>2, <1>4
<1>6. Due(g, p) = [j \in 1 .. last - n |-> CHOOSE e \in p : e.b.n = n + j - 1]
  BY DEF Due, last, numbers
<1>7. ASSUME NEW j \in 1 .. last - n PROVE \E e \in p : e.b.n = n + j - 1
  <2>1. n + j - 1 \in n .. last - 1
    BY <1>2, <1>4
  <2>2. n + j - 1 \in numbers
    BY <1>4, <2>1
  <2> QED BY <2>2 DEF numbers
<1>8. ASSUME NEW e \in p, e.b.n = n PROVE last - n # 0
  <2>1. n \in numbers
    BY <1>8 DEF numbers
  <2>2. last # n
    BY <1>4, <2>1
  <2> QED BY <1>2, <1>4, <2>2
<1> QED BY <1>5, <1>6, <1>7, <1>8

\* The k chunks after x.
LEMMA RunOf ==
  ASSUME NEW x \in Nat, NEW k \in Nat
  PROVE  Run(x, x + k) = [j \in 1 .. k |-> x + j]
<1> DEFINE f == [j \in 1 .. x + k - x |-> x + j]
           h == [j \in 1 .. k |-> x + j]
<1>1. DOMAIN f = 1 .. k /\ DOMAIN h = 1 .. k
  OBVIOUS
<1>2. \A j \in 1 .. k : f[j] = h[j]
  OBVIOUS
<1>3. f = h
  BY <1>1, <1>2
<1>4. Run(x, x + k) = f
  BY DEF Run
<1> HIDE DEF f
<1>5. Run(x, x + k) = h
  BY <1>3, <1>4
<1> QED BY <1>5

\* The beginning of the stream.
LEMMA RunFromZero ==
  ASSUME NEW k \in Nat
  PROVE  Run(0, k) = [j \in 1 .. k |-> j] /\ Len(Run(0, k)) = k /\ Run(0, 0) = <<>>
BY DEF Run

----------------------------------------------------------------------------
(* The steps.                                                              *)

\* A delivery, the whole of it: the generation's next grows by the m batches that went, what
\* its conn reads goes on to the cut before the new next, unless the session is over, and
\* what stays in the buffer was there or is the batch that came, which does not stay if it
\* is in a buffer of the pool.
LEMMA DeliverMoves ==
  ASSUME IInv, NEW r \in reqs, Deliver(r), NEW c \in [0 .. seq -> Nat], Cut(c)
  PROVE  /\ r.gen \in 1 .. made
         /\ reqs' = reqs \ {r}
         /\ UNCHANGED <<client, table, open, made>>
         /\ \/ UNCHANGED <<pend, next, out>>
            \/ \E m, q :
                 /\ m \in Nat
                 /\ next[r.gen] + m <= seq
                 /\ next' = [next EXCEPT ![r.gen] = @ + m]
                 /\ pend' = [pend EXCEPT ![r.gen] = q]
                 /\ q \subseteq pend[r.gen] \union {[b |-> r.b, pooled |-> r.pooled]}
                 /\ r.pooled => q \subseteq pend[r.gen]
                 /\ out' = IF r.gen \in open
                           THEN [out EXCEPT ![r.gen] = Run(0, c[next[r.gen] + m])]
                           ELSE out
<1> DEFINE g == r.gen
           new == [b |-> r.b, pooled |-> r.pooled]
           p == {e \in pend[g] : e.b.n # r.b.n} \union {new}
           due == Due(g, p)
           gone == IF g \in open THEN due ELSE SubSeq(due, 1, IF due = <<>> THEN 0 ELSE 1)
           late == r.b.n < next[g]
           over == Held(g) + r.b.size > PendMax
<1>1. /\ g # None /\ reqs' = reqs \ {r}
      /\ UNCHANGED <<client, table, open, made>>
      /\ IF late \/ over
         THEN UNCHANGED <<pend, next, out>>
         ELSE /\ pend' = [pend EXCEPT ![g] = p \ {gone[j] : j \in DOMAIN gone}]
              /\ next' = [next EXCEPT ![g] = @ + Len(gone)]
              /\ out' = IF g \in open
                        THEN [out EXCEPT ![g] = @ \o FlattenSeq([j \in DOMAIN gone |-> gone[j].b.ids])]
                        ELSE out
  BY DEF Deliver
<1>2. g \in 1 .. made /\ g \in Gens /\ next[g] \in Nat /\ seq \in Nat /\ DOMAIN out = Gens
  <2>1. r.gen \in 0 .. made
    BY DEF IInv, Types
  <2>2. made \in 1 .. 2 /\ next \in [1 .. 2 -> Nat] /\ seq \in Nat /\ DOMAIN out = Gens
    BY DEF IInv, Types, Gens
  <2>3. r.gen # 0
    BY <1>1 DEF None
  <2> QED BY <2>1, <2>2, <2>3 DEF Gens
<1>3. \A e \in p : Right(c, e.b)
  BY <1>2 DEF Cut
<1>4. IsFiniteSet(p)
  <2>1. IsFiniteSet({e \in pend[g] : e.b.n # r.b.n})
    BY <1>2, FS_Subset DEF IInv, Types
  <2> QED BY <2>1, FS_AddElement
<1>5. \A e \in p : e.b.n \in Nat
  BY <1>2, <1>3 DEF Right
<1>6. new \in p /\ new.b = r.b /\ \A e \in p : e.b.n = r.b.n => e = new
  OBVIOUS
<1>7. p \subseteq pend[g] \union {new}
  OBVIOUS
<1> HIDE DEF p, new, late, over
<1> DEFINE entry(j) == CHOOSE e \in p : e.b.n = next[g] + j - 1
<1>8. PICK m0 \in Nat :
         /\ due = [j \in 1 .. m0 |-> entry(j)]
         /\ \A j \in 1 .. m0 : \E e \in p : e.b.n = next[g] + j - 1
         /\ (\E e \in p : e.b.n = next[g]) => m0 # 0
  BY <1>2, <1>4, <1>5, DueRuns
<1>9. \A j \in 1 .. m0 : entry(j) \in p /\ entry(j).b.n = next[g] + j - 1
  BY <1>8
<1> HIDE DEF due, entry
<1>10. PICK m \in Nat :
         /\ m <= m0 /\ (m0 # 0 => m # 0)
         /\ gone = [j \in 1 .. m |-> entry(j)]
  <2>1. CASE g \in open
    BY <1>8, <2>1
  <2>2. CASE g \notin open /\ m0 = 0
    <3>1. due = <<>>
      BY <1>8, <2>2
    <3>2. gone = <<>>
      BY <2>2, <3>1
    <3>3. [j \in 1 .. 0 |-> entry(j)] = <<>>
      OBVIOUS
    <3> QED BY <2>2, <3>2, <3>3
  <2>3. CASE g \notin open /\ m0 # 0
    <3>0. due \in [1 .. m0 -> p] /\ due[1] = entry(1)
      BY <1>8, <1>9, <2>3
    <3>1. due # <<>> /\ due \in Seq(p) /\ Len(due) = m0
      BY <2>3, <3>0
    <3>2. gone = SubSeq(due, 1, 1)
      BY <2>3, <3>1
    <3>3. SubSeq(due, 1, 1) = [j \in 1 .. 1 |-> due[j]]
      BY <3>1
    <3>4. gone = [j \in 1 .. 1 |-> entry(j)]
      <4>1. [j \in 1 .. 1 |-> due[j]] = [j \in 1 .. 1 |-> entry(j)]
        <5> SUFFICES ASSUME NEW j \in 1 .. 1 PROVE due[j] = entry(j)
          OBVIOUS
        <5>1. j = 1
          OBVIOUS
        <5> QED BY <3>0, <5>1
      <4> QED BY <3>2, <3>3, <4>1
    <3>5. 1 \in Nat /\ 1 <= m0
      BY <2>3
    <3> HIDE DEF gone
    <3> QED BY <3>4, <3>5
  <2> QED BY <2>1, <2>2, <2>3
<1> HIDE DEF gone
<1>11. Len(gone) = m /\ DOMAIN gone = 1 .. m /\ \A j \in 1 .. m : gone[j] = entry(j)
  BY <1>10
<1>12. \A j \in 1 .. m : entry(j) \in p /\ entry(j).b.n = next[g] + j - 1
  BY <1>9, <1>10
<1>13. \A j \in 1 .. m : next[g] + j - 1 <= seq - 1 /\ entry(j).b.ids = Piece(c, next[g] + j - 1)
  BY <1>2, <1>3, <1>12 DEF Right
<1>14. next[g] + m <= seq
  <2>1. CASE m = 0
    BY <1>2, <2>1 DEF Cut
  <2>2. CASE m # 0
    <3>1. m \in 1 .. m
      BY <2>2
    <3> QED BY <1>2, <1>13, <3>1
  <2> QED BY <2>1, <2>2
<1> DEFINE q == p \ {gone[j] : j \in DOMAIN gone}
<1>15. q \subseteq pend[g] \union {new}
  BY <1>7
<1>16. ASSUME r.pooled, ~late PROVE q \subseteq pend[g]
  <2>1. r.b.n = next[g]
    <3>1. r.b.n \in Nat /\ r.b.n <= next[g]
      BY <1>1, <1>5, <1>6, <1>16 DEF IInv, Pooled
    <3> QED BY <1>2, <1>16, <3>1 DEF late
  <2>2. m # 0
    BY <1>6, <1>8, <1>10, <2>1
  <2>3. 1 \in DOMAIN gone /\ gone[1] = entry(1) /\ entry(1) \in p /\ entry(1).b.n = next[g]
    BY <1>2, <1>11, <1>12, <2>2
  <2>4. gone[1] = new
    BY <1>6, <2>1, <2>3
  <2>5. new \notin q
    BY <2>3, <2>4
  <2> QED BY <1>15, <2>5
<1>17. ASSUME g \in open
       PROVE  out[g] \o FlattenSeq([j \in DOMAIN gone |-> gone[j].b.ids]) = Run(0, c[next[g] + m])
  <2> DEFINE pieces == [j \in 1 .. m |-> Piece(c, next[g] + j - 1)]
  <2>1. [j \in DOMAIN gone |-> gone[j].b.ids] = pieces
    BY <1>11, <1>13
  <2>2. out[g] = Run(0, c[next[g]])
    BY <1>17 DEF Cut
  <2>3. {next[g], next[g] + m} \subseteq 0 .. seq
    BY <1>2, <1>14
  <2>4. c[next[g]] \in Nat /\ c[next[g] + m] \in Nat
    BY <2>3
  <2> HIDE DEF pieces
  <2>5. CASE m = 0
    <3>1. pieces = <<>>
      BY <2>5 DEF pieces
    <3>2. FlattenSeq(pieces) = <<>>
      BY <3>1 DEF FlattenSeq
    <3>3. Run(0, c[next[g]]) \in Seq(Nat)
      BY <2>4 DEF Run
    <3>4. Run(0, c[next[g]]) \o <<>> = Run(0, c[next[g]])
      BY <3>3
    <3>5. next[g] + m = next[g]
      BY <1>2, <2>5
    <3> QED BY <2>1, <2>2, <3>2, <3>4, <3>5
  <2>6. CASE m # 0
    <3>1. c[next[g]] < c[next[g] + m]
      BY <1>2, <2>3, <2>6 DEF Cut, Rising
    <3>2. FlattenSeq(pieces) = Run(c[next[g]], c[next[g] + m])
      BY <1>2, <1>14, <2>6, FlattenPieces DEF Cut, pieces
    <3>3. Run(0, c[next[g]]) \o Run(c[next[g]], c[next[g] + m]) = Run(0, c[next[g] + m])
      <4>1. 0 <= c[next[g]] /\ c[next[g]] <= c[next[g] + m] /\ 0 \in Nat
        BY <2>4, <3>1
      <4> QED BY <2>4, <4>1, PiecesMeet, Zenon
    <3> QED BY <2>1, <2>2, <3>2, <3>3
  <2> QED BY <2>5, <2>6
<1>18. CASE late \/ over
  BY <1>1, <1>2, <1>18
<1>19. CASE ~(late \/ over)
  <2>1. /\ next' = [next EXCEPT ![g] = @ + m]
        /\ pend' = [pend EXCEPT ![g] = q]
    BY <1>1, <1>11, <1>19
  <2>2. out' = IF g \in open THEN [out EXCEPT ![g] = Run(0, c[next[g] + m])] ELSE out
    BY <1>1, <1>17, <1>19
  <2>3. r.pooled => q \subseteq pend[g]
    BY <1>16, <1>19
  <2> HIDE DEF q
  <2> QED BY <1>1, <1>2, <1>14, <1>15, <2>1, <2>2, <2>3 DEF new
<1> QED BY <1>18, <1>19

\* A sequence that is cut in two and put together again.
LEMMA SplitJoin ==
  ASSUME NEW T, NEW q \in Seq(T), NEW a \in 0 .. Len(q)
  PROVE  /\ SubSeq(q, 1, a) \in Seq(T) /\ SubSeq(q, a + 1, Len(q)) \in Seq(T)
         /\ Len(SubSeq(q, a + 1, Len(q))) = Len(q) - a
         /\ \A j \in 1 .. Len(q) - a : SubSeq(q, a + 1, Len(q))[j] = q[a + j]
         /\ SubSeq(q, 1, a) \o SubSeq(q, a + 1, Len(q)) = q
<1> DEFINE x == SubSeq(q, 1, a)
           y == SubSeq(q, a + 1, Len(q))
<1>0. Len(q) \in Nat /\ a \in Nat
  OBVIOUS
<1>1. x \in Seq(T) /\ Len(x) = a /\ \A j \in 1 .. a : x[j] = q[j]
  OBVIOUS
<1>2. y \in Seq(T) /\ Len(y) = Len(q) - a /\ \A j \in 1 .. Len(q) - a : y[j] = q[a + j]
  OBVIOUS
<1> HIDE DEF x, y
<1>3. x \o y \in Seq(T) /\ Len(x \o y) = Len(q)
  BY <1>0, <1>1, <1>2
<1>4. ASSUME NEW j \in 1 .. Len(q) PROVE (x \o y)[j] = q[j]
  <2>1. CASE j <= a
    BY <1>1, <1>2, <2>1
  <2>2. CASE j > a
    <3>1. (x \o y)[j] = y[j - a]
      BY <1>0, <1>1, <1>2, <2>2
    <3>2. j - a \in 1 .. Len(q) - a /\ a + (j - a) = j
      BY <1>0, <2>2
    <3>3. y[j - a] = q[a + (j - a)]
      BY <1>2, <3>2
    <3> QED BY <3>1, <3>2, <3>3
  <2>3. j \in Int /\ a \in Int
    BY <1>0
  <2>4. j <= a \/ j > a
    BY <2>3
  <2> QED BY <2>1, <2>2, <2>4
<1>5. x \o y = q
  BY <1>3, <1>4, SeqEqual
<1> QED BY <1>1, <1>2, <1>5 DEF x, y

\* A cut: the new batch has the next number and holds the first k of the chunks that wait,
\* the others wait on, in order, whether one of them is set aside or not.
LEMMA TakeCuts ==
  ASSUME IInv, Take, NEW c \in [0 .. seq -> Nat], Cut(c)
  PROVE  \E k, b :
           /\ k \in 1 .. Len(Waiting)
           /\ b.n = seq /\ b.ids = Run(c[seq], c[seq] + k)
           /\ reqs' = reqs \union {[b |-> b, gen |-> None, pooled |-> FALSE]}
           /\ carry' \in Seq([id : Nat, size : Sizes]) /\ ch' \in Seq([id : Nat, size : Sizes])
           /\ Len(Waiting') = Len(Waiting) - k
           /\ \A j \in 1 .. Len(Waiting) - k : Waiting'[j] = Waiting[k + j]
<1> DEFINE Chunk == [id : Nat, size : Sizes]
           k == Batch(Waiting)
           w == Size(SubSeq(Waiting, 1, k))
           b == [n |-> seq, ids |-> [j \in 1 .. k |-> Waiting[j].id], size |-> w]
           rest == SubSeq(Waiting, k + 1, Len(Waiting))
           aside == IF rest # <<>> /\ b.size < MaxBatch THEN 1 ELSE 0
<1>1. /\ up /\ Waiting # <<>>
      /\ reqs' = reqs \union {[b |-> b, gen |-> None, pooled |-> FALSE]}
      /\ carry' = SubSeq(rest, 1, aside)
      /\ ch' = SubSeq(rest, aside + 1, Len(rest))
  BY DEF Take
<1>2. Waiting \in Seq(Chunk)
  BY DEF IInv, Types, Waiting
<1>3. k \in 1 .. Len(Waiting)
  BY <1>1, <1>2, BatchCuts
<1> HIDE DEF k, w
<1>4. Len(Waiting) \in Nat /\ c[seq] \in Nat
  BY <1>2 DEF IInv, Types
<1>5. b.n = seq /\ b.ids = [j \in 1 .. k |-> Waiting[j].id]
  OBVIOUS
<1>6. b.ids = Run(c[seq], c[seq] + k)
  <2>1. \A j \in 1 .. k : Waiting[j].id = c[seq] + j
    BY <1>1, <1>3, <1>4 DEF Cut
  <2>3. b.ids = [j \in 1 .. k |-> c[seq] + j]
    BY <1>5, <2>1
  <2>4. Run(c[seq], c[seq] + k) = [j \in 1 .. k |-> c[seq] + j]
    <3>1. c[seq] \in Nat /\ k \in Nat
      BY <1>3, <1>4
    <3> QED BY <3>1, RunOf, Zenon
  <2> QED BY <2>3, <2>4
<1> HIDE DEF b
<1>7. rest \in Seq(Chunk) /\ Len(rest) = Len(Waiting) - k
      /\ \A j \in 1 .. Len(Waiting) - k : rest[j] = Waiting[k + j]
  <2>1. k \in 0 .. Len(Waiting)
    BY <1>3, <1>4
  <2> HIDE DEF Chunk
  <2> QED BY <1>2, <2>1, SplitJoin
<1> HIDE DEF rest, Chunk
<1>8. aside \in 0 .. Len(rest)
  <2>1. Len(rest) \in Nat /\ (rest # <<>> => Len(rest) # 0)
    BY <1>7
  <2>2. aside = 0 \/ (rest # <<>> /\ aside = 1)
    OBVIOUS
  <2> HIDE DEF aside
  <2> QED BY <2>1, <2>2
<1> HIDE DEF aside
<1>9. /\ SubSeq(rest, 1, aside) \in Seq(Chunk) /\ SubSeq(rest, aside + 1, Len(rest)) \in Seq(Chunk)
      /\ SubSeq(rest, 1, aside) \o SubSeq(rest, aside + 1, Len(rest)) = rest
  BY <1>7, <1>8, SplitJoin
<1>10. carry' \in Seq(Chunk) /\ ch' \in Seq(Chunk) /\ Waiting' = rest
  BY <1>1, <1>9 DEF Waiting
<1> QED BY <1>1, <1>3, <1>5, <1>6, <1>7, <1>10 DEF Chunk

\* A batch that was right stays right when more is cut.
LEMMA RightStays ==
  ASSUME seq \in Nat, seq' \in Nat, seq <= seq',
         NEW c \in [0 .. seq -> Nat], NEW d \in [0 .. seq' -> Nat],
         \A n \in 0 .. seq : d[n] = c[n], NEW b, Right(c, b)
  PROVE  Right(d, b)'
<1>1. b.n \in 0 .. seq - 1 /\ b.n \in 0 .. seq' - 1 /\ {b.n, b.n + 1} \subseteq 0 .. seq
  BY DEF Right
<1>2. d[b.n] = c[b.n] /\ d[b.n + 1] = c[b.n + 1]
  BY <1>1
<1> QED BY <1>1, <1>2 DEF Right, Piece

\* A step that cuts nothing, delivers nothing and only passes on, repeats or loses requests,
\* ends the client, or begins or ends generations, leaves the cuts as they are.
LEMMA SameCuts ==
  ASSUME IInv, NEW c \in [0 .. seq -> Nat], Cut(c),
         UNCHANGED <<seq, accepted, next, pend, out>>,
         up' => up /\ UNCHANGED <<ch, carry>>,
         \A r \in reqs' : \E q \in reqs : r.b = q.b,
         made' \in made .. 2, \A g \in open' : g \in open \/ g \in made + 1 .. 2
  PROVE  Cut(c)'
<1>1. seq \in Nat /\ made \in 1 .. 2 /\ open \subseteq 1 .. made
  BY DEF IInv, Types, Gens
<1>2. c[0] = 0 /\ Rising(c) /\ c[seq'] <= accepted'
  BY DEF Cut
<1>3. up' => /\ c[seq'] + Len(Waiting') = accepted'
             /\ \A j \in 1 .. Len(Waiting') : Waiting'[j].id = c[seq'] + j
  BY DEF Cut, Waiting
<1>5. ASSUME NEW r \in reqs' PROVE Right(c, r.b)'
  <2>1. PICK q \in reqs : r.b = q.b
    OBVIOUS
  <2>2. Right(c, q.b)
    BY DEF Cut
  <2> QED BY <2>1, <2>2 DEF Right
<1>6. ASSUME NEW g \in Gens, NEW e \in pend'[g] PROVE Right(c, e.b)'
  <2>1. Right(c, e.b)
    BY DEF Cut
  <2> QED BY <2>1 DEF Right
<1>7. \A g \in Gens : next'[g] <= seq'
  BY DEF Cut
<1>8. ASSUME NEW g \in open' PROVE out'[g] = Run(0, c[next'[g]])
  <2>1. CASE g \in open
    BY <2>1 DEF Cut
  <2>2. CASE g \in made + 1 .. 2
    <3>1. next[g] = 0 /\ out[g] = <<>>
      BY <1>1, <2>2 DEF Cut, Gens
    <3> QED BY <1>2, <3>1, RunFromZero
  <2> QED BY <2>1, <2>2
<1>9. \A g \in Gens : g > made' => next'[g] = 0 /\ out'[g] = <<>>
  BY <1>1 DEF Cut, Gens
<1> QED BY <1>2, <1>3, <1>5, <1>6, <1>7, <1>8, <1>9 DEF Cut, Rising

\* Steps that neither write, cut nor deliver: of the requests they pass some on, repeat or lose
\* them, where a buffer of the pool goes to a batch that is due; they end the client, or they
\* begin and end generations.
Quiet ==
  /\ UNCHANGED <<seq, accepted, next, pend, out>>
  /\ up' \in BOOLEAN /\ (up' => up)
  /\ UNCHANGED <<ch, carry>> \/ (~up' /\ ch' = <<>> /\ carry' = <<>>)
  /\ made' \in made .. 2 /\ table' \in 0 .. made'
  /\ \A g \in open' : g \in open \/ g \in made + 1 .. made'
  /\ \A r \in reqs' :
       \/ r \in reqs
       \/ /\ \E q \in reqs : r.b = q.b
          /\ r \in [b : {r.b}, gen : 1 .. made, pooled : BOOLEAN]
          /\ r.pooled => r.b.n = next[r.gen]

\* Every step but these three kinds is quiet.
LEMMA StepKinds ==
  ASSUME IInv, [Next]_vars
  PROVE  Quiet \/ Write \/ Take \/ \E r \in reqs : Deliver(r)
<1> USE DEF client, wire, server
<1>0. /\ made \in 1 .. 2 /\ table \in 0 .. made /\ open \subseteq 1 .. made /\ up \in BOOLEAN
      /\ made \in made .. 2
  BY DEF IInv, Types, Gens
<1>1. ASSUME Shut PROVE Quiet
  BY <1>0, <1>1 DEF Shut, Quiet
<1>2. ASSUME NEW b \in flying, Answered(b) PROVE Quiet
  <2>1. CASE Shut
    BY <1>1, <2>1
  <2>2. CASE UNCHANGED <<up, ch, carry, seq, accepted, reqs, get, repeats, server>>
    BY <1>0, <2>2 DEF Quiet
  <2> QED BY <1>2, <2>1, <2>2 DEF Answered
<1>3. CASE SendGet
  BY <1>0, <1>3 DEF SendGet, Quiet
<1>4. CASE Get
  <2>1. UNCHANGED <<client, reqs, next, pend, out>>
    BY <1>4 DEF Get
  <2>2. /\ made' \in made .. 2 /\ table' \in 0 .. made'
        /\ \A g \in open' : g \in open \/ g \in made + 1 .. made'
    <3>1. CASE UNCHANGED <<table, open, made>>
      BY <1>0, <3>1
    <3>2. CASE /\ made + 1 \in Gens
               /\ made' = made + 1 /\ table' = made + 1 /\ open' = open \union {made + 1}
      BY <1>0, <3>2 DEF Gens
    <3> QED BY <1>4, <3>1, <3>2 DEF Get
  <2> QED BY <1>0, <2>1, <2>2 DEF Quiet
<1>5. ASSUME NEW r \in reqs, Lose(r) PROVE Quiet
  BY <1>0, <1>5 DEF Lose, Quiet
<1>6. ASSUME NEW r \in reqs, Find(r) PROVE Quiet
  <2> DEFINE found == [r EXCEPT !.gen = table, !.pooled = r.b.n = next[table]]
  <2>1. r \in [b : {r.b}, gen : 0 .. made, pooled : BOOLEAN]
    BY DEF IInv, Types
  <2>2. PICK keep \in Kept(r) :
          IF table = None
          THEN reqs' = (reqs \ {r}) \union keep
          ELSE reqs' = (reqs \ {r}) \union keep \union {found}
    BY <1>6 DEF Find
  <2>3. keep \subseteq {r}
    BY DEF Kept
  <2>4. UNCHANGED <<client, server>>
    BY <1>6 DEF Find
  <2>5. found.b = r.b /\ found.gen = table /\ found.pooled = (r.b.n = next[table])
    BY <2>1
  <2>6. found \in [b : {found.b}, gen : {table}, pooled : BOOLEAN]
    BY <2>1
  <2> HIDE DEF found
  <2>7. ASSUME NEW x \in reqs'
        PROVE  \/ x \in reqs
               \/ /\ \E q \in reqs : x.b = q.b
                  /\ x \in [b : {x.b}, gen : 1 .. made, pooled : BOOLEAN]
                  /\ x.pooled => x.b.n = next[x.gen]
    <3>1. x \in reqs \/ (table # None /\ x = found)
      BY <2>2, <2>3
    <3>2. CASE table # None /\ x = found
      <4>1. table \in 1 .. made
        BY <1>0, <3>2 DEF None
      <4> QED BY <2>5, <2>6, <3>2, <4>1
    <3> QED BY <3>1, <3>2
  <2> QED BY <1>0, <2>4, <2>7 DEF Quiet
<1>7. ASSUME NEW g \in Gens, End(g) \/ Unlist(g) PROVE Quiet
  BY <1>0, <1>7 DEF End, Unlist, Quiet, None
<1>8. CASE UNCHANGED vars
  BY <1>0, <1>8 DEF vars, Quiet
<1>9. CASE Close
  BY <1>1, <1>9 DEF Close
<1>10. ASSUME NEW b \in flying, Unanswered(b) PROVE Quiet
  BY <1>1, <1>10 DEF Unanswered
<1> QED BY <1>2, <1>3, <1>4, <1>5, <1>6, <1>7, <1>8, <1>9, <1>10 DEF Next

\* The initial states.
LEMMA InitInv ==
  ASSUME Init
  PROVE  IInv
<1> USE DEF Init, None
<1>1. Types
  BY FS_EmptySet DEF Types, Gens
<1>2. Pooled /\ PooledNeverWaits
  BY DEF Pooled, PooledNeverWaits
<1>3. [n \in 0 .. seq |-> 0] \in [0 .. seq -> Nat]
  OBVIOUS
<1>4. Cut([n \in 0 .. seq |-> 0])
  <2> DEFINE c == [n \in 0 .. seq |-> 0]
  <2>1. seq = 0 /\ c[0] = 0 /\ DOMAIN c = 0 .. 0
    OBVIOUS
  <2>2. Rising(c)
    BY <2>1 DEF Rising
  <2>3. Waiting = <<>>
    BY DEF Waiting
  <2>4. \A g \in Gens : next[g] = 0 /\ out[g] = <<>> /\ pend[g] = {}
    OBVIOUS
  <2>5. \A g \in open : g \in Gens
    BY DEF Gens
  <2>6. \A g \in open : out[g] = Run(0, c[next[g]])
    BY <2>1, <2>4, <2>5, RunFromZero
  <2> HIDE DEF c
  <2>7. accepted = 0 /\ reqs = {} /\ Len(Waiting) = 0
    BY <2>3
  <2>8. Cut(c)
    BY <2>1, <2>2, <2>4, <2>6, <2>7 DEF Cut
  <2> QED BY <2>8 DEF c
<1> QED BY <1>1, <1>2, <1>3, <1>4 DEF IInv

\* Types are kept.
LEMMA StepTypes ==
  ASSUME IInv, [Next]_vars
  PROVE  Types'
<1> USE DEF client, wire, server
<1>0. Types
  BY DEF IInv
<1>1. CASE Quiet
  <2>1. made \in 1 .. 2 /\ made' \in made .. 2 /\ made' \in 1 .. 2
    BY <1>0, <1>1 DEF Types, Gens, Quiet
  <2>2. ch' \in Seq([id : Nat, size : Sizes]) /\ carry' \in Seq([id : Nat, size : Sizes])
    <3>1. <<>> \in Seq([id : Nat, size : Sizes])
      OBVIOUS
    <3> QED BY <1>0, <1>1, <3>1 DEF Types, Quiet
  <2>3. ASSUME NEW r \in reqs' PROVE r \in [b : {r.b}, gen : 0 .. made', pooled : BOOLEAN]
    <3>1. \/ r \in [b : {r.b}, gen : 0 .. made, pooled : BOOLEAN]
          \/ r \in [b : {r.b}, gen : 1 .. made, pooled : BOOLEAN]
      BY <1>0, <1>1 DEF Types, Quiet
    <3>2. 0 .. made \subseteq 0 .. made' /\ 1 .. made \subseteq 0 .. made'
      BY <2>1
    <3> QED BY <3>1, <3>2
  <2>4. open' \subseteq 1 .. made'
    <3> SUFFICES ASSUME NEW g \in open' PROVE g \in 1 .. made'
      OBVIOUS
    <3>1. g \in open \/ g \in made + 1 .. made'
      BY <1>1 DEF Quiet
    <3> QED BY <1>0, <2>1, <3>1 DEF Types
  <2>5. /\ UNCHANGED <<seq, accepted, next, pend, out>>
        /\ up' \in BOOLEAN /\ table' \in 0 .. made'
    BY <1>1 DEF Quiet
  <2> QED BY <1>0, <2>1, <2>2, <2>3, <2>4, <2>5 DEF Types, Gens
<1>2. CASE Write
  <2>1. PICK z \in Sizes : ch' = Append(ch, [id |-> accepted + 1, size |-> z])
    BY <1>2 DEF Write
  <2>2. ch' \in Seq([id : Nat, size : Sizes])
    BY <1>0, <2>1 DEF Types
  <2>3. accepted' \in Nat /\ UNCHANGED <<up, carry, seq, wire, server>>
    BY <1>0, <1>2 DEF Write, Types
  <2> QED BY <1>0, <2>2, <2>3 DEF Types
<1>3. CASE Take
  <2>1. PICK c \in [0 .. seq -> Nat] : Cut(c)
    BY DEF IInv
  <2>2. PICK k, b :
          /\ k \in 1 .. Len(Waiting)
          /\ reqs' = reqs \union {[b |-> b, gen |-> None, pooled |-> FALSE]}
          /\ carry' \in Seq([id : Nat, size : Sizes]) /\ ch' \in Seq([id : Nat, size : Sizes])
    BY <1>3, <2>1, TakeCuts
  <2>3. seq' \in Nat /\ UNCHANGED <<up, accepted, server>>
    BY <1>0, <1>3 DEF Take, Types
  <2>4. ASSUME NEW r \in reqs' PROVE r \in [b : {r.b}, gen : 0 .. made', pooled : BOOLEAN]
    <3>1. CASE r \in reqs
      BY <1>0, <2>3, <3>1 DEF Types
    <3>2. CASE r = [b |-> b, gen |-> None, pooled |-> FALSE]
      <4>1. 0 \in 0 .. made'
        BY <1>0, <2>3 DEF Types, Gens
      <4> QED BY <3>2, <4>1 DEF None
    <3> QED BY <2>2, <3>1, <3>2
  <2> QED BY <1>0, <2>2, <2>3, <2>4 DEF Types
<1>4. ASSUME NEW r \in reqs, Deliver(r) PROVE Types'
  <2>1. PICK c \in [0 .. seq -> Nat] : Cut(c)
    BY DEF IInv
  <2>2. /\ reqs' = reqs \ {r} /\ UNCHANGED <<client, table, open, made>>
        /\ r.gen \in 1 .. made
    BY <1>4, <2>1, DeliverMoves
  <2>3. CASE UNCHANGED <<pend, next, out>>
    BY <1>0, <2>2, <2>3 DEF Types
  <2>4. CASE ~UNCHANGED <<pend, next, out>>
    <3>1. PICK m, q :
            /\ m \in Nat
            /\ next[r.gen] + m <= seq
            /\ next' = [next EXCEPT ![r.gen] = @ + m]
            /\ pend' = [pend EXCEPT ![r.gen] = q]
            /\ q \subseteq pend[r.gen] \union {[b |-> r.b, pooled |-> r.pooled]}
            /\ r.pooled => q \subseteq pend[r.gen]
            /\ out' = IF r.gen \in open
                      THEN [out EXCEPT ![r.gen] = Run(0, c[next[r.gen] + m])]
                      ELSE out
      BY <1>4, <2>1, <2>4, DeliverMoves
    <3>2. r.gen \in Gens
      BY <1>0, <2>2 DEF Types, Gens
    <3>3. next' \in [Gens -> Nat] /\ DOMAIN pend' = Gens /\ DOMAIN out' = Gens
      BY <1>0, <3>1, <3>2 DEF Types
    <3>4. IsFiniteSet(q)
      <4>1. IsFiniteSet(pend[r.gen] \union {[b |-> r.b, pooled |-> r.pooled]})
        BY <1>0, <3>2, FS_AddElement DEF Types
      <4> QED BY <3>1, <4>1, FS_Subset
    <3>5. \A g \in Gens : IsFiniteSet(pend'[g])
      BY <1>0, <3>1, <3>2, <3>4 DEF Types
    <3> QED BY <1>0, <2>2, <3>3, <3>5 DEF Types
  <2> QED BY <2>3, <2>4
<1> QED BY <1>1, <1>2, <1>3, <1>4, StepKinds

\* The invariant about the buffers of the pool is kept, and none waits.
LEMMA StepPooled ==
  ASSUME IInv, [Next]_vars
  PROVE  Pooled' /\ PooledNeverWaits'
<1> USE DEF client, wire, server
<1>0. /\ Pooled /\ PooledNeverWaits /\ next \in [Gens -> Nat] /\ DOMAIN pend = Gens
      /\ \A r \in reqs : r.gen \in 0 .. made
      /\ made \in 1 .. 2
  BY DEF IInv, Types, Gens
<1>1. CASE Quiet
  <2>1. ASSUME NEW r \in reqs', r.gen # None, r.pooled PROVE r.b.n <= next'[r.gen]
    <3>1. next' = next
      BY <1>1 DEF Quiet
    <3>2. CASE r \in reqs
      BY <1>0, <2>1, <3>1, <3>2 DEF Pooled
    <3>3. CASE r \in [b : {r.b}, gen : 1 .. made, pooled : BOOLEAN] /\ (r.pooled => r.b.n = next[r.gen])
      <4>1. r.gen \in Gens
        BY <1>0, <3>3 DEF Gens
      <4>2. r.b.n = next[r.gen] /\ next[r.gen] \in Nat
        BY <1>0, <2>1, <3>3, <4>1
      <4> QED BY <3>1, <4>2
    <3> QED BY <1>1, <3>2, <3>3 DEF Quiet
  <2> QED BY <1>0, <1>1, <2>1 DEF Pooled, PooledNeverWaits, Quiet
<1>2. CASE Write
  BY <1>0, <1>2 DEF Pooled, PooledNeverWaits, Write
<1>3. CASE Take
  <2>1. PICK c \in [0 .. seq -> Nat] : Cut(c)
    BY DEF IInv
  <2>2. PICK b : reqs' = reqs \union {[b |-> b, gen |-> None, pooled |-> FALSE]}
    BY <1>3, <2>1, TakeCuts
  <2>3. UNCHANGED server
    BY <1>3 DEF Take
  <2> QED BY <1>0, <2>2, <2>3 DEF Pooled, PooledNeverWaits
<1>4. ASSUME NEW r \in reqs, Deliver(r) PROVE Pooled' /\ PooledNeverWaits'
  <2>1. PICK c \in [0 .. seq -> Nat] : Cut(c)
    BY DEF IInv
  <2>2. reqs' = reqs \ {r} /\ r.gen \in 1 .. made
    BY <1>4, <2>1, DeliverMoves
  <2>3. CASE UNCHANGED <<pend, next, out>>
    BY <1>0, <2>2, <2>3 DEF Pooled, PooledNeverWaits
  <2>4. CASE ~UNCHANGED <<pend, next, out>>
    <3>1. PICK m, q :
            /\ m \in Nat
            /\ next' = [next EXCEPT ![r.gen] = @ + m]
            /\ pend' = [pend EXCEPT ![r.gen] = q]
            /\ q \subseteq pend[r.gen] \union {[b |-> r.b, pooled |-> r.pooled]}
            /\ r.pooled => q \subseteq pend[r.gen]
      BY <1>4, <2>1, <2>4, DeliverMoves
    <3>2. r.gen \in Gens
      BY <1>0, <2>2 DEF Gens
    <3>3. ASSUME NEW x \in reqs, x.gen # None, x.pooled PROVE x.b.n <= next'[x.gen]
      <4>1. x.gen \in Gens
        BY <1>0, <3>3 DEF Gens, None
      <4>2. x.b.n <= next[x.gen]
        BY <1>0, <3>3 DEF Pooled
      <4>3. PICK y : y = x.b.n
        OBVIOUS
      <4>4. y \in Nat
        BY <2>1, <4>3 DEF Cut, Right, IInv, Types
      <4>5. next[x.gen] \in Nat /\ next'[x.gen] \in Nat /\ next[x.gen] <= next'[x.gen]
        BY <1>0, <3>1, <3>2, <4>1
      <4> QED BY <4>2, <4>3, <4>4, <4>5
    <3>4. ASSUME NEW e \in q PROVE ~e.pooled
      <4>1. \A x \in pend[r.gen] : ~x.pooled
        BY <1>0, <3>2 DEF PooledNeverWaits
      <4>2. CASE e \in pend[r.gen]
        BY <4>1, <4>2
      <4>3. CASE e = [b |-> r.b, pooled |-> r.pooled] /\ e \notin pend[r.gen]
        BY <3>1, <4>3
      <4> QED BY <3>1, <4>2, <4>3
    <3>5. Pooled'
      BY <2>2, <3>3 DEF Pooled
    <3>6. PooledNeverWaits'
      BY <1>0, <3>1, <3>2, <3>4 DEF PooledNeverWaits
    <3> QED BY <3>5, <3>6
  <2> QED BY <2>3, <2>4
<1> QED BY <1>1, <1>2, <1>3, <1>4, StepKinds

\* Write: the chunk that was accepted waits behind the others.
LEMMA WriteCuts ==
  ASSUME IInv, Write, NEW c \in [0 .. seq -> Nat], Cut(c)
  PROVE  Cut(c)'
<1> USE DEF client, wire, server
<1>0. seq \in Nat /\ accepted \in Nat /\ c[seq] \in Nat
  BY DEF IInv, Types
<1>1. /\ up /\ accepted' = accepted + 1
      /\ UNCHANGED <<up, carry, seq, reqs, open, made, next, pend, out>>
  BY DEF Write
<1>2. PICK z \in Sizes : ch' = Append(ch, [id |-> accepted + 1, size |-> z])
  BY DEF Write
<1>3. /\ Len(Waiting') = Len(Waiting) + 1 /\ Len(Waiting) \in Nat
      /\ \A j \in 1 .. Len(Waiting) : Waiting'[j] = Waiting[j]
      /\ Waiting'[Len(Waiting) + 1].id = accepted + 1
  <2> DEFINE Chunk == [id : Nat, size : Sizes]
             x == [id |-> accepted + 1, size |-> z]
  <2>1. ch \in Seq(Chunk) /\ carry \in Seq(Chunk) /\ x \in Chunk /\ x.id = accepted + 1
    BY <1>0 DEF IInv, Types
  <2>2. Waiting = carry \o ch /\ Waiting' = carry \o Append(ch, x)
    BY <1>1, <1>2 DEF Waiting
  <2> HIDE DEF Chunk, x
  <2>3. carry \o Append(ch, x) = Append(carry \o ch, x) /\ carry \o ch \in Seq(Chunk)
    BY <2>1
  <2> QED BY <2>1, <2>2, <2>3
<1>4. \A j \in 1 .. Len(Waiting') : Waiting'[j].id = c[seq] + j
  <2>1. c[seq] + Len(Waiting) = accepted /\ \A j \in 1 .. Len(Waiting) : Waiting[j].id = c[seq] + j
    BY <1>1 DEF Cut
  <2> SUFFICES ASSUME NEW j \in 1 .. Len(Waiting') PROVE Waiting'[j].id = c[seq] + j
    OBVIOUS
  <2>2. CASE j \in 1 .. Len(Waiting)
    BY <1>3, <2>1, <2>2
  <2>3. CASE j = Len(Waiting) + 1
    BY <1>0, <1>3, <2>1, <2>3
  <2> QED BY <1>3, <2>2, <2>3
<1>5. c[seq] + Len(Waiting') = accepted' /\ c[seq] <= accepted'
  <2>1. c[seq] + Len(Waiting) = accepted
    BY <1>1 DEF Cut
  <2>2. Len(Waiting') = Len(Waiting) + 1 /\ Len(Waiting) \in Nat /\ accepted' = accepted + 1
    BY <1>1, <1>3
  <2> QED BY <1>0, <2>1, <2>2
<1>6. \A b : Right(c, b) => Right(c, b)'
  BY <1>1 DEF Right
<1>7. (\A r \in reqs' : Right(c, r.b)') /\ (\A g \in Gens : \A e \in pend'[g] : Right(c, e.b)')
  BY <1>1, <1>6 DEF Cut
<1> QED BY <1>1, <1>4, <1>5, <1>7 DEF Cut, Rising

\* Take: one cut more.
LEMMA TakeAddsCut ==
  ASSUME IInv, Take, NEW c \in [0 .. seq -> Nat], Cut(c)
  PROVE  \E d \in [0 .. seq' -> Nat] : Cut(d)'
<1> USE DEF client, wire, server
<1>1. PICK k, b :
           /\ k \in 1 .. Len(Waiting)
           /\ b.n = seq /\ b.ids = Run(c[seq], c[seq] + k)
           /\ reqs' = reqs \union {[b |-> b, gen |-> None, pooled |-> FALSE]}
           /\ Len(Waiting') = Len(Waiting) - k
           /\ \A j \in 1 .. Len(Waiting) - k : Waiting'[j] = Waiting[k + j]
  BY TakeCuts
<1>2. up /\ seq' = seq + 1 /\ UNCHANGED <<up, accepted, open, made, next, pend, out>>
  BY DEF Take
<1>3. /\ seq \in Nat /\ seq' \in Nat /\ accepted \in Nat /\ c[seq] \in Nat
      /\ made \in 1 .. 2 /\ open \subseteq Gens /\ next \in [Gens -> Nat]
  BY <1>2 DEF IInv, Types, Gens
<1>4. Len(Waiting) \in Nat
  <2>1. Waiting \in Seq([id : Nat, size : Sizes])
    BY DEF IInv, Types, Waiting
  <2> QED BY <2>1
<1>5. k \in Nat /\ k >= 1 /\ Len(Waiting) - k \in Nat
  BY <1>1, <1>4
<1>6. PICK d \in [0 .. seq' -> Nat] :
         DOMAIN d = 0 .. seq' /\ d[seq'] = c[seq] + k /\ \A n \in 0 .. seq : d[n] = c[n]
  <2> DEFINE more == [n \in 0 .. seq' |-> IF n = seq' THEN c[seq] + k ELSE c[n]]
  <2>1. more \in [0 .. seq' -> Nat] /\ DOMAIN more = 0 .. seq' /\ more[seq'] = c[seq] + k
    BY <1>2, <1>3, <1>5
  <2>2. \A n \in 0 .. seq : more[n] = c[n]
    BY <1>2, <1>3
  <2> HIDE DEF more
  <2> QED BY <2>1, <2>2
<1>7. Rising(d)
  <2> SUFFICES ASSUME NEW m \in 0 .. seq', NEW n \in 0 .. seq', m < n PROVE d[m] < d[n]
    BY <1>6 DEF Rising
  <2>1. m \in 0 .. seq /\ d[m] = c[m] /\ c[m] \in Nat
    BY <1>2, <1>3, <1>6
  <2>2. CASE n \in 0 .. seq
    BY <1>6, <2>1, <2>2 DEF Cut, Rising
  <2>3. CASE n = seq'
    <3>1. c[m] <= c[seq]
      <4>1. CASE m = seq
        BY <1>3, <4>1
      <4>2. CASE m # seq
        <5>1. m < seq /\ seq \in DOMAIN c /\ m \in DOMAIN c
          BY <1>3, <2>1, <4>2
        <5>2. c[m] < c[seq]
          BY <5>1 DEF Cut, Rising
        <5> QED BY <1>3, <2>1, <5>2
      <4> QED BY <4>1, <4>2
    <3>2. d[n] = c[seq] + k
      BY <1>6, <2>3
    <3> QED BY <1>3, <1>5, <2>1, <3>1, <3>2
  <2> QED BY <1>2, <1>3, <2>2, <2>3
<1>8. d[0] = 0
  BY <1>3, <1>6 DEF Cut
<1>9. /\ d[seq'] + Len(Waiting') = accepted' /\ d[seq'] <= accepted'
      /\ \A j \in 1 .. Len(Waiting') : Waiting'[j].id = d[seq'] + j
  <2>1. /\ c[seq] + Len(Waiting) = accepted
        /\ \A j \in 1 .. Len(Waiting) : Waiting[j].id = c[seq] + j
    BY <1>2 DEF Cut
  <2>2. ASSUME NEW j \in 1 .. Len(Waiting') PROVE Waiting'[j].id = d[seq'] + j
    <3>1. j \in 1 .. Len(Waiting) - k /\ k + j \in 1 .. Len(Waiting)
      BY <1>1, <1>4, <1>5
    <3>2. Waiting'[j].id = c[seq] + (k + j)
      BY <1>1, <2>1, <3>1
    <3> QED BY <1>3, <1>5, <1>6, <3>1, <3>2
  <2>3. d[seq'] + Len(Waiting') = accepted' /\ d[seq'] <= accepted'
    BY <1>1, <1>2, <1>3, <1>4, <1>5, <1>6, <2>1
  <2> QED BY <2>2, <2>3
<1>10. ASSUME NEW x, Right(c, x) PROVE Right(d, x)'
  BY <1>2, <1>3, <1>6, <1>10, RightStays
<1>11. Right(d, b)'
  <2>1. seq \in 0 .. seq /\ seq \in 0 .. seq' - 1
    BY <1>2, <1>3
  <2>2. d[b.n] = c[seq] /\ d[b.n + 1] = c[seq] + k
    BY <1>1, <1>2, <1>6, <2>1
  <2> QED BY <1>1, <2>1, <2>2 DEF Right, Piece
<1>12. ASSUME NEW r \in reqs' PROVE Right(d, r.b)'
  <2>1. CASE r \in reqs
    <3>1. Right(c, r.b)
      BY <2>1 DEF Cut
    <3> QED BY <1>10, <3>1
  <2>2. CASE r = [b |-> b, gen |-> None, pooled |-> FALSE]
    <3>1. r.b = b
      BY <2>2
    <3> QED BY <1>11, <3>1
  <2> QED BY <1>1, <2>1, <2>2
<1>13. ASSUME NEW g \in Gens, NEW e \in pend'[g] PROVE Right(d, e.b)'
  <2>1. Right(c, e.b)
    BY <1>2 DEF Cut
  <2> QED BY <1>10, <2>1
<1>14. \A g \in Gens : next'[g] <= seq' /\ d[next'[g]] = c[next[g]]
  <2> SUFFICES ASSUME NEW g \in Gens PROVE next'[g] <= seq' /\ d[next'[g]] = c[next[g]]
    OBVIOUS
  <2>1. next[g] \in Nat /\ next[g] <= seq
    BY <1>3 DEF Cut
  <2>2. next[g] \in 0 .. seq
    BY <1>3, <2>1
  <2> QED BY <1>2, <1>3, <1>6, <2>1, <2>2
<1>15. \A g \in open' : out'[g] = Run(0, d[next'[g]])
  BY <1>2, <1>3, <1>14 DEF Cut
<1>16. \A g \in Gens : g > made' => next'[g] = 0 /\ out'[g] = <<>>
  BY <1>2 DEF Cut
<1>17. Cut(d)'
  BY <1>7, <1>8, <1>9, <1>12, <1>13, <1>14, <1>15, <1>16 DEF Cut, Rising
<1> QED BY <1>6, <1>17

\* Deliver: the same cuts, and what the generation has yielded ends at one.
LEMMA DeliverKeepsCuts ==
  ASSUME IInv, NEW r \in reqs, Deliver(r), NEW c \in [0 .. seq -> Nat], Cut(c)
  PROVE  Cut(c)'
<1> USE DEF client
<1>1. /\ reqs' = reqs \ {r} /\ UNCHANGED <<client, table, open, made>>
      /\ r.gen \in 1 .. made
  BY DeliverMoves
<1>2. /\ made \in 1 .. 2 /\ open \subseteq 1 .. made /\ next \in [Gens -> Nat] /\ seq \in Nat
      /\ DOMAIN pend = Gens /\ DOMAIN out = Gens
  BY DEF IInv, Types, Gens
<1>3. CASE UNCHANGED <<pend, next, out>>
  <2>1. up' => up /\ UNCHANGED <<ch, carry>>
    BY <1>1
  <2>2. made' \in made .. 2
    BY <1>1, <1>2
  <2>3. \A x \in reqs' : \E y \in reqs : x.b = y.b
    BY <1>1
  <2>4. \A g \in open' : g \in open \/ g \in made + 1 .. 2
    BY <1>1
  <2>5. UNCHANGED <<seq, accepted, next, pend, out>>
    BY <1>1, <1>3
  <2> QED BY <2>1, <2>2, <2>3, <2>4, <2>5, SameCuts
<1>4. CASE ~UNCHANGED <<pend, next, out>>
  <2>1. PICK m, q :
          /\ m \in Nat
          /\ next[r.gen] + m <= seq
          /\ next' = [next EXCEPT ![r.gen] = @ + m]
          /\ pend' = [pend EXCEPT ![r.gen] = q]
          /\ q \subseteq pend[r.gen] \union {[b |-> r.b, pooled |-> r.pooled]}
          /\ r.pooled => q \subseteq pend[r.gen]
          /\ out' = IF r.gen \in open
                    THEN [out EXCEPT ![r.gen] = Run(0, c[next[r.gen] + m])]
                    ELSE out
    BY <1>4, DeliverMoves
  <2>2. r.gen \in Gens /\ ~(r.gen > made)
    BY <1>1, <1>2 DEF Gens
  <2>3. \A b : Right(c, b) => Right(c, b)'
    BY <1>1 DEF Right
  <2>4. \A x \in reqs' : Right(c, x.b)'
    BY <1>1, <2>3 DEF Cut
  <2>5. ASSUME NEW g \in Gens, NEW e \in pend'[g] PROVE Right(c, e.b)'
    <3>1. Right(c, e.b)
      <4>1. CASE e \in pend[g]
        BY <4>1 DEF Cut
      <4>2. CASE g = r.gen /\ e = [b |-> r.b, pooled |-> r.pooled]
        <5>1. e.b = r.b
          BY <4>2
        <5> QED BY <5>1 DEF Cut
      <4> QED BY <1>2, <2>1, <2>2, <4>1, <4>2
    <3> QED BY <2>3, <3>1
  <2>6. \A g \in Gens : next'[g] <= seq'
    BY <1>1, <1>2, <2>1, <2>2 DEF Cut
  <2>7. ASSUME NEW g \in open' PROVE out'[g] = Run(0, c[next'[g]])
    <3>1. g \in Gens /\ g \in open
      BY <1>1, <1>2 DEF Gens
    <3>2. CASE g = r.gen
      BY <1>2, <2>1, <2>2, <3>1, <3>2
    <3>3. CASE g # r.gen
      <4>1. out'[g] = out[g] /\ next'[g] = next[g]
        BY <1>2, <2>1, <2>2, <3>1, <3>3
      <4> QED BY <3>1, <4>1 DEF Cut
    <3> QED BY <3>2, <3>3
  <2>8. ASSUME NEW g \in Gens, g > made' PROVE next'[g] = 0 /\ out'[g] = <<>>
    <3>1. g # r.gen /\ g > made
      BY <1>1, <2>2, <2>8
    <3>2. out'[g] = out[g] /\ next'[g] = next[g]
      BY <1>2, <2>1, <2>2, <3>1
    <3> QED BY <3>1, <3>2 DEF Cut
  <2>9. /\ c[seq'] <= accepted'
        /\ up' => /\ c[seq'] + Len(Waiting') = accepted'
                  /\ \A j \in 1 .. Len(Waiting') : Waiting'[j].id = c[seq'] + j
    BY <1>1 DEF Cut, Waiting
  <2>10. c[0] = 0 /\ Rising(c)
    BY DEF Cut
  <2> QED BY <2>4, <2>5, <2>6, <2>7, <2>8, <2>9, <2>10 DEF Cut, Rising
<1> QED BY <1>3, <1>4

\* The stream stays cut at some places.
LEMMA StepCuts ==
  ASSUME IInv, [Next]_vars
  PROVE  \E d \in [0 .. seq' -> Nat] : Cut(d)'
<1>1. PICK c \in [0 .. seq -> Nat] : Cut(c)
  BY DEF IInv
<1>2. CASE Quiet
  <2>1. up' => up /\ UNCHANGED <<ch, carry>>
    BY <1>2 DEF Quiet
  <2>2. made' \in made .. 2 /\ made \in 1 .. 2
    BY <1>2 DEF Quiet, IInv, Types, Gens
  <2>3. \A x \in reqs' : \E y \in reqs : x.b = y.b
    BY <1>2 DEF Quiet
  <2>4. \A g \in open' : g \in open \/ g \in made + 1 .. 2
    BY <1>2, <2>2 DEF Quiet
  <2>5. UNCHANGED <<seq, accepted, next, pend, out>>
    BY <1>2 DEF Quiet
  <2>6. Cut(c)'
    BY <1>1, <2>1, <2>2, <2>3, <2>4, <2>5, SameCuts
  <2> QED BY <2>5, <2>6
<1>3. CASE Write
  <2>1. Cut(c)' /\ seq' = seq
    BY <1>1, <1>3, WriteCuts DEF Write
  <2> QED BY <2>1
<1>4. CASE Take
  BY <1>1, <1>4, TakeAddsCut
<1>5. ASSUME NEW r \in reqs, Deliver(r) PROVE \E d \in [0 .. seq' -> Nat] : Cut(d)'
  <2>1. Cut(c)' /\ seq' = seq
    BY <1>1, <1>5, DeliverKeepsCuts DEF Deliver, client
  <2> QED BY <2>1
<1> QED BY <1>2, <1>3, <1>4, <1>5, StepKinds

----------------------------------------------------------------------------
(* The theorems.                                                           *)

\* The inductive invariant holds in every reachable state.
LEMMA UpInvariant == Spec => []IInv
<1>1. IInv /\ [Next]_vars => IInv'
  BY StepTypes, StepPooled, StepCuts DEF IInv
<1> QED BY <1>1, InitInv, PTL DEF Spec

\* A batch whose body was read into a buffer of the pool never waits behind a gap, where the
\* buffer's next user would overwrite it: whatever other handlers deliver between the POST
\* handler's call of due and its call of deliver (httpcarrier.go, stripe.go).
THEOREM PoolBuffersNeverWait == Spec => []PooledNeverWaits
<1>1. IInv => PooledNeverWaits
  BY DEF IInv
<1> QED BY <1>1, UpInvariant, PTL

\* What one step does to the stream of one generation.
LEMMA StepPipe ==
  ASSUME IInv, [Next]_vars, NEW g \in Gens
  PROVE  \/ accepted' = accepted + 1 /\ out'[g] = out[g]
         \/ \E k \in Len(out[g]) + 1 .. accepted : out'[g] = [j \in 1 .. k |-> j] /\ accepted' = accepted
         \/ accepted' = accepted /\ out'[g] = out[g]
<1> USE DEF client, wire, server
<1>1. CASE Quiet
  BY <1>1 DEF Quiet
<1>2. CASE Write
  BY <1>2 DEF Write
<1>3. CASE Take
  BY <1>3 DEF Take
<1>4. ASSUME NEW r \in reqs, Deliver(r), out'[g] # out[g]
      PROVE  \E k \in Len(out[g]) + 1 .. accepted : out'[g] = [j \in 1 .. k |-> j]
  <2>1. PICK c \in [0 .. seq -> Nat] : Cut(c)
    BY DEF IInv
  <2>2. PICK m, q :
          /\ m \in Nat
          /\ next[r.gen] + m <= seq
          /\ next' = [next EXCEPT ![r.gen] = @ + m]
          /\ pend' = [pend EXCEPT ![r.gen] = q]
          /\ q \subseteq pend[r.gen] \union {[b |-> r.b, pooled |-> r.pooled]}
          /\ r.pooled => q \subseteq pend[r.gen]
          /\ out' = IF r.gen \in open
                    THEN [out EXCEPT ![r.gen] = Run(0, c[next[r.gen] + m])]
                    ELSE out
    BY <1>4, <2>1, DeliverMoves
  <2>3. /\ DOMAIN out = Gens /\ next \in [Gens -> Nat] /\ seq \in Nat /\ accepted \in Nat
        /\ c[seq] <= accepted
    BY <2>1 DEF IInv, Types, Cut
  <2>4. g = r.gen /\ g \in open
    BY <1>4, <2>2, <2>3
  <2> DEFINE k == c[next[g] + m]
  <2>5. out'[g] = Run(0, k) /\ out[g] = Run(0, c[next[g]])
    BY <2>1, <2>2, <2>3, <2>4 DEF Cut
  <2>6. m # 0
    BY <1>4, <2>3, <2>5
  <2>7. next[g] \in 0 .. seq /\ next[g] + m \in 0 .. seq /\ next[g] < next[g] + m
    BY <2>2, <2>3, <2>4, <2>6
  <2>8. c[next[g]] \in Nat /\ k \in Nat /\ c[seq] \in Nat
    BY <2>3, <2>7
  <2>9. c[next[g]] < k /\ k <= c[seq]
    <3>1. c[next[g]] < k
      BY <2>1, <2>7 DEF Cut, Rising
    <3>2. CASE next[g] + m = seq
      BY <2>8, <3>1, <3>2
    <3>3. CASE next[g] + m < seq
      <4>1. k < c[seq]
        BY <2>1, <2>3, <2>7, <3>3 DEF Cut, Rising
      <4> QED BY <2>8, <3>1, <4>1
    <3> QED BY <2>3, <2>7, <3>2, <3>3
  <2> HIDE DEF k
  <2>10. k \in c[next[g]] + 1 .. accepted
    BY <2>3, <2>8, <2>9
  <2>11. Len(out[g]) = c[next[g]] /\ out'[g] = [j \in 1 .. k |-> j]
    BY <2>5, <2>8, RunFromZero
  <2> QED BY <2>10, <2>11
<1>5. ASSUME NEW r \in reqs, Deliver(r) PROVE accepted' = accepted
  BY <1>5 DEF Deliver
<1> QED BY <1>1, <1>2, <1>3, <1>4, <1>5, StepKinds

\* Both generations of a POST session yield the client's stream from its beginning, in order,
\* nothing twice and nothing left out: the numbered batches of httpcUp.next and the reorder
\* buffer of reseq implement FifoPipe, for any number of workers, sizes and limits, and
\* whatever the edge loses, delays or repeats.
THEOREM PostsImplementPipe == Spec => ImplementsPipe
<1>1. Init => First!Init /\ Second!Init
  BY DEF Init, First!Init, Second!Init, Gens
<1>2. ASSUME IInv, [Next]_vars
      PROVE  [First!Next]_<<accepted, out[1]>>
  <2>1. 1 \in Gens
    BY DEF Gens
  <2> QED BY <1>2, <2>1, StepPipe DEF First!Next, First!Accept, First!Yield
<1>3. ASSUME IInv, [Next]_vars
      PROVE  [Second!Next]_<<accepted, out[2]>>
  <2>1. 2 \in Gens
    BY DEF Gens
  <2> QED BY <1>3, <2>1, StepPipe DEF Second!Next, Second!Accept, Second!Yield
<1> QED BY <1>1, <1>2, <1>3, UpInvariant, PTL DEF Spec, ImplementsPipe, First!Spec, Second!Spec
=============================================================================
