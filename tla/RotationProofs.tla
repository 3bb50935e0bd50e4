--------------------------- MODULE RotationProofs ---------------------------
(***************************************************************************)
(* Proofs about Rotation, for pools of any sizes, any backoffs and rungs    *)
(* and any verdicts: reading a pool never moves it, the carrier is where    *)
(* its pools say, and the ladder is charged for the path that was measured, *)
(* on rungs that were spent on the pair it walks off.                       *)
(*                                                                         *)
(* currentLocked moves a cursor that nothing committed.  That it never does *)
(* is a matter of history: a pool in which nothing was ever committed is    *)
(* still on its first entry and no other entry was ever condemned, because  *)
(* no report has ever named another one (Seen).  Once there is a choice it  *)
(* stays, and the cursor with it (Settled).                                 *)
(***************************************************************************)
EXTENDS Rotation, FiniteSetTheorems, SequenceTheorems, WellFoundedInduction, TLAPS

Recs == {NoRec} \union [state : {Suspect}, fails : 0 .. Len(SuspectBackoff) - 1, wait : Nat]
                \union [state : {Dead}, fails : {Len(SuspectBackoff)}, wait : Nat]

\* The pools of n entries.
Pools(n) == [cur : 0 .. n - 1, chosen : {NoEntry} \union (0 .. n - 1), live : 0 .. n - 1,
             rec : [0 .. n - 1 -> Recs]]

\* A pool never committed: on its first entry, and nothing was condemned but that entry
\* where there is no other.
Untouched(p, n) == /\ p.chosen = NoEntry /\ p.cur = 0
                   /\ n = 1 \/ \A i \in 0 .. n - 1 : p.rec[i] = NoRec

Settled(p, n) == p.live = p.cur /\ (p.chosen = p.cur \/ Untouched(p, n))

\* What a method may make of a pool p: a settled pool, which does not forget a choice.
Becomes(p, q, n) == /\ q \in Pools(n) /\ Settled(q, n)
                    /\ q.chosen = NoEntry => p.chosen = NoEntry

----------------------------------------------------------------------------
(* The pools.                                                              *)

\* The least-number principle, for sets.
LEMMA LeastNatural ==
  ASSUME NEW T, T \subseteq Nat, T # {}
  PROVE  \E x \in T : \A y \in T : x <= y
<1> DEFINE R == OpToRel(<, Nat)
<1>1. IsWellFoundedOn(R, Nat)
  BY NatLessThanWellFounded, Zenon
<1>2. \A x, y \in Nat : x < y => <<x, y>> \in R
  BY DEF OpToRel
<1> HIDE DEF R
<1>3. PICK x \in T : \A y \in T : ~(<<y, x>> \in R)
  BY <1>1, WFMin
<1>4. \A y \in T : x <= y
  <2> SUFFICES ASSUME NEW y \in T, ~(x <= y) PROVE FALSE
    OBVIOUS
  <2>1. x \in Nat /\ y \in Nat /\ y < x
    OBVIOUS
  <2>2. <<y, x>> \in R
    BY <1>2, <2>1, Zenon
  <2> QED BY <1>3, <2>2
<1> QED BY <1>4

\* The least member of a set of numbers.
LEMMA MinLeast ==
  ASSUME NEW T, T \subseteq Nat, T # {}
  PROVE  Min(T) \in T /\ \A y \in T : Min(T) <= y
BY LeastNatural DEF Min

\* Going round a pool: a position, and the same position a lap later.
LEMMA Round ==
  ASSUME NEW n \in Nat \ {0}, NEW t \in 0 .. n - 1
  PROVE  t % n = t /\ (t + n) % n = t
OBVIOUS

\* The size of a pool.
LEMMA SizeIs ==
  ASSUME NEW n \in Nat \ {0}, NEW p \in Pools(n)
  PROVE  Size(p) = n /\ DOMAIN p.rec = 0 .. n - 1
<1>1. DOMAIN p.rec = 0 .. n - 1
  BY DEF Pools
<1>2. Cardinality(0 .. n - 1) = n
  BY FS_Interval
<1> QED BY <1>1, <1>2 DEF Size

\* Going round finds a member of a nonempty set, and the entry itself first.
LEMMA FirstFromFinds ==
  ASSUME NEW n \in Nat \ {0}, NEW p \in Pools(n), NEW at \in 0 .. n - 1, NEW from \in {0, 1},
         NEW s, s \subseteq 0 .. n - 1, s # {}
  PROVE  /\ FirstFrom(p, at, from, s) \in s
         /\ (from = 0 /\ at \in s) => FirstFrom(p, at, from, s) = at
<1> DEFINE K == {k \in from .. from + n - 1 : ((at + k) % n) \in s}
<1>1. FirstFrom(p, at, from, s) = (at + Min(K)) % n
  BY SizeIs DEF FirstFrom
<1>2. K # {}
  <2>1. PICK t \in s : t \in 0 .. n - 1
    OBVIOUS
  <2>2. CASE t - at >= from
    <3>1. t - at \in from .. from + n - 1 /\ at + (t - at) = t
      BY <2>1, <2>2
    <3>2. (at + (t - at)) % n = t
      BY <2>1, <3>1, Round
    <3> QED BY <2>1, <3>1, <3>2
  <2>3. CASE ~(t - at >= from)
    <3>1. t - at + n \in from .. from + n - 1 /\ at + (t - at + n) = t + n
      BY <2>1, <2>3
    <3>2. (at + (t - at + n)) % n = t
      BY <2>1, <3>1, Round
    <3> QED BY <2>1, <3>1, <3>2
  <2> QED BY <2>2, <2>3
<1>3. K \subseteq Nat /\ \A k \in K : ((at + k) % n) \in s
  OBVIOUS
<1>4. (from = 0 /\ at \in s) => 0 \in K
  BY Round
<1> HIDE DEF K
<1>5. Min(K) \in K /\ \A y \in K : Min(K) <= y
  BY <1>2, <1>3, MinLeast
<1>6. ASSUME from = 0, at \in s PROVE FirstFrom(p, at, from, s) = at
  <2>1. Min(K) \in Nat /\ Min(K) <= 0
    BY <1>3, <1>4, <1>5, <1>6
  <2>2. Min(K) = 0 /\ at + 0 = at
    BY <2>1
  <2> QED BY <1>1, <2>2, Round
<1> QED BY <1>1, <1>3, <1>5, <1>6

\* Every entry of a pool has a tier and a wait, by which bestIdxLocked finds one.
LEMMA BestIdxFinds ==
  ASSUME NEW n \in Nat \ {0}, NEW p \in Pools(n)
  PROVE  BestIdx(p) \in 0 .. n - 1
<1> DEFINE D == 0 .. n - 1
           t(i) == Tier(p, i)
           w(i) == Wait(p, i)
<1>1. DOMAIN p.rec = D
  BY SizeIs
<1>2. \A i \in D : t(i) \in Nat /\ w(i) \in Nat
  BY DEF Pools, Recs, NoRec, Tier, Wait
<1> HIDE DEF t, w
<1> DEFINE T == {t(i) : i \in D}
<1>3. PICK x \in T : \A y \in T : x <= y
  <2>1. T \subseteq Nat /\ T # {}
    BY <1>2
  <2> HIDE DEF T
  <2> QED BY <2>1, LeastNatural
<1> DEFINE A == {i \in D : t(i) = x}
           W == {w(i) : i \in A}
<1>4. PICK z \in W : \A y \in W : z <= y
  <2>1. W \subseteq Nat /\ W # {}
    BY <1>2, <1>3
  <2> HIDE DEF W
  <2> QED BY <2>1, LeastNatural
<1> DEFINE B == {i \in A : w(i) = z}
<1>5. PICK b \in B : \A y \in B : b <= y
  <2>1. B \subseteq Nat /\ B # {}
    BY <1>4
  <2> HIDE DEF B
  <2> QED BY <2>1, LeastNatural
<1>6. ASSUME NEW j \in D PROVE ~Sooner(p, j, b) /\ (~Sooner(p, b, j) => b <= j)
  <2>1. b \in D /\ t(b) = x /\ w(b) = z /\ x \in Nat /\ z \in Nat /\ t(j) \in Nat /\ w(j) \in Nat
    BY <1>2, <1>5
  <2>2. x <= t(j) /\ (t(j) = x => z <= w(j))
    BY <1>3, <1>4
  <2>3. ~(t(j) < t(b) \/ (t(j) = t(b) /\ w(j) < w(b)))
    BY <2>1, <2>2
  <2>4. ASSUME ~(t(b) < t(j) \/ (t(b) = t(j) /\ w(b) < w(j))) PROVE b <= j
    <3>1. t(j) = x /\ w(j) = z
      BY <2>1, <2>2, <2>4
    <3>2. j \in B
      BY <3>1
    <3> HIDE DEF B
    <3> QED BY <1>5, <3>2
  <2>5. /\ Sooner(p, j, b) <=> (t(j) < t(b) \/ (t(j) = t(b) /\ w(j) < w(b)))
        /\ Sooner(p, b, j) <=> (t(b) < t(j) \/ (t(b) = t(j) /\ w(b) < w(j)))
    BY DEF Sooner, t, w
  <2> HIDE DEF B
  <2> QED BY <2>3, <2>4, <2>5
<1>7. b \in DOMAIN p.rec
  BY <1>1, <1>5
<1>8. \A j \in DOMAIN p.rec : ~Sooner(p, j, b) /\ (~Sooner(p, b, j) => b <= j)
  BY <1>1, <1>6
<1> QED BY <1>1, <1>7, <1>8 DEF BestIdx

\* The sets of entries by which the next one is chosen.
LEMMA EntrySets ==
  ASSUME NEW n \in Nat \ {0}, NEW p \in Pools(n)
  PROVE  {Healthy(p), Due(p), Eligible(p)} \subseteq SUBSET (0 .. n - 1)
BY SizeIs DEF Healthy, Due, Eligible

\* nextFrom yields an entry.
LEMMA NextFromFinds ==
  ASSUME NEW n \in Nat \ {0}, NEW p \in Pools(n), NEW at \in 0 .. n - 1
  PROVE  NextFrom(p, at) \in 0 .. n - 1 /\ (Healthy(p) # {} => NextFrom(p, at) \in Healthy(p))
<1>1. Healthy(p) \subseteq 0 .. n - 1 /\ Due(p) \subseteq 0 .. n - 1
  BY EntrySets
<1>2. CASE Healthy(p) # {}
  BY <1>1, <1>2, FirstFromFinds DEF NextFrom
<1>3. CASE Healthy(p) = {} /\ Due(p) # {}
  <2>1. FirstFrom(p, at, 1, Due(p)) \in Due(p)
    BY <1>1, <1>3, FirstFromFinds
  <2> QED BY <1>1, <1>3, <2>1 DEF NextFrom
<1>4. CASE Healthy(p) = {} /\ Due(p) = {}
  BY <1>4, BestIdxFinds DEF NextFrom, SoonestBut
<1> QED BY <1>2, <1>3, <1>4

\* A committed pool is settled.
LEMMA CommitSettles ==
  ASSUME NEW n \in Nat \ {0}, NEW p \in Pools(n), NEW i \in 0 .. n - 1
  PROVE  /\ Commit(p, i) \in Pools(n) /\ Settled(Commit(p, i), n)
         /\ Commit(p, i).cur = i /\ Commit(p, i).chosen = i /\ Commit(p, i).chosen # NoEntry
<1>1. Commit(p, i) = [p EXCEPT !.cur = i, !.chosen = i, !.live = i]
  BY DEF Commit
<1>2. [p EXCEPT !.cur = i, !.chosen = i, !.live = i] \in Pools(n)
  BY DEF Pools
<1>3. /\ Commit(p, i).cur = i /\ Commit(p, i).chosen = i /\ Commit(p, i).live = i
  BY <1>1 DEF Pools
<1>4. i # NoEntry
  BY DEF NoEntry
<1> QED BY <1>1, <1>2, <1>3, <1>4 DEF Settled

\* burn, whoever calls it, keeps the records within the steps of the backoff.
LEMMA BurnType ==
  ASSUME NEW n \in Nat \ {0}, NEW p \in Pools(n), NEW i \in 0 .. n - 1
  PROVE  /\ Burn(p, i) \in Pools(n)
         /\ Burn(p, i).cur = p.cur /\ Burn(p, i).chosen = p.chosen /\ Burn(p, i).live = p.live
         /\ \A j \in 0 .. n - 1 : j # i => Burn(p, i).rec[j] = p.rec[j]
         /\ Burn(p, i).rec[i] # NoRec
<1> DEFINE L == Len(SuspectBackoff)
           r == p.rec[i]
           q == IF r = NoRec THEN [state |-> Suspect, fails |-> 0, wait |-> SuspectBackoff[1]]
                ELSE IF r.wait = 0 THEN RetestBackoff(r) ELSE r
<1>1. L \in Nat /\ L >= 1 /\ DeadRetest \in Nat /\ \A k \in 1 .. L : SuspectBackoff[k] \in Nat
  BY BackoffAssumption
<1>2. r \in Recs /\ p.rec \in [0 .. n - 1 -> Recs]
  BY DEF Pools
<1> HIDE DEF r
<1>3. q \in Recs
  <2>1. CASE r = NoRec
    BY <1>1, <2>1 DEF Recs
  <2>2. CASE r # NoRec /\ r.wait = 0 /\ r.state = Dead
    BY <1>1, <1>2, <2>2 DEF Recs, RetestBackoff, Suspect, Dead
  <2>3. CASE r # NoRec /\ r.wait = 0 /\ r.state # Dead
    <3>1. r.fails \in 0 .. L - 1 /\ r.state = Suspect
      BY <1>2, <2>3 DEF Recs
    <3>2. CASE r.fails + 1 >= L
      BY <1>1, <2>3, <3>1, <3>2 DEF Recs, RetestBackoff
    <3>3. CASE ~(r.fails + 1 >= L)
      <4>1. r.fails + 2 \in 1 .. L /\ r.fails + 1 \in 0 .. L - 1
        BY <1>1, <3>1, <3>3
      <4>2. SuspectBackoff[r.fails + 2] \in Nat
        BY <1>1, <4>1
      <4> QED BY <2>3, <3>3, <4>1, <4>2 DEF Recs, RetestBackoff
    <3> QED BY <3>2, <3>3
  <2>4. CASE r # NoRec /\ r.wait # 0
    BY <1>2, <2>4
  <2> QED BY <2>1, <2>2, <2>3, <2>4
<1>4. Burn(p, i) = [p EXCEPT !.rec[i] = q]
  BY DEF Burn, r
<1>5. q # NoRec
  BY DEF NoRec, RetestBackoff, Suspect, Dead
<1> HIDE DEF q
<1> QED BY <1>2, <1>3, <1>4, <1>5 DEF Pools

\* currentLocked on a settled pool: a read, and no move.
LEMMA CurrentStays ==
  ASSUME NEW n \in Nat \ {0}, NEW p \in Pools(n), Settled(p, n)
  PROVE  Current(p) = p
<1>1. CASE p.chosen = p.cur
  <2>1. p.chosen # NoEntry
    BY <1>1 DEF Pools, NoEntry
  <2> QED BY <1>1, <2>1 DEF Current
<1>2. CASE Untouched(p, n)
  <2>1. p.chosen = NoEntry /\ p.cur = 0 /\ p.live = 0 /\ 0 \in 0 .. n - 1
    BY <1>2 DEF Untouched, Settled
  <2>2. Pick(p, 0) = p
    BY <2>1 DEF Pick, Pools
  <2>3. Healthy(p) \subseteq 0 .. n - 1 /\ Due(p) \subseteq 0 .. n - 1
    BY EntrySets
  <2>4. CASE n = 1
    <3>1. \A i \in 0 .. n - 1 : i = 0
      BY <2>4
    <3>2. Healthy(p) # {} => FirstFrom(p, p.cur, 0, Healthy(p)) = 0
      BY <2>1, <2>3, <3>1, FirstFromFinds
    <3>3. Due(p) # {} => FirstFrom(p, p.cur, 0, Due(p)) = 0
      BY <2>1, <2>3, <3>1, FirstFromFinds
    <3>4. BestIdx(p) = 0
      BY <3>1, BestIdxFinds
    <3> QED BY <2>2, <3>2, <3>3, <3>4 DEF Current
  <2>5. CASE \A i \in 0 .. n - 1 : p.rec[i] = NoRec
    <3>1. 0 \in Healthy(p)
      BY <2>1, <2>5, SizeIs DEF Healthy
    <3>2. FirstFrom(p, p.cur, 0, Healthy(p)) = 0
      BY <2>1, <2>3, <3>1, FirstFromFinds
    <3>3. p.chosen # p.cur
      BY <2>1 DEF NoEntry
    <3> QED BY <2>2, <3>1, <3>2, <3>3 DEF Current
  <2> QED BY <1>2, <2>4, <2>5 DEF Untouched
<1> QED BY <1>1, <1>2 DEF Settled

\* fail: the entry is condemned, and the pool commits to another or stays.
LEMMA FailBecomes ==
  ASSUME NEW n \in Nat \ {0}, NEW p \in Pools(n), Settled(p, n)
  PROVE  Becomes(p, Fail(p), n)
<1> DEFINE q == Burn(p, p.cur)
           i == NextFrom(q, q.cur)
<1>0. p.cur \in 0 .. n - 1
  BY DEF Pools
<1>1. /\ q \in Pools(n) /\ q.cur = p.cur /\ q.chosen = p.chosen /\ q.live = p.live
      /\ \A j \in 0 .. n - 1 : j # p.cur => q.rec[j] = p.rec[j]
      /\ q.rec[p.cur] # NoRec
  BY <1>0, BurnType
<1>2. Fail(p) = IF i # q.cur THEN Commit(q, i) ELSE q
  BY DEF Fail, AdvanceFail
<1> HIDE DEF q
<1>3. i \in 0 .. n - 1 /\ (Healthy(q) # {} => i \in Healthy(q))
  BY <1>0, <1>1, NextFromFinds
<1>4. CASE i # q.cur
  <2> HIDE DEF i
  <2> QED BY <1>1, <1>2, <1>3, <1>4, CommitSettles DEF Becomes
<1>5. CASE i = q.cur
  <2>1. Fail(p) = q
    BY <1>2, <1>5
  <2>2. CASE p.chosen = p.cur
    BY <1>1, <2>1, <2>2 DEF Becomes, Settled
  <2>3. CASE Untouched(p, n) /\ n = 1
    BY <1>1, <2>1, <2>3 DEF Becomes, Settled, Untouched
  <2>4. CASE Untouched(p, n) /\ n # 1
    <3>1. p.cur = 0 /\ 1 \in 0 .. n - 1 /\ q.rec[1] = NoRec
      BY <1>1, <2>4 DEF Untouched
    <3>2. 1 \in Healthy(q) /\ ~(q.cur \in Healthy(q))
      BY <1>1, <3>1, SizeIs DEF Healthy
    <3> QED BY <1>3, <1>5, <3>2
  <2> QED BY <2>2, <2>3, <2>4 DEF Settled
<1> QED BY <1>4, <1>5

\* rotateOnce: another eligible entry, or none.
LEMMA RotateOnceBecomes ==
  ASSUME NEW n \in Nat \ {0}, NEW p \in Pools(n), Settled(p, n)
  PROVE  Becomes(p, RotateOnce(p), n)
<1> DEFINE s == Eligible(p) \ {p.cur}
<1>1. p.cur \in 0 .. n - 1 /\ s \subseteq 0 .. n - 1
  BY EntrySets DEF Pools
<1>2. RotateOnce(p) = IF s # {} THEN Commit(p, FirstFrom(p, p.cur, 1, s)) ELSE p
  BY DEF RotateOnce, AdvanceEligible
<1> HIDE DEF s
<1>3. CASE s # {}
  <2>1. FirstFrom(p, p.cur, 1, s) \in 0 .. n - 1
    BY <1>1, <1>3, FirstFromFinds
  <2> QED BY <1>2, <1>3, <2>1, CommitSettles DEF Becomes
<1>4. CASE s = {}
  BY <1>2, <1>4 DEF Becomes
<1> QED BY <1>3, <1>4

\* rejectCandidate: the cursor is committed to where it was.
LEMMA RejectBecomes ==
  ASSUME NEW n \in Nat \ {0}, NEW p \in Pools(n), NEW prev \in 0 .. n - 1
  PROVE  /\ Becomes(p, RejectCandidate(p, prev), n)
         /\ RejectCandidate(p, prev).cur = prev
<1> DEFINE q == IF p.cur # prev THEN Burn(p, p.cur) ELSE p
<1>1. q \in Pools(n)
  BY BurnType DEF Pools
<1> HIDE DEF q
<1>2. RejectCandidate(p, prev) = Commit(q, prev)
  BY DEF RejectCandidate, q
<1> QED BY <1>1, <1>2, CommitSettles DEF Becomes

\* A record that is cleared, retested or runs on: nothing is condemned by it.
LEMMA MilderBecomes ==
  ASSUME NEW n \in Nat \ {0}, NEW p \in Pools(n), Settled(p, n), NEW f \in [0 .. n - 1 -> Recs],
         \A i \in 0 .. n - 1 : p.rec[i] = NoRec => f[i] = NoRec
  PROVE  LET q == [p EXCEPT !.rec = f]
         IN  Becomes(p, q, n) /\ q.cur = p.cur /\ q.chosen = p.chosen /\ q.live = p.live /\ q.rec = f
<1> DEFINE q == [p EXCEPT !.rec = f]
<1>1. q \in Pools(n) /\ q.cur = p.cur /\ q.chosen = p.chosen /\ q.live = p.live /\ q.rec = f
  BY DEF Pools
<1> HIDE DEF q
<1>2. Settled(q, n)
  BY <1>1 DEF Settled, Untouched
<1> QED BY <1>1, <1>2 DEF Becomes, q

\* clear.
LEMMA ClearBecomes ==
  ASSUME NEW n \in Nat \ {0}, NEW p \in Pools(n), Settled(p, n), NEW i \in 0 .. n - 1
  PROVE  Becomes(p, Clear(p, i), n) /\ Clear(p, i).cur = p.cur /\ Clear(p, i).live = p.live
<1> DEFINE f == [p.rec EXCEPT ![i] = NoRec]
<1>1. f \in [0 .. n - 1 -> Recs] /\ \A j \in 0 .. n - 1 : p.rec[j] = NoRec => f[j] = NoRec
  BY DEF Pools, Recs
<1>2. Clear(p, i) = [p EXCEPT !.rec = f]
  BY DEF Clear
<1> HIDE DEF f
<1> QED BY <1>1, <1>2, MilderBecomes

\* The source moved: all destinations are healthy again.
LEMMA RestoreAllBecomes ==
  ASSUME NEW n \in Nat \ {0}, NEW p \in Pools(n), Settled(p, n)
  PROVE  Becomes(p, RestoreAll(p), n) /\ RestoreAll(p).cur = p.cur /\ RestoreAll(p).live = p.live
<1> DEFINE f == [i \in 0 .. n - 1 |-> NoRec]
<1>1. f \in [0 .. n - 1 -> Recs] /\ \A j \in 0 .. n - 1 : p.rec[j] = NoRec => f[j] = NoRec
  BY DEF Recs
<1>2. RestoreAll(p) = [p EXCEPT !.rec = f]
  BY SizeIs DEF RestoreAll
<1> HIDE DEF f
<1> QED BY <1>1, <1>2, MilderBecomes

\* retestNow.
LEMMA RetestBecomes ==
  ASSUME NEW n \in Nat \ {0}, NEW p \in Pools(n), Settled(p, n), NEW i \in 0 .. n - 1
  PROVE  Becomes(p, RetestNow(p, i), n) /\ RetestNow(p, i).cur = p.cur /\ RetestNow(p, i).live = p.live
<1> DEFINE f == [p.rec EXCEPT ![i] = IF @ = NoRec THEN @ ELSE [@ EXCEPT !.wait = 0]]
<1>1. f \in [0 .. n - 1 -> Recs] /\ \A j \in 0 .. n - 1 : p.rec[j] = NoRec => f[j] = NoRec
  BY DEF Pools, Recs
<1>2. RetestNow(p, i) = [p EXCEPT !.rec = f]
  BY DEF RetestNow
<1> HIDE DEF f
<1> QED BY <1>1, <1>2, MilderBecomes

\* Time passes.
LEMMA ElapseBecomes ==
  ASSUME NEW n \in Nat \ {0}, NEW p \in Pools(n), Settled(p, n)
  PROVE  Becomes(p, Elapse(p), n) /\ Elapse(p).cur = p.cur /\ Elapse(p).live = p.live
<1> DEFINE f == [i \in 0 .. n - 1 |-> IF p.rec[i] = NoRec \/ p.rec[i].wait = 0 THEN p.rec[i]
                                     ELSE [p.rec[i] EXCEPT !.wait = @ - 1]]
<1>1. f \in [0 .. n - 1 -> Recs]
  <2> SUFFICES ASSUME NEW i \in 0 .. n - 1 PROVE f[i] \in Recs
    OBVIOUS
  <2>1. p.rec[i] \in Recs
    BY DEF Pools
  <2> QED BY <2>1 DEF Recs
<1>2. \A j \in 0 .. n - 1 : p.rec[j] = NoRec => f[j] = NoRec
  OBVIOUS
<1>3. Elapse(p) = [p EXCEPT !.rec = f]
  BY SizeIs DEF Elapse
<1> HIDE DEF f
<1> QED BY <1>1, <1>2, <1>3, MilderBecomes

\* markSuspect of an entry the cursor is not on, once there is a choice.
LEMMA MarkBecomes ==
  ASSUME NEW n \in Nat \ {0}, NEW p \in Pools(n), Settled(p, n), NEW i \in 0 .. n - 1,
         p.chosen # NoEntry
  PROVE  /\ Becomes(p, MarkSuspect(p, i), n)
         /\ MarkSuspect(p, i).cur = p.cur /\ MarkSuspect(p, i).live = p.live
         /\ i # p.cur => MarkSuspect(p, i).rec[p.cur] = p.rec[p.cur]
<1>1. p.chosen = p.cur /\ p.live = p.cur /\ p.cur \in 0 .. n - 1
  BY DEF Settled, Untouched, Pools
<1>2. /\ Burn(p, i) \in Pools(n)
      /\ Burn(p, i).cur = p.cur /\ Burn(p, i).chosen = p.chosen /\ Burn(p, i).live = p.live
      /\ \A j \in 0 .. n - 1 : j # i => Burn(p, i).rec[j] = p.rec[j]
  BY BurnType
<1> QED BY <1>1, <1>2 DEF MarkSuspect, Becomes, Settled

\* selectEntry.
LEMMA SelectBecomes ==
  ASSUME NEW n \in Nat \ {0}, NEW p \in Pools(n), Settled(p, n), NEW i \in 0 .. n - 1
  PROVE  /\ Becomes(p, SelectEntry(p, i), n)
         /\ SelectEntry(p, i).cur = i /\ SelectEntry(p, i).chosen # NoEntry
BY ClearBecomes, CommitSettles DEF SelectEntry, Becomes

\* landSource: whatever binds, the pool it leaves is settled.  The loop is a recursive
\* function; that there is one, and what holds of it, is shown for the least round that fails.
LEMMA LandSourceBecomes ==
  ASSUME NEW n \in Nat \ {0}, NEW p \in Pools(n), Settled(p, n), NEW b
  PROVE  /\ Becomes(p, LandSource(p, b).pool, n)
         /\ LandSource(p, b).bound \in BOOLEAN
<1> DEFINE Step(s) == LET q == Current(s.pool)
                      IN  IF s.ended THEN s
                          ELSE IF q.cur \in b THEN [pool |-> q, bound |-> TRUE, ended |-> TRUE]
                          ELSE [pool |-> Fail(q), bound |-> FALSE, ended |-> Fail(q).cur = q.cur]
           base == [pool |-> p, bound |-> FALSE, ended |-> FALSE]
           Law(f) == f = [k \in 0 .. n |-> IF k = 0 THEN base ELSE Step(f[k - 1])]
           Upto(f, k) == /\ DOMAIN f = 0 .. k /\ f = [j \in 0 .. k |-> f[j]]
                         /\ f[0] = base /\ \A j \in 1 .. k : f[j] = Step(f[j - 1])
           f == CHOOSE h : Law(h)
<1>1. LandSource(p, b) = f[n]
  BY SizeIs DEF LandSource
<1> HIDE DEF Step, base
<1>2. \E h : Upto(h, n)
  <2> DEFINE Bad == {k \in 0 .. n : ~\E h : Upto(h, k)}
  <2>1. SUFFICES ASSUME Bad # {} PROVE FALSE
    OBVIOUS
  <2>2. Bad \subseteq 0 .. n /\ Bad \subseteq Nat
    OBVIOUS
  <2>3. \A k \in Bad : ~\E h : Upto(h, k)
    OBVIOUS
  <2>4. \A k \in 0 .. n : k \notin Bad => \E h : Upto(h, k)
    OBVIOUS
  <2> HIDE DEF Bad
  <2>5. PICK k \in Bad : \A y \in Bad : k <= y
    BY <2>1, <2>2, LeastNatural
  <2>6. k # 0
    <3>1. Upto([j \in 0 .. 0 |-> base], 0)
      OBVIOUS
    <3> HIDE DEF Upto
    <3> QED BY <2>3, <3>1
  <2>7. k - 1 \in 0 .. n /\ k - 1 \notin Bad /\ k \in Nat
    BY <2>2, <2>5, <2>6
  <2>8. PICK g : Upto(g, k - 1)
    BY <2>4, <2>7
  <2> DEFINE h == [j \in 0 .. k |-> IF j = k THEN Step(g[k - 1]) ELSE g[j]]
  <2>9. h[0] = base /\ h[k] = Step(g[k - 1]) /\ \A j \in 0 .. k - 1 : h[j] = g[j]
    BY <2>6, <2>7, <2>8
  <2>10. DOMAIN h = 0 .. k /\ h = [j \in 0 .. k |-> h[j]]
    OBVIOUS
  <2> HIDE DEF h
  <2>11. ASSUME NEW j \in 1 .. k PROVE h[j] = Step(h[j - 1])
    <3>1. j - 1 \in 0 .. k - 1 /\ h[j - 1] = g[j - 1]
      BY <2>7, <2>9
    <3>2. CASE j = k
      BY <2>9, <3>1, <3>2
    <3>3. CASE j # k
      <4>1. j \in 1 .. k - 1 /\ h[j] = g[j]
        BY <2>7, <2>9, <3>3
      <4>2. g[j] = Step(g[j - 1])
        BY <2>8, <4>1
      <4> QED BY <3>1, <4>1, <4>2
    <3> QED BY <3>2, <3>3
  <2>12. Upto(h, k)
    BY <2>9, <2>10, <2>11
  <2> HIDE DEF Upto
  <2> QED BY <2>3, <2>5, <2>12
<1>3. Law(f)
  <2>1. PICK h : Upto(h, n)
    BY <1>2
  <2>2. \A j \in 0 .. n : h[j] = IF j = 0 THEN base ELSE Step(h[j - 1])
    <3>1. \A j \in 0 .. n : j = 0 \/ j \in 1 .. n
      OBVIOUS
    <3> QED BY <2>1, <3>1
  <2>3. Law(h)
    BY <2>1, <2>2
  <2> HIDE DEF Law
  <2> QED BY <2>3
<1> HIDE DEF f
<1>4. f[0] = base /\ \A j \in 1 .. n : f[j] = Step(f[j - 1])
  <2>1. \A j \in 0 .. n : f[j] = IF j = 0 THEN base ELSE Step(f[j - 1])
    BY <1>3
  <2>2. 0 \in 0 .. n /\ \A j \in 1 .. n : j \in 0 .. n /\ j # 0
    OBVIOUS
  <2> QED BY <2>1, <2>2
<1> HIDE DEF Law, Upto
<1> DEFINE Fine(s) == Becomes(p, s.pool, n) /\ s.bound \in BOOLEAN
<1>5. Fine(base)
  BY DEF Becomes, base
<1>6. ASSUME NEW s, Fine(s) PROVE Fine(Step(s))
  <2>1. s.pool \in Pools(n) /\ Settled(s.pool, n)
    BY <1>6 DEF Becomes
  <2>2. Current(s.pool) = s.pool
    BY <2>1, CurrentStays
  <2>3. Becomes(s.pool, Fail(s.pool), n)
    BY <2>1, FailBecomes
  <2>4. Becomes(p, Fail(s.pool), n)
    BY <1>6, <2>3 DEF Becomes
  <2> QED BY <1>6, <2>2, <2>4 DEF Step
<1> DEFINE Bad == {j \in 0 .. n : ~Fine(f[j])}
<1>7. Bad \subseteq Nat /\ Bad \subseteq 0 .. n
  OBVIOUS
<1>8. \A j \in 0 .. n : j \in Bad <=> ~Fine(f[j])
  OBVIOUS
<1> HIDE DEF Bad, Fine
<1>9. Bad = {}
  <2> SUFFICES ASSUME Bad # {} PROVE FALSE
    OBVIOUS
  <2>1. PICK j \in Bad : \A y \in Bad : j <= y
    BY <1>7, LeastNatural
  <2>2. j # 0
    BY <1>4, <1>5, <1>7, <1>8, <2>1
  <2>3. j \in 1 .. n /\ j - 1 \in 0 .. n /\ j - 1 \notin Bad
    BY <1>7, <2>1, <2>2
  <2> QED BY <1>4, <1>6, <1>7, <1>8, <2>1, <2>3
<1> QED BY <1>1, <1>8, <1>9 DEF Fine

----------------------------------------------------------------------------
(* The invariant, for pools of n destinations and m sources.               *)

Spots(n, m) == (0 .. n - 1) \X (0 .. m - 1)
Reports(n, m) == {Nothing} \union [low : 0 .. n - 1, high : 0 .. m - 1, fresh : BOOLEAN, old : BOOLEAN]

PoolTypes(n, m) == /\ low \in Pools(n) /\ high \in Pools(m)
                   /\ Settled(low, n) /\ Settled(high, m)

CarrierTypes(n, m) == /\ bound \in -1 .. m - 1 /\ active \in 0 .. n - 1
                      /\ {claim, asked, dirty, lost} \subseteq BOOLEAN
                      /\ ticks \in 0 .. MaxTicks /\ outside \in 0 .. MaxOutside

ReportTypes(n, m) ==
  /\ draft \in Spots(n, m) \union {NoPair} /\ snap \in Reports(n, m)
  /\ mail \in [cmd : {"none", "ok", "fail"}, about : Reports(n, m)]
  /\ mail.cmd # "none" => mail.about # Nothing

LadderTypes(n, m) ==
  /\ od \in [rot : 0 .. n, want : 0 .. n, tick : 0 .. n]
  /\ port \in 0 .. PortTries /\ session \in {0, 1}
  /\ revive \in [armed : BOOLEAN, wait : Nat, step : 0 .. Len(Revive)]
  /\ accused \in Spots(n, m) \union {NoPair} /\ spentFor \subseteq Spots(n, m)

\* No status and no verdict names an entry other than the first of a pool that is untouched.
Seen == /\ low.chosen = NoEntry => {draft[1], snap.low, mail.about.low} \subseteq {-1, 0}
        /\ high.chosen = NoEntry => {draft[2], snap.high, mail.about.high} \subseteq {-1, 0}

\* A report that still counts as fresh is about the path in use, or the tracker has not seen
\* the change yet.
Measured == /\ snap.fresh /\ snap.old => dirty
            /\ mail.about.fresh /\ mail.about.old => dirty

\* The rungs that are spent were spent for the pair the ladder accuses.
OwnRungs == spentFor \subseteq {accused}

Inv(n, m) == /\ PoolTypes(n, m) /\ CarrierTypes(n, m) /\ ReportTypes(n, m) /\ LadderTypes(n, m)
             /\ Seen /\ Measured /\ OwnRungs /\ LandedWhereThePoolsSay

IInv == \E n, m \in Nat \ {0} : Inv(n, m)

\* A settled pool becomes itself.
LEMMA BecomesItself ==
  ASSUME NEW n, NEW p \in Pools(n), Settled(p, n)
  PROVE  Becomes(p, p, n)
BY DEF Becomes

\* Two calls after each other.
LEMMA BecomesThen ==
  ASSUME NEW n, NEW p, NEW q, NEW r, Becomes(p, q, n), Becomes(q, r, n)
  PROVE  Becomes(p, r, n)
BY DEF Becomes

\* Where a landing on another source leaves the carrier: bound to it, or back where it was.
LEMMA RotateHighLands ==
  ASSUME NEW n \in Nat \ {0}, NEW m \in Nat \ {0}, Inv(n, m),
         NEW p, Becomes(high, p, m), RotateHigh(p)
  PROVE  /\ Becomes(high, high', m)
         /\ lost' \/ bound' = high'.live
         /\ bound' \in -1 .. m - 1 /\ lost' \in BOOLEAN
<1>1. /\ high \in Pools(m) /\ Settled(high, m) /\ (lost \/ bound = high.live) /\ high.live = high.cur
      /\ bound \in -1 .. m - 1 /\ lost \in BOOLEAN /\ high.cur \in 0 .. m - 1
  BY DEF Inv, PoolTypes, CarrierTypes, LandedWhereThePoolsSay, Pools
<1>2. p \in Pools(m) /\ p.live = p.cur /\ p.live \in 0 .. m - 1
  BY DEF Becomes, Settled, Pools
<1>3. CASE p.cur # high.cur /\ high' = p /\ bound' = p.live /\ lost' = FALSE
  <2>1. bound' = high'.live /\ bound' \in -1 .. m - 1
    BY <1>2, <1>3
  <2>2. Becomes(high, high', m) /\ lost' \in BOOLEAN
    BY <1>3
  <2> QED BY <2>1, <2>2
<1>4. CASE high' = RejectCandidate(p, high.cur) /\ UNCHANGED <<bound, lost>>
  <2>1. Becomes(p, high', m) /\ high'.cur = high.cur
    BY <1>1, <1>2, <1>4, RejectBecomes
  <2>2. high'.live = high'.cur
    BY <2>1 DEF Becomes, Settled
  <2>3. Becomes(high, high', m)
    BY <2>1, BecomesThen
  <2> QED BY <1>1, <1>4, <2>1, <2>2, <2>3
<1>5. CASE p.cur = high.cur /\ high' = p /\ UNCHANGED <<bound, lost>>
  BY <1>1, <1>2, <1>5
<1> QED BY <1>3, <1>4, <1>5 DEF RotateHigh

\* A verdict that names entries names entries of the pools.
LEMMA Named ==
  ASSUME NEW n \in Nat \ {0}, NEW m \in Nat \ {0}, Inv(n, m), mail.cmd # "none"
  PROVE  mail.about.low \in 0 .. n - 1 /\ mail.about.high \in 0 .. m - 1
BY DEF Inv, ReportTypes, Reports

\* The pools after a walk.
LEMMA WalkPools ==
  ASSUME NEW n \in Nat \ {0}, NEW m \in Nat \ {0}, Inv(n, m), Walk
  PROVE  /\ Becomes(low, low', n) /\ low'.cur = Fail(low).cur
         /\ Becomes(high, high', m)
         /\ lost' \/ bound' = high'.live
         /\ bound' \in -1 .. m - 1 /\ lost' \in BOOLEAN
<1>1. PoolTypes(n, m) /\ CarrierTypes(n, m) /\ LandedWhereThePoolsSay
  BY DEF Inv
<1>2. Becomes(low, Fail(low), n) /\ Becomes(high, Fail(high), m)
  BY <1>1, FailBecomes DEF PoolTypes
<1>3. Becomes(low, low', n) /\ low'.cur = Fail(low).cur
  <2>1. low' = Fail(low) \/ low' = RestoreAll(Fail(low))
    BY DEF Walk
  <2>2. /\ Becomes(Fail(low), RestoreAll(Fail(low)), n)
        /\ RestoreAll(Fail(low)).cur = Fail(low).cur
    BY <1>2, RestoreAllBecomes DEF Becomes
  <2> QED BY <1>2, <2>1, <2>2, BecomesThen
<1>4. CASE Lap
  <2>1. RotateHigh(Fail(high))
    BY <1>4 DEF Walk
  <2> QED BY <1>2, <1>3, <2>1, RotateHighLands
<1>5. CASE ~Lap
  <2>1. UNCHANGED <<high, bound, lost>>
    BY <1>5 DEF Walk
  <2> QED BY <1>1, <1>3, <2>1, BecomesItself DEF PoolTypes, CarrierTypes, LandedWhereThePoolsSay
<1> QED BY <1>4, <1>5

\* Every step makes settled pools of settled pools, and forgets no choice.
LEMMA StepPools ==
  ASSUME NEW n \in Nat \ {0}, NEW m \in Nat \ {0}, Inv(n, m), [Next]_vars
  PROVE  Becomes(low, low', n) /\ Becomes(high, high', m)
<1>0. low \in Pools(n) /\ high \in Pools(m) /\ Settled(low, n) /\ Settled(high, m)
  BY DEF Inv, PoolTypes
<1>1. CASE UNCHANGED <<low, high>>
  BY <1>0, <1>1, BecomesItself
<1>2. CASE WritePair
  BY <1>0, <1>2, CurrentStays, BecomesItself DEF WritePair
<1>3. CASE Tick
  BY <1>0, <1>3, ElapseBecomes DEF Tick
<1>4. CASE JudgeOk
  <2>1. mail.about.low \in 0 .. n - 1 /\ mail.about.high \in 0 .. m - 1
    BY <1>4, Named DEF JudgeOk
  <2> QED BY <1>0, <1>4, <2>1, ClearBecomes DEF JudgeOk
<1>5. CASE JudgeGone
  <2>1. mail.about.low \in 0 .. n - 1 /\ mail.about.high \in 0 .. m - 1
    BY <1>5, Named DEF JudgeGone, Blamed
  <2>2. CASE HighGone /\ ~LowGone
    <3>1. high.chosen # NoEntry
      BY <1>0, <2>1, <2>2 DEF Inv, Seen, HighGone, Settled, Untouched, Pools, NoEntry
    <3> QED BY <1>0, <1>5, <2>1, <2>2, <3>1, MarkBecomes, BecomesItself DEF JudgeGone
  <2>3. CASE ~(HighGone /\ ~LowGone)
    <3>1. LowGone
      BY <1>5, <2>3 DEF JudgeGone
    <3>2. low.chosen # NoEntry
      BY <1>0, <2>1, <3>1 DEF Inv, Seen, LowGone, Settled, Untouched, Pools, NoEntry
    <3> QED BY <1>0, <1>5, <2>1, <2>3, <3>2, MarkBecomes, BecomesItself DEF JudgeGone
  <2> QED BY <2>2, <2>3
<1>6. CASE JudgeClimb
  BY <1>0, <1>6, WalkPools, BecomesItself DEF JudgeClimb, SpendPort, SpendSession, SpendWalk, walkVars
<1>7. CASE Rotate
  <2>1. Becomes(low, RotateOnce(low), n) /\ Becomes(high, RotateOnce(high), m)
    BY <1>0, RotateOnceBecomes
  <2>2. low' = RotateOnce(low) /\ (RotateHigh(RotateOnce(high)) \/ UNCHANGED high)
    BY <1>7 DEF Rotate
  <2> QED BY <1>0, <2>1, <2>2, RotateHighLands, BecomesItself
<1>8. CASE OpRetest
  <2>1. DOMAIN low.rec = 0 .. n - 1 /\ DOMAIN high.rec = 0 .. m - 1
    BY <1>0, SizeIs
  <2> QED BY <1>0, <1>8, <2>1, RetestBecomes, BecomesItself DEF OpRetest
<1>9. CASE OpSelectLow
  <2>1. DOMAIN low.rec = 0 .. n - 1
    BY <1>0, SizeIs
  <2> QED BY <1>0, <1>9, <2>1, SelectBecomes, BecomesItself DEF OpSelectLow
<1>10. CASE OpSelectHigh
  <2>1. DOMAIN high.rec = 0 .. m - 1
    BY <1>0, SizeIs
  <2>2. PICK i \in 0 .. m - 1, b \in Bindable(high) :
           high' = SelectEntry(high, i) \/ high' = LandSource(SelectEntry(high, i), b).pool
    BY <1>10, <2>1 DEF OpSelectHigh
  <2>3. Becomes(high, SelectEntry(high, i), m)
    BY <1>0, SelectBecomes
  <2>4. Becomes(SelectEntry(high, i), LandSource(SelectEntry(high, i), b).pool, m)
    BY <2>3, LandSourceBecomes DEF Becomes
  <2>5. UNCHANGED low
    BY <1>10 DEF OpSelectHigh
  <2> QED BY <1>0, <2>2, <2>3, <2>4, <2>5, BecomesThen, BecomesItself
<1>11. CASE WriteEpoch \/ TrackerTick \/ NewSession \/ NodeVerdict \/ JudgeStale \/ JudgeElsewhere
  BY <1>1, <1>11 DEF WriteEpoch, TrackerTick, NewSession, NodeVerdict, JudgeStale, JudgeElsewhere
<1>12. CASE UNCHANGED vars
  BY <1>1, <1>12 DEF vars
<1> QED BY <1>2, <1>3, <1>4, <1>5, <1>6, <1>7, <1>8, <1>9, <1>10, <1>11, <1>12 DEF Next, Judge

\* The steps that are no landing leave the cursors and the carrier where they are.
LEMMA Stays ==
  ASSUME NEW n \in Nat \ {0}, NEW m \in Nat \ {0}, Inv(n, m),
         \/ WritePair \/ WriteEpoch \/ TrackerTick \/ NewSession \/ NodeVerdict \/ Tick
         \/ JudgeStale \/ JudgeOk \/ JudgeGone \/ JudgeElsewhere \/ OpRetest
         \/ SpendPort \/ SpendSession
  PROVE  low'.cur = low.cur /\ high'.cur = high.cur /\ UNCHANGED <<bound, active, lost>>
<1>0. low \in Pools(n) /\ high \in Pools(m) /\ Settled(low, n) /\ Settled(high, m)
  BY DEF Inv, PoolTypes
<1>1. CASE WritePair
  BY <1>0, <1>1, CurrentStays DEF WritePair
<1>2. CASE Tick
  BY <1>0, <1>2, ElapseBecomes DEF Tick
<1>3. CASE JudgeOk
  <2>1. mail.about.low \in 0 .. n - 1 /\ mail.about.high \in 0 .. m - 1
    BY <1>3, Named DEF JudgeOk
  <2> QED BY <1>0, <1>3, <2>1, ClearBecomes DEF JudgeOk
<1>4. CASE JudgeGone
  <2>1. mail.about.low \in 0 .. n - 1 /\ mail.about.high \in 0 .. m - 1
    BY <1>4, Named DEF JudgeGone, Blamed
  <2>2. /\ MarkSuspect(low, mail.about.low).cur = low.cur
        /\ MarkSuspect(high, mail.about.high).cur = high.cur
    BY <1>0, <2>1, BurnType DEF MarkSuspect
  <2>3. low' \in {low, MarkSuspect(low, mail.about.low)} /\ high' \in {high, MarkSuspect(high, mail.about.high)}
    BY <1>4 DEF JudgeGone
  <2>4. UNCHANGED <<bound, active, lost>>
    BY <1>4 DEF JudgeGone
  <2> QED BY <2>2, <2>3, <2>4
<1>5. CASE OpRetest
  <2>1. DOMAIN low.rec = 0 .. n - 1 /\ DOMAIN high.rec = 0 .. m - 1
    BY <1>0, SizeIs
  <2> QED BY <1>0, <1>5, <2>1, RetestBecomes DEF OpRetest
<1>6. CASE SpendPort \/ SpendSession
  BY <1>6 DEF SpendPort, SpendSession, walkVars
<1>7. CASE WriteEpoch \/ TrackerTick \/ NewSession \/ NodeVerdict \/ JudgeStale \/ JudgeElsewhere
  BY <1>7 DEF WriteEpoch, TrackerTick, NewSession, NodeVerdict, JudgeStale, JudgeElsewhere
<1> QED BY <1>1, <1>2, <1>3, <1>4, <1>5, <1>6, <1>7

\* rotatePeerUDP and adoptPeerUDP land on the destination the cursor is on.
LEMMA LandLowLands ==
  ASSUME NEW n \in Nat \ {0}, NEW m \in Nat \ {0}, Inv(n, m),
         NEW p, Becomes(low, p, n), NEW hard \in BOOLEAN, LandLow(p, hard)
  PROVE  active' = p.cur /\ active' \in 0 .. n - 1 /\ asked' \in BOOLEAN
<1>1. p.live = p.cur /\ p.cur \in 0 .. n - 1
  BY DEF Becomes, Settled, Pools
<1>2. active = low.cur /\ asked \in BOOLEAN
  BY DEF Inv, CarrierTypes, LandedWhereThePoolsSay
<1> QED BY <1>1, <1>2 DEF LandLow

\* After every step the carrier is where its pools say.
LEMMA StepLanded ==
  ASSUME NEW n \in Nat \ {0}, NEW m \in Nat \ {0}, Inv(n, m), [Next]_vars
  PROVE  /\ LandedWhereThePoolsSay'
         /\ bound' \in -1 .. m - 1 /\ active' \in 0 .. n - 1 /\ lost' \in BOOLEAN
<1>0. /\ active = low.cur /\ high.live = high.cur /\ (lost \/ bound = high.cur)
      /\ bound \in -1 .. m - 1 /\ active \in 0 .. n - 1 /\ lost \in BOOLEAN
      /\ low \in Pools(n) /\ high \in Pools(m) /\ Settled(low, n) /\ Settled(high, m)
  BY DEF Inv, CarrierTypes, LandedWhereThePoolsSay, PoolTypes
<1>1. /\ low'.live = low'.cur /\ high'.live = high'.cur
      /\ low'.cur \in 0 .. n - 1 /\ high'.cur \in 0 .. m - 1
  BY StepPools DEF Becomes, Settled, Pools
<1> DEFINE Goal == /\ active' = low'.cur /\ (lost' \/ bound' = high'.cur)
                   /\ bound' \in -1 .. m - 1 /\ lost' \in BOOLEAN
<1>2. SUFFICES Goal
  BY <1>1 DEF LandedWhereThePoolsSay
<1>3. CASE low'.cur = low.cur /\ high'.cur = high.cur /\ UNCHANGED <<bound, active, lost>>
  BY <1>0, <1>3
<1>4. CASE \/ WritePair \/ WriteEpoch \/ TrackerTick \/ NewSession \/ NodeVerdict \/ Tick
           \/ JudgeStale \/ JudgeOk \/ JudgeGone \/ JudgeElsewhere \/ OpRetest
           \/ SpendPort \/ SpendSession
  BY <1>3, <1>4, Stays
<1>5. CASE Walk
  <2>1. /\ Becomes(low, Fail(low), n) /\ LandLow(Fail(low), TRUE) /\ low'.cur = Fail(low).cur
        /\ lost' \/ bound' = high'.live
        /\ bound' \in -1 .. m - 1 /\ lost' \in BOOLEAN
    BY <1>0, <1>5, WalkPools, FailBecomes DEF Walk
  <2>2. active' = Fail(low).cur
    BY <2>1, LandLowLands
  <2> QED BY <1>1, <2>1, <2>2
<1>6. CASE Rotate
  <2>1. Becomes(low, RotateOnce(low), n) /\ Becomes(high, RotateOnce(high), m)
    BY <1>0, RotateOnceBecomes
  <2>2. low' = RotateOnce(low) /\ LandLow(RotateOnce(low), FALSE)
    BY <1>6 DEF Rotate
  <2>3. active' = low'.cur
    BY <2>1, <2>2, LandLowLands
  <2>4. CASE RotateHigh(RotateOnce(high))
    <3>1. /\ lost' \/ bound' = high'.live
          /\ bound' \in -1 .. m - 1 /\ lost' \in BOOLEAN
      BY <2>1, <2>4, RotateHighLands
    <3> QED BY <1>1, <2>3, <3>1
  <2>5. CASE UNCHANGED <<high, bound, lost>>
    BY <1>0, <2>3, <2>5
  <2> QED BY <1>6, <2>4, <2>5 DEF Rotate
<1>7. CASE OpSelectLow
  <2>1. DOMAIN low.rec = 0 .. n - 1
    BY <1>0, SizeIs
  <2>2. PICK i \in 0 .. n - 1 : low' = SelectEntry(low, i) /\ LandLow(low', TRUE)
    BY <1>7, <2>1 DEF OpSelectLow
  <2>3. Becomes(low, low', n)
    BY StepPools
  <2>4. active' = low'.cur
    <3>1. PICK p : p = low'
      OBVIOUS
    <3>2. LandLow(p, TRUE) /\ Becomes(low, p, n)
      BY <2>2, <2>3, <3>1
    <3> QED BY <3>1, <3>2, LandLowLands
  <2>5. UNCHANGED <<high, bound, lost>>
    BY <1>7 DEF OpSelectLow
  <2> QED BY <1>0, <2>4, <2>5
<1>8. CASE OpSelectHigh
  <2>1. DOMAIN high.rec = 0 .. m - 1
    BY <1>0, SizeIs
  <2>2. PICK i \in 0 .. m - 1, b \in Bindable(high) :
           LET landed == LandSource(SelectEntry(high, i), b)
           IN IF i = high.cur THEN high' = SelectEntry(high, i) /\ UNCHANGED <<bound, lost>>
              ELSE /\ high' = landed.pool
                   /\ bound' = IF landed.bound THEN high'.live ELSE bound
                   /\ lost' = ~landed.bound
    BY <1>8, <2>1 DEF OpSelectHigh
  <2>3. UNCHANGED <<low, active>>
    BY <1>8 DEF OpSelectHigh
  <2>4. CASE i = high.cur
    <3>1. SelectEntry(high, i).cur = i
      BY <1>0, SelectBecomes
    <3> QED BY <1>0, <2>2, <2>3, <2>4, <3>1
  <2>5. CASE i # high.cur
    <3> DEFINE ok == LandSource(SelectEntry(high, i), b).bound
    <3>1. bound' = (IF ok THEN high'.live ELSE bound) /\ lost' = ~ok
      BY <2>2, <2>5
    <3> HIDE DEF ok
    <3>2. lost' \in BOOLEAN /\ (lost' \/ bound' = high'.live) /\ bound' \in {bound, high'.live}
      BY <3>1
    <3>3. bound' \in -1 .. m - 1
      BY <1>0, <1>1, <3>2
    <3> QED BY <1>0, <1>1, <2>3, <3>2, <3>3
  <2> QED BY <2>4, <2>5
<1>9. CASE UNCHANGED vars
  BY <1>3, <1>9 DEF vars
<1> HIDE DEF Goal
<1> QED BY <1>4, <1>5, <1>6, <1>7, <1>8, <1>9 DEF Next, Judge, JudgeClimb, SpendWalk

\* The flags and the counters keep their types.
LEMMA StepFlags ==
  ASSUME NEW n \in Nat \ {0}, NEW m \in Nat \ {0}, Inv(n, m), [Next]_vars
  PROVE  /\ {claim', asked', dirty'} \subseteq BOOLEAN
         /\ ticks' \in 0 .. MaxTicks /\ outside' \in 0 .. MaxOutside
<1>0. /\ claim \in BOOLEAN /\ asked \in BOOLEAN /\ dirty \in BOOLEAN
      /\ ticks \in 0 .. MaxTicks /\ outside \in 0 .. MaxOutside
      /\ MaxTicks \in Nat /\ MaxOutside \in Nat
  BY BoundsAssumption DEF Inv, CarrierTypes
<1>1. \A p : \A hard \in BOOLEAN : LandLow(p, hard) => asked' \in BOOLEAN
  BY <1>0 DEF LandLow
<1>2. \A c, s : Path(c, s) => dirty' \in BOOLEAN
  BY DEF Path
<1>3. CASE WritePair \/ WriteEpoch \/ TrackerTick \/ NewSession \/ NodeVerdict \/ JudgeStale
           \/ JudgeElsewhere \/ UNCHANGED vars
  BY <1>0, <1>2, <1>3 DEF WritePair, WriteEpoch, TrackerTick, NewSession, NodeVerdict, JudgeStale,
                          JudgeElsewhere, vars, pathVars
<1>4. CASE Tick
  BY <1>0, <1>4 DEF Tick, pathVars
<1>5. CASE JudgeOk \/ JudgeGone
  BY <1>0, <1>2, <1>5 DEF JudgeOk, JudgeGone, Carrying
<1>6. CASE JudgeClimb
  <2>1. CASE SpendPort \/ SpendSession
    BY <1>0, <1>2, <1>6, <2>1 DEF JudgeClimb, SpendPort, SpendSession, RollSourcePort, PortGone, walkVars
  <2>2. CASE SpendWalk
    <3>1. asked' \in BOOLEAN
      BY <1>1, <2>2 DEF SpendWalk, Walk
    <3>2. dirty' \in BOOLEAN
      BY <2>2 DEF SpendWalk, Walk, Path
    <3>3. claim' = FALSE /\ ticks' = 0 /\ outside' = outside
      BY <1>6, <2>2 DEF JudgeClimb, SpendWalk, PortGone
    <3>4. ticks' \in 0 .. MaxTicks
      BY <1>0, <3>3
    <3>5. claim' \in BOOLEAN
      BY <3>3
    <3> QED BY <1>0, <3>1, <3>2, <3>3, <3>4, <3>5
  <2> QED BY <1>6, <2>1, <2>2 DEF JudgeClimb
<1>7. CASE Rotate
  <2>1. asked' \in BOOLEAN
    BY <1>1, <1>7 DEF Rotate
  <2>2. dirty' \in BOOLEAN
    BY <1>7 DEF Rotate, Path
  <2>3. UNCHANGED <<claim, ticks>> /\ outside' = outside + 1 /\ outside < MaxOutside
    BY <1>7 DEF Rotate, Intervene
  <2> QED BY <1>0, <2>1, <2>2, <2>3
<1>8. CASE OpRetest
  <2>1. dirty' \in BOOLEAN
    BY <1>8 DEF OpRetest, Path
  <2>2. UNCHANGED <<claim, asked, ticks>> /\ outside' = outside + 1 /\ outside < MaxOutside
    BY <1>8 DEF OpRetest, Intervene
  <2> QED BY <1>0, <2>1, <2>2
<1>9. CASE OpSelectLow
  <2>1. asked' \in BOOLEAN
    BY <1>0, <1>9 DEF OpSelectLow, LandLow
  <2>2. dirty' \in BOOLEAN
    BY <1>9 DEF OpSelectLow, Path
  <2>3. UNCHANGED <<claim, ticks>> /\ outside' = outside + 1 /\ outside < MaxOutside
    BY <1>9 DEF OpSelectLow, Intervene
  <2> QED BY <1>0, <2>1, <2>2, <2>3
<1>10. CASE OpSelectHigh
  <2>1. dirty' \in BOOLEAN
    <3>1. DOMAIN high.rec = 0 .. m - 1 /\ high \in Pools(m) /\ Settled(high, m)
      BY SizeIs DEF Inv, PoolTypes
    <3>2. PICK i \in 0 .. m - 1, b \in Bindable(high) :
             dirty' = LandSource(SelectEntry(high, i), b).bound \/ Path(FALSE, TRUE)
      BY <1>10, <3>1 DEF OpSelectHigh
    <3>3. LandSource(SelectEntry(high, i), b).bound \in BOOLEAN
      BY <3>1, SelectBecomes, LandSourceBecomes DEF Becomes
    <3> QED BY <1>2, <3>2, <3>3
  <2> QED BY <1>0, <1>10, <2>1 DEF OpSelectHigh, Intervene
<1> QED BY <1>3, <1>4, <1>5, <1>6, <1>7, <1>8, <1>9, <1>10 DEF Next, Judge

----------------------------------------------------------------------------
(* The reports.                                                            *)

\* What a step may make of the reports: a status names the pair that was read, a verdict
\* what the status named, and what still counts as fresh is not of an older path unless
\* that change is unseen.
Reported(n, m) ==
  /\ draft' \in {draft, NoPair, Live}
  /\ snap' \in Reports(n, m) /\ snap'.low \in {snap.low, draft[1]} /\ snap'.high \in {snap.high, draft[2]}
  /\ mail' \in [cmd : {"none", "ok", "fail"}, about : Reports(n, m)]
  /\ mail'.cmd # "none" => mail'.about # Nothing
  /\ mail'.about.low \in {-1, mail.about.low, snap.low}
  /\ mail'.about.high \in {-1, mail.about.high, snap.high}
  /\ snap'.fresh /\ snap'.old => dirty'
  /\ mail'.about.fresh /\ mail'.about.old => dirty'

\* A report that grows older still names its pair, and counts as fresh only while the
\* change is unseen.
LEMMA AgedKeeps ==
  ASSUME NEW n \in Nat \ {0}, NEW m \in Nat \ {0}, NEW r \in Reports(n, m), dirty \in BOOLEAN,
         r.fresh /\ r.old => dirty, NEW c \in BOOLEAN, NEW s \in BOOLEAN
  PROVE  /\ Aged(r, c, s) \in Reports(n, m)
         /\ Aged(r, c, s).low = r.low /\ Aged(r, c, s).high = r.high
         /\ r # Nothing => Aged(r, c, s) # Nothing
         /\ Aged(r, c, s).fresh /\ Aged(r, c, s).old => ~s /\ (dirty \/ c)
<1>1. CASE r = Nothing
  BY <1>1 DEF Aged, Nothing
<1>2. CASE r # Nothing
  <2>1. r \in [low : 0 .. n - 1, high : 0 .. m - 1, fresh : BOOLEAN, old : BOOLEAN]
    BY <1>2 DEF Reports
  <2> DEFINE f == r.fresh /\ ~(s /\ (dirty \/ c))
             o == r.old \/ c
  <2>2. Aged(r, c, s) = [r EXCEPT !.fresh = f, !.old = o] /\ f \in BOOLEAN /\ o \in BOOLEAN
    BY <1>2, <2>1 DEF Aged
  <2>3. f /\ o => ~s /\ (dirty \/ c)
    BY <2>1
  <2> HIDE DEF f, o
  <2>4. Aged(r, c, s) = [low |-> r.low, high |-> r.high, fresh |-> f, old |-> o]
    BY <2>1, <2>2
  <2>5. Aged(r, c, s).low # -1
    BY <2>1, <2>4
  <2> QED BY <2>1, <2>2, <2>3, <2>4, <2>5 DEF Reports, Nothing
<1> QED BY <1>1, <1>2

\* After a sample of a path that did not change with it, nothing fresh is old.
LEMMA SampleKeeps ==
  ASSUME NEW n \in Nat \ {0}, NEW m \in Nat \ {0}, NEW r \in Reports(n, m), dirty \in BOOLEAN,
         r.fresh /\ r.old => dirty
  PROVE  /\ Aged(r, FALSE, TRUE) \in Reports(n, m)
         /\ Aged(r, FALSE, TRUE).low = r.low /\ Aged(r, FALSE, TRUE).high = r.high
         /\ r # Nothing => Aged(r, FALSE, TRUE) # Nothing
         /\ ~(Aged(r, FALSE, TRUE).fresh /\ Aged(r, FALSE, TRUE).old)
<1>1. PICK c \in BOOLEAN, s \in BOOLEAN : c = FALSE /\ s = TRUE
  OBVIOUS
<1>2. /\ Aged(r, c, s) \in Reports(n, m)
      /\ Aged(r, c, s).low = r.low /\ Aged(r, c, s).high = r.high
      /\ r # Nothing => Aged(r, c, s) # Nothing
      /\ Aged(r, c, s).fresh /\ Aged(r, c, s).old => ~s /\ (dirty \/ c)
  BY AgedKeeps
<1> QED BY <1>1, <1>2

\* What a step that samples or changes the path does to the reports.
LEMMA Sampled ==
  ASSUME NEW n \in Nat \ {0}, NEW m \in Nat \ {0}, Inv(n, m), NEW c \in BOOLEAN, NEW s \in BOOLEAN,
         Path(c, s), Mail(c, s) \/ Taken
  PROVE  Reported(n, m)
<1>0. /\ dirty \in BOOLEAN /\ snap \in Reports(n, m) /\ (snap.fresh /\ snap.old => dirty)
      /\ mail \in [cmd : {"none", "ok", "fail"}, about : Reports(n, m)]
      /\ mail.cmd # "none" => mail.about # Nothing
      /\ mail.about.fresh /\ mail.about.old => dirty
  BY DEF Inv, CarrierTypes, ReportTypes, Measured
<1>1. /\ dirty' = (~s /\ (dirty \/ c)) /\ draft' = draft /\ snap' = Aged(snap, c, s)
  BY DEF Path
<1>2. /\ snap' \in Reports(n, m) /\ snap'.low = snap.low /\ snap'.high = snap.high
      /\ snap'.fresh /\ snap'.old => dirty'
  BY <1>0, <1>1, AgedKeeps
<1>3. CASE Taken
  <2>1. /\ mail' \in [cmd : {"none", "ok", "fail"}, about : Reports(n, m)]
        /\ mail'.cmd = "none" /\ mail'.about = Nothing
    BY <1>3 DEF Taken, NoMail, Reports
  <2> QED BY <1>1, <1>2, <2>1 DEF Reported, Nothing
<1>4. CASE Mail(c, s)
  <2> DEFINE a == Aged(mail.about, c, s)
  <2>1. /\ a \in Reports(n, m) /\ a.low = mail.about.low /\ a.high = mail.about.high
        /\ mail.about # Nothing => a # Nothing
        /\ a.fresh /\ a.old => dirty'
    <3>1. mail.about \in Reports(n, m)
      BY <1>0
    <3> QED BY <1>0, <1>1, <3>1, AgedKeeps
  <2>2. mail' = [mail EXCEPT !.about = a]
    BY <1>4 DEF Mail
  <2> HIDE DEF a
  <2>3. mail'.cmd = mail.cmd /\ mail'.about = a /\ mail' \in [cmd : {"none", "ok", "fail"}, about : Reports(n, m)]
    BY <1>0, <2>1, <2>2
  <2> QED BY <1>0, <1>1, <1>2, <2>1, <2>3 DEF Reported
<1> QED BY <1>3, <1>4

\* The reports of every step.
LEMMA StepReported ==
  ASSUME NEW n \in Nat \ {0}, NEW m \in Nat \ {0}, Inv(n, m), [Next]_vars
  PROVE  Reported(n, m)
<1>0. /\ dirty \in BOOLEAN /\ snap \in Reports(n, m) /\ (snap.fresh /\ snap.old => dirty)
      /\ mail \in [cmd : {"none", "ok", "fail"}, about : Reports(n, m)]
      /\ mail.cmd # "none" => mail.about # Nothing
      /\ mail.about.fresh /\ mail.about.old => dirty
      /\ draft \in Spots(n, m) \union {NoPair}
      /\ low \in Pools(n) /\ high \in Pools(m) /\ Settled(low, n) /\ Settled(high, m)
  BY DEF Inv, CarrierTypes, ReportTypes, Measured, PoolTypes
<1>1. CASE (dirty' \/ UNCHANGED dirty) /\ UNCHANGED <<draft, snap, mail>>
  BY <1>0, <1>1 DEF Reported
<1>2. CASE UNCHANGED <<dirty, draft, snap>> /\ Taken
  <2>1. /\ mail' \in [cmd : {"none", "ok", "fail"}, about : Reports(n, m)]
        /\ mail'.cmd = "none" /\ mail'.about = Nothing
    BY <1>2 DEF Taken, NoMail, Reports
  <2> QED BY <1>0, <1>2, <2>1 DEF Reported, Nothing
<1>3. CASE WritePair
  <2>1. draft' = Live
    BY <1>0, <1>3, CurrentStays DEF WritePair, Live
  <2> DEFINE a == Aged(mail.about, FALSE, TRUE)
  <2>2. /\ a \in Reports(n, m) /\ a.low = mail.about.low /\ a.high = mail.about.high
        /\ mail.about # Nothing => a # Nothing
        /\ ~(a.fresh /\ a.old)
    <3>1. mail.about \in Reports(n, m)
      BY <1>0
    <3> QED BY <1>0, <3>1, SampleKeeps
  <2>3. /\ snap' \in Reports(n, m) /\ snap'.low = snap.low /\ snap'.high = snap.high
        /\ ~(snap'.fresh /\ snap'.old)
    <3>1. snap' = Aged(snap, FALSE, TRUE)
      BY <1>3 DEF WritePair
    <3> QED BY <1>0, <3>1, SampleKeeps
  <2>4. mail' = [mail EXCEPT !.about = a]
    BY <1>3 DEF WritePair, Mail
  <2> HIDE DEF a
  <2>5. mail'.cmd = mail.cmd /\ mail'.about = a /\ mail' \in [cmd : {"none", "ok", "fail"}, about : Reports(n, m)]
    BY <1>0, <2>2, <2>4
  <2> QED BY <1>0, <2>1, <2>2, <2>3, <2>5 DEF Reported
<1>4. CASE WriteEpoch
  <2>1. /\ draft' = NoPair /\ UNCHANGED <<dirty, mail>>
        /\ snap' = [low |-> draft[1], high |-> draft[2], fresh |-> TRUE, old |-> FALSE]
        /\ draft \in Spots(n, m)
    BY <1>0, <1>4 DEF WriteEpoch
  <2>2. snap' \in Reports(n, m) /\ snap'.low = draft[1] /\ snap'.high = draft[2] /\ ~snap'.old
    BY <2>1 DEF Spots, Reports
  <2> QED BY <1>0, <2>1, <2>2 DEF Reported
<1>5. CASE NodeVerdict
  <2>1. PICK cmd \in {"ok", "fail"} : mail' = [cmd |-> cmd, about |-> snap]
    BY <1>5 DEF NodeVerdict
  <2>2. snap # Nothing /\ UNCHANGED <<dirty, draft, snap>>
    BY <1>5 DEF NodeVerdict, pathVars
  <2>3. /\ mail' \in [cmd : {"none", "ok", "fail"}, about : Reports(n, m)]
        /\ mail'.about = snap
    BY <1>0, <2>1
  <2> QED BY <1>0, <2>2, <2>3 DEF Reported
<1>6. CASE OpSelectHigh
  <2>1. DOMAIN high.rec = 0 .. m - 1
    BY <1>0, SizeIs
  <2>2. PICK i \in 0 .. m - 1, b \in Bindable(high) :
           LET landed == LandSource(SelectEntry(high, i), b)
           IN IF i = high.cur THEN Path(FALSE, TRUE) /\ Mail(FALSE, TRUE)
              ELSE LET aged(r) == [Aged(r, FALSE, TRUE) EXCEPT !.old = @ \/ (landed.bound /\ r # Nothing)]
                   IN /\ dirty' = landed.bound
                      /\ UNCHANGED draft /\ snap' = aged(snap)
                      /\ mail' = [mail EXCEPT !.about = aged(@)]
    BY <1>6, <2>1 DEF OpSelectHigh
  <2>3. CASE i = high.cur
    BY <2>2, <2>3, Sampled
  <2>4. CASE i # high.cur
    <3> DEFINE ok == LandSource(SelectEntry(high, i), b).bound
               A(r) == Aged(r, FALSE, TRUE)
               G(r) == [A(r) EXCEPT !.old = @ \/ (ok /\ r # Nothing)]
    <3>1. /\ dirty' = ok /\ UNCHANGED draft
          /\ snap' = G(snap) /\ mail' = [mail EXCEPT !.about = G(mail.about)]
      BY <2>2, <2>4
    <3>2. ok \in BOOLEAN
      <4>1. SelectEntry(high, i) \in Pools(m) /\ Settled(SelectEntry(high, i), m)
        BY <1>0, SelectBecomes DEF Becomes
      <4> QED BY <4>1, LandSourceBecomes
    <3> HIDE DEF ok
    <3>3. ASSUME NEW r \in Reports(n, m), r.fresh /\ r.old => dirty
          PROVE  /\ G(r) \in Reports(n, m) /\ G(r).low = r.low /\ G(r).high = r.high
                 /\ r # Nothing => G(r) # Nothing
                 /\ G(r).fresh /\ G(r).old => ok
      <4>1. /\ A(r) \in Reports(n, m) /\ A(r).low = r.low /\ A(r).high = r.high
            /\ r # Nothing => A(r) # Nothing
            /\ ~(A(r).fresh /\ A(r).old)
        BY <1>0, <3>3, SampleKeeps
      <4>2. CASE r = Nothing
        <5>1. A(r) = Nothing
          BY <4>2 DEF Aged
        <5>2. G(r) = Nothing
          <6> DEFINE o == Nothing.old \/ (ok /\ r # Nothing)
          <6>1. G(r) = [Nothing EXCEPT !.old = o]
            BY <5>1
          <6>2. o = FALSE
            BY <4>2 DEF Nothing
          <6> HIDE DEF o, G
          <6> QED BY <6>1, <6>2 DEF Nothing
        <5> HIDE DEF G, A
        <5> QED BY <4>2, <5>2 DEF Reports, Nothing
      <4>3. CASE r # Nothing
        <5> HIDE DEF A
        <5>1. A(r) \in [low : 0 .. n - 1, high : 0 .. m - 1, fresh : BOOLEAN, old : BOOLEAN]
          BY <4>1, <4>3 DEF Reports
        <5> DEFINE o == A(r).old \/ ok
        <5>2. G(r) = [low |-> A(r).low, high |-> A(r).high, fresh |-> A(r).fresh, old |-> o] /\ o \in BOOLEAN
          BY <3>2, <4>3, <5>1
        <5>3. A(r).fresh /\ o => ok
          BY <3>2, <4>1, <5>1
        <5>4. A(r).low # -1
          BY <5>1
        <5> HIDE DEF o, G
        <5> QED BY <4>1, <5>1, <5>2, <5>3, <5>4 DEF Reports, Nothing
      <4> QED BY <4>2, <4>3
    <3> HIDE DEF A, G
    <3>4. mail.about \in Reports(n, m)
      BY <1>0
    <3>5. /\ mail'.cmd = mail.cmd /\ mail'.about = G(mail.about)
          /\ mail' \in [cmd : {"none", "ok", "fail"}, about : Reports(n, m)]
      BY <1>0, <3>1, <3>3, <3>4
    <3> QED BY <1>0, <3>1, <3>3, <3>4, <3>5 DEF Reported
  <2> QED BY <2>3, <2>4
<1>7. CASE JudgeOk
  <2> DEFINE s == CarryingSamples \/ low' # low \/ high' # high
  <2>1. Path(FALSE, s) /\ Taken
    BY <1>7 DEF JudgeOk
  <2>2. Path(FALSE, TRUE) \/ Path(FALSE, FALSE)
    BY <2>1 DEF Path, Aged
  <2> QED BY <2>1, <2>2, Sampled
<1>8. CASE JudgeClimb
  <2>1. Taken
    BY <1>8 DEF JudgeClimb
  <2>2. Path(TRUE, FALSE) \/ Path(FALSE, TRUE) \/ Path(TRUE, TRUE)
    <3>1. CASE SpendPort \/ SpendSession
      BY <3>1 DEF SpendPort, RollSourcePort, SpendSession
    <3>2. CASE SpendWalk
      BY <3>2 DEF SpendWalk, Walk, Path, Aged
    <3> QED BY <1>8, <3>1, <3>2 DEF JudgeClimb
  <2> QED BY <2>1, <2>2, Sampled
<1>9. CASE Rotate
  <2>1. PICK c \in BOOLEAN, s \in BOOLEAN : Path(c, s) /\ Mail(c, s)
    BY <1>9 DEF Rotate, Path, Mail, Aged
  <2> QED BY <2>1, Sampled
<1>10. CASE OpSelectLow
  <2>1. PICK c \in BOOLEAN : Path(c, TRUE) /\ Mail(c, TRUE)
    BY <1>10 DEF OpSelectLow, Path, Mail, Aged
  <2> QED BY <2>1, Sampled
<1>11. CASE TrackerTick \/ JudgeGone \/ OpRetest
  BY <1>11, Sampled DEF TrackerTick, JudgeGone, OpRetest
<1>12. CASE NewSession \/ Tick \/ UNCHANGED vars
  BY <1>1, <1>12 DEF NewSession, Tick, vars, pathVars
<1>13. CASE JudgeStale \/ JudgeElsewhere
  BY <1>2, <1>13 DEF JudgeStale, JudgeElsewhere, pathVars
<1> QED BY <1>3, <1>4, <1>5, <1>6, <1>7, <1>8, <1>9, <1>10, <1>11, <1>12, <1>13 DEF Next, Judge

\* The reports keep their types, name no entry of an untouched pool but its first, and
\* what they say of the path holds.
LEMMA StepReports ==
  ASSUME NEW n \in Nat \ {0}, NEW m \in Nat \ {0}, Inv(n, m), [Next]_vars
  PROVE  ReportTypes(n, m)' /\ Seen' /\ Measured'
<1>1. Reported(n, m)
  BY StepReported
<1>2. /\ low \in Pools(n) /\ high \in Pools(m) /\ Settled(low, n) /\ Settled(high, m)
      /\ draft \in Spots(n, m) \union {NoPair} /\ Seen
  BY DEF Inv, PoolTypes, ReportTypes
<1>3. Live \in Spots(n, m)
  BY <1>2 DEF Live, Spots, Pools
<1>4. ReportTypes(n, m)'
  BY <1>1, <1>2, <1>3 DEF ReportTypes, Reported, Reports, Spots, NoPair, Nothing
<1>5. Measured'
  BY <1>1 DEF Measured, Reported
<1>6. (low'.chosen = NoEntry => low.chosen = NoEntry) /\ (high'.chosen = NoEntry => high.chosen = NoEntry)
  BY StepPools DEF Becomes
<1>7. /\ low.chosen = NoEntry => low.cur = 0
      /\ high.chosen = NoEntry => high.cur = 0
  BY <1>2 DEF Settled, Untouched, Pools, NoEntry
<1>8. /\ draft'[1] \in {-1, draft[1], low.cur}
      /\ draft'[2] \in {-1, draft[2], high.cur}
  BY <1>1 DEF Reported, Live, NoPair
<1>9. low'.chosen = NoEntry => {draft'[1], snap'.low, mail'.about.low} \subseteq {-1, 0}
  BY <1>1, <1>2, <1>6, <1>7, <1>8 DEF Seen, Reported
<1>10. high'.chosen = NoEntry => {draft'[2], snap'.high, mail'.about.high} \subseteq {-1, 0}
  BY <1>1, <1>2, <1>6, <1>7, <1>8 DEF Seen, Reported
<1> QED BY <1>4, <1>5, <1>9, <1>10 DEF Seen

----------------------------------------------------------------------------
(* The ladder.                                                             *)

\* No more entries are eligible than there are.
LEMMA EligibleBound ==
  ASSUME NEW n \in Nat \ {0}, NEW p \in Pools(n)
  PROVE  EligibleCount(p) \in 0 .. n
<1>1. Eligible(p) \subseteq 0 .. n - 1
  BY EntrySets
<1>2. IsFiniteSet(0 .. n - 1) /\ Cardinality(0 .. n - 1) = n
  BY FS_Interval
<1>3. /\ IsFiniteSet(Eligible(p)) /\ Cardinality(Eligible(p)) <= n
      /\ Cardinality(Eligible(p)) \in Nat
  BY <1>1, <1>2, FS_Subset, FS_CardinalityType
<1> QED BY <1>3 DEF EligibleCount

\* The clock is armed within its steps.
LEMMA RearmedType ==
  ASSUME revive \in [armed : BOOLEAN, wait : Nat, step : 0 .. Len(Revive)]
  PROVE  Rearmed \in [armed : BOOLEAN, wait : Nat, step : 0 .. Len(Revive)]
<1> DEFINE s == IF revive.step < Len(Revive) THEN revive.step + 1 ELSE revive.step
<1>1. Len(Revive) \in Nat /\ Len(Revive) >= 1 /\ \A k \in 1 .. Len(Revive) : Revive[k] \in Nat
  BY LadderAssumption
<1>2. s \in 1 .. Len(Revive)
  BY <1>1
<1>3. Rearmed = [armed |-> TRUE, wait |-> Revive[s], step |-> s]
  BY DEF Rearmed
<1> HIDE DEF s
<1> QED BY <1>1, <1>2, <1>3

\* reviveIfDue keeps the types, and empties the rungs or leaves them.
LEMMA ReviveIfDueType ==
  ASSUME NEW n \in Nat \ {0}, NEW m \in Nat \ {0}, LadderTypes(n, m), ReviveIfDue
  PROVE  /\ revive' \in [armed : BOOLEAN, wait : Nat, step : 0 .. Len(Revive)]
         /\ port' \in {0, port} /\ session' \in {0, session} /\ spentFor' \in {{}, spentFor}
<1>1. revive' \in {revive, Rearmed}
  BY DEF ReviveIfDue
<1>2. revive' \in [armed : BOOLEAN, wait : Nat, step : 0 .. Len(Revive)]
  BY <1>1, RearmedType DEF LadderTypes
<1> QED BY <1>2 DEF ReviveIfDue, Refilled

\* The ladder of every step.
LEMMA StepLadder ==
  ASSUME NEW n \in Nat \ {0}, NEW m \in Nat \ {0}, Inv(n, m), [Next]_vars
  PROVE  LadderTypes(n, m)' /\ OwnRungs'
<1> DEFINE Ods == [rot : 0 .. n, want : 0 .. n, tick : 0 .. n]
           Clocks == [armed : BOOLEAN, wait : Nat, step : 0 .. Len(Revive)]
<1>0. /\ low \in Pools(n) /\ high \in Pools(m) /\ Settled(low, n) /\ Settled(high, m)
      /\ LadderTypes(n, m) /\ OwnRungs
  BY DEF Inv, PoolTypes
<1>1. /\ od \in Ods /\ revive \in Clocks /\ port \in 0 .. PortTries /\ session \in {0, 1}
      /\ accused \in Spots(n, m) \union {NoPair} /\ spentFor \subseteq Spots(n, m)
      /\ spentFor \subseteq {accused}
  BY <1>0 DEF LadderTypes, OwnRungs
<1>2. PortTries \in Nat /\ 0 \in 0 .. PortTries /\ AtRest \in Clocks
  BY LadderAssumption DEF AtRest
<1>3. Live \in Spots(n, m)
  BY <1>0 DEF Live, Spots, Pools
<1>4. NoPair \notin Spots(n, m)
  BY DEF Spots, NoPair
<1>5. SUFFICES /\ od' \in Ods /\ revive' \in Clocks /\ port' \in 0 .. PortTries /\ session' \in {0, 1}
               /\ accused' \in Spots(n, m) \union {NoPair} /\ spentFor' \subseteq Spots(n, m)
               /\ spentFor' \subseteq {accused'}
  BY DEF LadderTypes, OwnRungs, Spots, NoPair
<1> HIDE DEF Clocks
<1>6. CASE UNCHANGED ladder
  BY <1>1, <1>6 DEF ladder
<1>7. [od EXCEPT !.rot = 0, !.want = 0] \in Ods
  <2>1. 0 \in 0 .. n /\ od \in Ods
    BY <1>1
  <2> QED BY <2>1
<1> HIDE DEF Ods
<1>8. CASE Success
  <2>1. /\ accused' = NoPair /\ revive' = AtRest /\ od' = [od EXCEPT !.rot = 0, !.want = 0]
        /\ port' = 0 /\ session' = 0 /\ spentFor' = {}
    BY <1>8 DEF Success, OdRestarted, Refilled
  <2> QED BY <1>2, <1>7, <2>1
<1>9. CASE JudgeElsewhere
  BY <1>1, <1>2, <1>3, <1>7, <1>9 DEF JudgeElsewhere, OdRestarted, Refilled
<1>10. CASE Tick
  <2>1. revive' = [revive EXCEPT !.wait = IF @ = 0 THEN 0 ELSE @ - 1]
        /\ UNCHANGED <<od, port, session, spentFor, accused>>
    BY <1>10 DEF Tick
  <2>2. revive' \in Clocks
    BY <1>1, <2>1 DEF Clocks
  <2> QED BY <1>1, <2>1, <2>2
<1>11. CASE JudgeClimb
  <2>1. accused' = Live /\ accused \in {NoPair, Live}
    BY <1>11 DEF JudgeClimb, Charged
  <2>2. spentFor \subseteq {Live}
    BY <1>1, <1>4, <2>1
  <2>3. CASE SpendPort
    <3>1. /\ port < PortTries /\ port' = port + 1 /\ spentFor' = spentFor \union {Live}
          /\ UNCHANGED <<od, session, revive>>
      BY <2>3 DEF SpendPort, walkVars
    <3> QED BY <1>1, <1>2, <1>3, <2>1, <2>2, <3>1
  <2>4. CASE SpendSession
    <3>1. /\ session < 1 /\ session' = session + 1 /\ spentFor' = spentFor \union {Live}
          /\ UNCHANGED <<od, port, revive>>
      BY <2>4 DEF SpendSession, walkVars
    <3>2. session' \in {0, 1}
      BY <1>1, <3>1
    <3> QED BY <1>1, <1>3, <2>1, <2>2, <3>1, <3>2
  <2>5. CASE SpendWalk
    <3>2. OdFailed /\ ((Refilled /\ revive' = AtRest) \/ ReviveIfDue)
      BY <2>5 DEF SpendWalk, Walk
    <3>3. /\ port' \in {0, port} /\ session' \in {0, session} /\ spentFor' \in {{}, spentFor}
          /\ revive' \in Clocks
      BY <1>0, <1>2, <3>2, ReviveIfDueType DEF Refilled, Clocks
    <3>4. od' \in Ods
      <4>1. EligibleCount(low) \in 0 .. n
        BY <1>0, EligibleBound
      <4>2. OdWant \in 0 .. n /\ od.rot \in 0 .. n
        BY <1>1, <4>1 DEF OdWant, Ods
      <4> DEFINE r == IF Lap THEN 0 ELSE od.rot + 1
      <4>3. r \in 0 .. n
        BY <4>2 DEF Lap
      <4>4. od' = [od EXCEPT !.rot = r, !.want = OdWant]
        BY <3>2 DEF OdFailed
      <4> HIDE DEF r
      <4> QED BY <1>1, <4>2, <4>3, <4>4 DEF Ods
    <3> QED BY <1>1, <1>2, <1>3, <2>1, <2>2, <3>3, <3>4
  <2> QED BY <1>11, <2>3, <2>4, <2>5 DEF JudgeClimb
<1>12. CASE Rotate
  <2> DEFINE p == RotateOnce(low)
  <2>1. OdBeat(p) /\ UNCHANGED <<port, session, revive, accused, spentFor>>
    BY <1>12 DEF Rotate
  <2>2. p \in Pools(n)
    BY <1>0, RotateOnceBecomes DEF Becomes
  <2> HIDE DEF p
  <2>3. EligibleCount(p) \in 0 .. n
    BY <2>2, EligibleBound
  <2>4. od' \in Ods
    <3>1. CASE LapBy(p)
      BY <2>1, <3>1 DEF OdBeat, Ods
    <3>2. CASE ~LapBy(p)
      <4>1. od.tick + 1 \in 0 .. n
        BY <1>1, <2>3, <3>2 DEF LapBy, Ods
      <4>2. od' = [od EXCEPT !.tick = od.tick + 1]
        BY <2>1, <3>2 DEF OdBeat
      <4> QED BY <1>1, <4>1, <4>2 DEF Ods
    <3> QED BY <3>1, <3>2
  <2> QED BY <1>1, <2>1, <2>4
<1>13. CASE OpSelectLow \/ OpSelectHigh
  <2>1. Success \/ UNCHANGED ladder
    BY <1>13 DEF OpSelectLow, OpSelectHigh
  <2> QED BY <1>6, <1>8, <2>1
<1>14. CASE JudgeOk
  BY <1>8, <1>14 DEF JudgeOk
<1>15. CASE \/ WritePair \/ WriteEpoch \/ TrackerTick \/ NewSession \/ NodeVerdict
            \/ JudgeStale \/ JudgeGone \/ OpRetest \/ UNCHANGED vars
  BY <1>6, <1>15 DEF WritePair, WriteEpoch, TrackerTick, NewSession, NodeVerdict, JudgeStale,
                     JudgeGone, OpRetest, vars
<1> QED BY <1>9, <1>10, <1>11, <1>12, <1>13, <1>14, <1>15 DEF Next, Judge

----------------------------------------------------------------------------
(* The invariant holds.                                                    *)

\* A new pool is untouched.
LEMMA NewPoolSettled ==
  ASSUME NEW n \in Nat \ {0}
  PROVE  NewPool(n) \in Pools(n) /\ Settled(NewPool(n), n)
<1> DEFINE p == NewPool(n)
           f == [i \in 0 .. n - 1 |-> NoRec]
<1>1. p = [cur |-> 0, chosen |-> NoEntry, live |-> 0, rec |-> f] /\ 0 \in 0 .. n - 1
  BY DEF NewPool
<1>2. f \in [0 .. n - 1 -> Recs] /\ \A i \in 0 .. n - 1 : f[i] = NoRec
  BY DEF Recs
<1> HIDE DEF p, f
<1>3. p \in Pools(n)
  BY <1>1, <1>2 DEF Pools
<1>4. Settled(p, n)
  BY <1>1, <1>2 DEF Settled, Untouched
<1> QED BY <1>3, <1>4 DEF p

\* The carrier starts with the invariant, whichever source bound first.
LEMMA InitInv == Init => IInv
<1> SUFFICES ASSUME Init PROVE IInv
  OBVIOUS
<1>1. PICK sz \in Sizes :
        /\ low = NewPool(sz[1])
        /\ \E b \in Bindable(NewPool(sz[2])) :
             /\ high = LandSource(NewPool(sz[2]), b).pool
             /\ bound = IF LandSource(NewPool(sz[2]), b).bound THEN LandSource(NewPool(sz[2]), b).pool.live ELSE NoEntry
             /\ lost = ~LandSource(NewPool(sz[2]), b).bound
  BY DEF Init
<1> DEFINE n == sz[1]
           m == sz[2]
<1>2. n \in Nat \ {0} /\ m \in Nat \ {0}
  BY SizesAssumption
<1>3. /\ NewPool(n) \in Pools(n) /\ Settled(NewPool(n), n)
      /\ NewPool(m) \in Pools(m) /\ Settled(NewPool(m), m)
  BY <1>2, NewPoolSettled
<1>4. PICK b : /\ high = LandSource(NewPool(m), b).pool
               /\ bound = IF LandSource(NewPool(m), b).bound THEN LandSource(NewPool(m), b).pool.live ELSE NoEntry
               /\ lost = ~LandSource(NewPool(m), b).bound
  BY <1>1
<1>5. low = NewPool(n)
  BY <1>1
<1> HIDE DEF n, m
<1> DEFINE ok == LandSource(NewPool(m), b).bound
<1>6. Becomes(NewPool(m), high, m) /\ ok \in BOOLEAN
  BY <1>2, <1>3, <1>4, LandSourceBecomes
<1>7. bound = (IF ok THEN high.live ELSE NoEntry) /\ lost = ~ok
  BY <1>4
<1> HIDE DEF ok
<1>8. PoolTypes(n, m)
  BY <1>3, <1>5, <1>6 DEF PoolTypes, Becomes
<1>9. high.live \in 0 .. m - 1 /\ high.live = high.cur /\ low.live = 0 /\ low.cur = 0
  BY <1>5, <1>8 DEF PoolTypes, Pools, Settled, NewPool
<1>10. /\ od = [rot |-> 0, want |-> 0, tick |-> 0]
       /\ port = 0 /\ session = 0 /\ spentFor = {}
       /\ revive = AtRest /\ accused = NoPair
       /\ claim = FALSE /\ asked = TRUE /\ dirty = TRUE
       /\ draft = NoPair /\ snap = Nothing /\ mail = NoMail
       /\ active = 0 /\ ticks = 0 /\ outside = 0
  BY DEF Init
<1>11. /\ bound \in -1 .. m - 1 /\ lost \in BOOLEAN /\ (lost \/ bound = high.live)
  <2>1. CASE ok
    BY <1>2, <1>7, <1>9, <2>1
  <2>2. CASE ~ok
    <3>1. lost = TRUE /\ bound = -1
      BY <1>7, <2>2 DEF NoEntry
    <3>2. -1 \in -1 .. m - 1
      BY <1>2
    <3> QED BY <3>1, <3>2
  <2> QED BY <2>1, <2>2
<1>12. CarrierTypes(n, m)
  <2>1. ticks \in 0 .. MaxTicks /\ outside \in 0 .. MaxOutside /\ active \in 0 .. n - 1
    BY <1>2, <1>10, BoundsAssumption
  <2>2. claim \in BOOLEAN /\ asked \in BOOLEAN /\ dirty \in BOOLEAN
    BY <1>10
  <2> QED BY <1>11, <2>1, <2>2 DEF CarrierTypes
<1>13. ReportTypes(n, m)
  <2>1. Nothing \in Reports(n, m)
    BY DEF Reports
  <2>2. mail \in [cmd : {"none", "ok", "fail"}, about : Reports(n, m)] /\ mail.cmd = "none"
    BY <1>10, <2>1 DEF NoMail
  <2> QED BY <1>10, <2>1, <2>2 DEF ReportTypes
<1>14. LadderTypes(n, m)
  <2>1. PortTries \in Nat /\ Len(Revive) \in Nat
    BY LadderAssumption
  <2>2. od \in [rot : 0 .. n, want : 0 .. n, tick : 0 .. n]
    BY <1>2, <1>10
  <2>3. revive \in [armed : BOOLEAN, wait : Nat, step : 0 .. Len(Revive)]
    BY <1>10, <2>1 DEF AtRest
  <2> QED BY <1>10, <2>1, <2>2, <2>3 DEF LadderTypes
<1>15. Seen /\ Measured /\ OwnRungs
  BY <1>10 DEF Seen, Measured, OwnRungs, NoMail, Nothing, NoPair
<1>16. LandedWhereThePoolsSay
  BY <1>9, <1>10, <1>11 DEF LandedWhereThePoolsSay
<1>17. Inv(n, m)
  BY <1>8, <1>12, <1>13, <1>14, <1>15, <1>16 DEF Inv
<1> QED BY <1>2, <1>17 DEF IInv

\* Every step keeps the invariant, for the sizes the pools have.
LEMMA InvStep == IInv /\ [Next]_vars => IInv'
<1> SUFFICES ASSUME IInv, [Next]_vars PROVE IInv'
  OBVIOUS
<1>1. PICK n \in Nat \ {0}, m \in Nat \ {0} : Inv(n, m)
  BY DEF IInv
<1>2. PoolTypes(n, m)'
  BY <1>1, StepPools DEF PoolTypes, Becomes, Pools, Settled, Untouched, Recs
<1>3. CarrierTypes(n, m)' /\ LandedWhereThePoolsSay'
  BY <1>1, StepLanded, StepFlags DEF CarrierTypes
<1>4. ReportTypes(n, m)' /\ Seen' /\ Measured'
  BY <1>1, StepReports
<1>5. LadderTypes(n, m)' /\ OwnRungs'
  BY <1>1, StepLadder
<1>6. Inv(n, m)'
  BY <1>2, <1>3, <1>4, <1>5 DEF Inv
<1> QED BY <1>6 DEF IInv

\* The invariant holds of every run.
LEMMA Invariance == Spec => []IInv
BY InitInv, InvStep, PTL DEF Spec

\* A pool of the proofs is a pool of the model.
LEMMA PoolsAreTyped ==
  ASSUME NEW n \in Nat \ {0}, NEW p \in Pools(n)
  PROVE  PoolType(p, n)
<1>1. DOMAIN p.rec = 0 .. n - 1
  BY SizeIs
<1>2. \A i \in 0 .. n - 1 : p.rec[i] \in Recs
  BY DEF Pools
<1>3. Len(SuspectBackoff) \in Nat /\ Len(SuspectBackoff) >= 1
  BY BackoffAssumption
<1>4. ASSUME NEW i \in 0 .. n - 1, p.rec[i] # NoRec
      PROVE  /\ p.rec[i].state \in {Suspect, Dead}
             /\ p.rec[i].fails \in 0 .. Len(SuspectBackoff)
             /\ p.rec[i].state = Suspect <=> p.rec[i].fails < Len(SuspectBackoff)
             /\ p.rec[i].wait \in Nat
  BY <1>2, <1>3, <1>4 DEF Recs, Suspect, Dead
<1> QED BY <1>1, <1>4 DEF PoolType, Pools

\* What the invariant says in the properties' own terms.
LEMMA InvImplies == IInv => TypeOK /\ ReadsNeverMove /\ LandedWhereThePoolsSay
<1> SUFFICES ASSUME IInv PROVE TypeOK /\ ReadsNeverMove /\ LandedWhereThePoolsSay
  OBVIOUS
<1>1. PICK n \in Nat \ {0}, m \in Nat \ {0} : Inv(n, m)
  BY DEF IInv
<1>2. low \in Pools(n) /\ high \in Pools(m) /\ Settled(low, n) /\ Settled(high, m)
  BY <1>1 DEF Inv, PoolTypes
<1>3. NLow = n /\ NHigh = m
  BY <1>2, SizeIs DEF NLow, NHigh, Size
<1>4. PoolType(low, n) /\ PoolType(high, m)
  BY <1>2, PoolsAreTyped
<1>5. Reports(n, m) \subseteq About
  <2>1. /\ 0 .. n - 1 \subseteq -1 .. NLow - 1 /\ 0 .. m - 1 \subseteq -1 .. NHigh - 1
        /\ -1 \in -1 .. NLow - 1 /\ -1 \in -1 .. NHigh - 1
    BY <1>3
  <2>2. Nothing \in About
    BY <2>1 DEF About, Nothing
  <2>3. [low : 0 .. n - 1, high : 0 .. m - 1, fresh : BOOLEAN, old : BOOLEAN] \subseteq About
    BY <2>1 DEF About
  <2> QED BY <2>2, <2>3 DEF Reports
<1>6. Spots(n, m) = Pairs
  BY <1>3 DEF Spots, Pairs
<1>7. CarrierTypes(n, m) /\ ReportTypes(n, m) /\ LadderTypes(n, m) /\ LandedWhereThePoolsSay
  BY <1>1 DEF Inv
<1>8. /\ od \in [rot : 0 .. NLow, want : 0 .. NLow, tick : 0 .. NLow]
      /\ port \in 0 .. PortTries /\ session \in {0, 1}
      /\ revive.armed \in BOOLEAN /\ revive.wait \in Nat /\ revive.step \in 0 .. Len(Revive)
      /\ accused \in Pairs \union {NoPair} /\ spentFor \subseteq Pairs
  BY <1>3, <1>6, <1>7 DEF LadderTypes
<1>9. /\ draft \in Pairs \union {NoPair} /\ snap \in About
      /\ mail.cmd \in {"none", "ok", "fail"} /\ mail.about \in About
  BY <1>5, <1>6, <1>7 DEF ReportTypes
<1>10. TypeOK
  BY <1>3, <1>4, <1>7, <1>8, <1>9 DEF TypeOK, CarrierTypes
<1>11. ReadsNeverMove
  BY <1>2, CurrentStays DEF ReadsNeverMove
<1> QED BY <1>7, <1>10, <1>11

----------------------------------------------------------------------------
(* Who is charged.                                                         *)

\* Only a climb charges the live pair.  Every other step leaves the verdict in the mailbox,
\* or takes it and spends and burns nothing of the live pair: a pool that has moved since
\* loses the entry that was measured, which is not the one in use.
LEMMA ChargesClimb ==
  ASSUME NEW n \in Nat \ {0}, NEW m \in Nat \ {0}, Inv(n, m), [Next]_vars, Charges
  PROVE  JudgeClimb
<1>0. /\ mail \in [cmd : {"none", "ok", "fail"}, about : Reports(n, m)]
      /\ low \in Pools(n) /\ Settled(low, n) /\ low.cur \in 0 .. n - 1
      /\ port \in Nat /\ session \in Nat
  BY LadderAssumption DEF Inv, ReportTypes, PoolTypes, LadderTypes, Pools
<1>1. mail.cmd = "fail" /\ mail'.cmd = "none" /\ mail' # mail
  BY DEF Charges, NoMail
<1>2. \A a : mail' # [mail EXCEPT !.about = a]
  BY <1>0, <1>1
<1>3. ~(WriteEpoch \/ NewSession \/ Tick \/ UNCHANGED vars)
  BY <1>1 DEF WriteEpoch, NewSession, Tick, vars
<1>4. ~(WritePair \/ TrackerTick \/ Rotate \/ OpRetest \/ OpSelectLow)
  BY <1>2 DEF WritePair, TrackerTick, Rotate, OpRetest, OpSelectLow, Mail
<1>5. ~OpSelectHigh
  BY <1>2 DEF OpSelectHigh, Mail
<1>6. ~NodeVerdict
  BY <1>1 DEF NodeVerdict
<1>7. ~JudgeOk
  BY <1>1 DEF JudgeOk
<1>8. ~JudgeStale
  BY <1>0 DEF JudgeStale, Charges, Live, ladder
<1>9. ~JudgeElsewhere
  BY <1>0 DEF JudgeElsewhere, Refilled, Charges, Live
<1>10. ~JudgeGone
  <2> SUFFICES ASSUME JudgeGone PROVE FALSE
    OBVIOUS
  <2>1. low'.cur = low.cur /\ high'.cur = high.cur
    BY Stays
  <2>2. UNCHANGED <<port, session>>
    BY DEF JudgeGone, ladder
  <2>3. low'.rec[low.cur] = low.rec[low.cur]
    <3>1. mail.about.low \in 0 .. n - 1
      BY <1>1, Named
    <3>2. UNCHANGED low \/ (LowGone /\ low' = MarkSuspect(low, mail.about.low))
      BY DEF JudgeGone
    <3>3. LowGone => MarkSuspect(low, mail.about.low).rec[low.cur] = low.rec[low.cur]
      <4>1. \A j \in 0 .. n - 1 :
               j # mail.about.low => Burn(low, mail.about.low).rec[j] = low.rec[j]
        BY <1>0, <3>1, BurnType
      <4> QED BY <1>0, <4>1 DEF MarkSuspect, LowGone
    <3> QED BY <3>2, <3>3
  <2> QED BY <1>0, <2>1, <2>2, <2>3 DEF Charges, Live
<1> QED BY <1>3, <1>4, <1>5, <1>6, <1>7, <1>8, <1>9, <1>10 DEF Next, Judge

\* A climb is for the pair that was measured, on rungs spent on it.
LEMMA ClimbIsFair ==
  ASSUME NEW n \in Nat \ {0}, NEW m \in Nat \ {0}, Inv(n, m), JudgeClimb
  PROVE  /\ spentFor \subseteq {Live}
         /\ mail.about.old => dirty
         /\ <<mail.about.low, mail.about.high>> = <<active, high.cur>>
<1>1. /\ Blamed /\ ~LowGone /\ ~HighGone /\ accused \in {NoPair, Live}
  BY DEF JudgeClimb, Charged
<1>2. spentFor \subseteq {Live}
  <2>1. spentFor \subseteq {accused} /\ spentFor \subseteq Spots(n, m)
    BY DEF Inv, OwnRungs, LadderTypes
  <2>2. NoPair \notin Spots(n, m)
    BY DEF Spots, NoPair
  <2> QED BY <1>1, <2>1, <2>2
<1>3. mail.about.old => dirty
  BY <1>1 DEF Blamed, Stale, Inv, Measured
<1>4. mail.about.low = active /\ mail.about.high = high.cur
  BY <1>1 DEF LowGone, HighGone, Inv, LandedWhereThePoolsSay
<1> QED BY <1>2, <1>3, <1>4

\* The two action properties, of a step.
LEMMA StepIsFair ==
  IInv /\ [Next]_vars =>
    /\ [Walks => spentFor \subseteq {Live}]_vars
    /\ [Charges => /\ mail.about.old => dirty
                   /\ <<mail.about.low, mail.about.high>> = <<active, high.cur>>]_vars
<1> SUFFICES ASSUME IInv, [Next]_vars, Charges
             PROVE  /\ spentFor \subseteq {Live}
                    /\ mail.about.old => dirty
                    /\ <<mail.about.low, mail.about.high>> = <<active, high.cur>>
  BY DEF Walks
<1>1. PICK n \in Nat \ {0}, m \in Nat \ {0} : Inv(n, m)
  BY DEF IInv
<1>2. JudgeClimb
  BY <1>1, ChargesClimb
<1> QED BY <1>1, <1>2, ClimbIsFair

----------------------------------------------------------------------------
(* The theorems.                                                           *)

\* For pools of any sizes and any backoff: the variables keep their types, so the rungs
\* stay within their budgets, the odometer within the pool, the revive clock within
\* ladderRevive, and retestBackoff never reads past suspectBackoff.
THEOREM RotationTypeOK == Spec => []TypeOK
BY Invariance, InvImplies, PTL

\* currentLocked, which can move the cursor of a pool nothing committed, never does: the
\* status writer may ask for the live pair at any moment.
THEOREM ReadsStayPut == Spec => []ReadsNeverMove
BY Invariance, InvImplies, PTL

\* After every landing, failed bind and rejected candidate the carrier is on the
\* destination and bound to the source its pools say, unless no source bound at all.
THEOREM CarrierLanded == Spec => []LandedWhereThePoolsSay
BY Invariance, InvImplies, PTL

\* The controller walks off a pair only on rungs that were spent on that pair, whatever
\* timed rotations, commands and restarts of the ladder lie in between.
THEOREM WalksOnOwnRungs == Spec => WalksOnItsOwnRungs
BY Invariance, StepIsFair, PTL DEF Spec, WalksOnItsOwnRungs

\* A verdict charges the ladder only for the path of the status it is about, or while the
\* change of it is still unseen, and only for the pair the carrier is on.
THEOREM ChargesMeasured == Spec => ChargesTheMeasuredPath
BY Invariance, StepIsFair, PTL DEF Spec, ChargesTheMeasuredPath
=============================================================================
