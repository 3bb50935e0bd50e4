---------------------------- MODULE StripeProofs ----------------------------
(***************************************************************************)
(* Proofs about Stripe: for any number of streams, any limits and any       *)
(* number of records and breaks, the records come out as from a FIFO pipe,  *)
(* and while the session lives none vanishes except on a stream that died   *)
(* after taking it.                                                        *)
(***************************************************************************)
EXTENDS Stripe, FiniteSetTheorems, SequenceTheorems, WellFoundedInduction, TLAPS

----------------------------------------------------------------------------
(* Numbers, sets and sequences.                                            *)

\* The least-number principle, for sets.
LEMMA LeastNatural ==
  ASSUME NEW T, T \subseteq Nat, T # {}
  PROVE  \E x \in T : \A y \in T : x <= y
<1> DEFINE R == OpToRel(<, Nat)
<1>1. IsWellFoundedOn(R, Nat)
  BY NatLessThanWellFounded, Zenon
<1>2. \A x, y \in Nat : x < y => <<x, y>> \in R
  BY DEF OpToRel
<1> HIDE DEF R
<1>3. PICK x \in T : \A y \in T : ~(<<y, x>> \in R)
  BY <1>1, WFMin
<1>4. \A y \in T : x <= y
  <2> SUFFICES ASSUME NEW y \in T, ~(x <= y) PROVE FALSE
    OBVIOUS
  <2>1. x \in Nat /\ y \in Nat
    OBVIOUS
  <2>2. y < x
    BY <2>1
  <2>3. <<y, x>> \in R
    BY <1>2, <2>1, <2>2, Zenon
  <2> QED BY <1>3, <2>3
<1> QED BY <1>4

\* What a mapping by a function leaves of a finite set is finite and no larger.
LEMMA ImageFinite ==
  ASSUME NEW P, NEW f, DOMAIN f = P, f \in [P -> {f[x] : x \in P}], IsFiniteSet(P)
  PROVE  /\ IsFiniteSet({f[x] : x \in P})
         /\ Cardinality({f[x] : x \in P}) <= Cardinality(P)
<1>1. f \in Surjection(P, {f[x] : x \in P})
  BY DEF Surjection
<1> QED BY <1>1, FS_Surjection

\* A finite set of numbers has a first gap at or after start, and it is not far away.
LEMMA FirstGap ==
  ASSUME NEW N, IsFiniteSet(N), NEW c \in Nat, Cardinality(N) <= c, NEW start \in Nat
  PROVE  \E k \in start .. start + c : start .. k - 1 \subseteq N /\ k \notin N
<1> DEFINE T == {k \in start .. start + c : k \notin N}
<1>1. T # {}
  <2> SUFFICES ASSUME T = {} PROVE FALSE
    OBVIOUS
  <2>1. start .. start + c \in SUBSET N
    OBVIOUS
  <2>2. Cardinality(start .. start + c) <= Cardinality(N)
    BY <2>1, FS_Subset
  <2>3. Cardinality(start .. start + c) = c + 1
    BY FS_Interval
  <2>4. Cardinality(N) \in Nat
    BY FS_CardinalityType
  <2> QED BY <2>2, <2>3, <2>4
<1>2. T \subseteq Nat
  OBVIOUS
<1>3. PICK k \in T : \A y \in T : k <= y
  BY <1>1, <1>2, LeastNatural
<1>4. start .. k - 1 \subseteq N
  <2> SUFFICES ASSUME NEW y \in start .. k - 1, y \notin N PROVE FALSE
    OBVIOUS
  <2>1. y \in T
    BY <1>3
  <2> QED BY <1>2, <1>3, <2>1
<1> QED BY <1>3, <1>4

\* The elements of a sequence.
Elements(q) == {q[j] : j \in DOMAIN q}

\* An appended element is the one new element.
LEMMA ElementsAppend ==
  ASSUME NEW T, NEW q \in Seq(T), NEW e \in T
  PROVE  Append(q, e) \in Seq(T) /\ Elements(Append(q, e)) = Elements(q) \union {e}
<1> DEFINE a == Append(q, e)
<1>1. a \in Seq(T) /\ DOMAIN a = 1 .. Len(q) + 1 /\ DOMAIN q = 1 .. Len(q)
  BY AppendProperties, LenProperties
<1>2. (\A j \in 1 .. Len(q) : a[j] = q[j]) /\ a[Len(q) + 1] = e
  BY AppendProperties
<1>3. Len(q) \in Nat
  BY LenProperties
<1> HIDE DEF a
<1>4. Elements(a) = {a[j] : j \in 1 .. Len(q)} \union {a[Len(q) + 1]}
  BY <1>1, <1>3 DEF Elements
<1>5. {a[j] : j \in 1 .. Len(q)} = Elements(q)
  BY <1>1, <1>2 DEF Elements
<1> QED BY <1>1, <1>2, <1>4, <1>5 DEF a

\* A concatenation has the elements of both parts.
LEMMA ElementsConcat ==
  ASSUME NEW T, NEW q \in Seq(T), NEW r \in Seq(T)
  PROVE  q \o r \in Seq(T) /\ Elements(q \o r) = Elements(q) \union Elements(r)
<1>1. \A j \in DOMAIN r : (q \o r)[Len(q) + j] = r[j] /\ Len(q) + j \in DOMAIN (q \o r)
  BY ConcatProperties
<1>2. \A j \in DOMAIN q : (q \o r)[j] = q[j] /\ j \in DOMAIN (q \o r)
  BY ConcatProperties
<1>3. ASSUME NEW j \in DOMAIN (q \o r) PROVE (q \o r)[j] \in Elements(q) \union Elements(r)
  <2>1. j \in 1 .. Len(q) + Len(r)
    BY ConcatProperties, LenProperties
  <2>2. CASE j <= Len(q)
    BY <2>1, <2>2, ConcatProperties DEF Elements
  <2>3. CASE j > Len(q)
    <3>0. Len(q) \in Nat /\ Len(r) \in Nat /\ DOMAIN r = 1 .. Len(r)
      BY LenProperties
    <3>1. j - Len(q) \in DOMAIN r
      BY <2>1, <2>3, <3>0
    <3>2. j = Len(q) + (j - Len(q))
      BY <2>1, <3>0
    <3>3. (q \o r)[j] = r[j - Len(q)]
      BY <1>1, <3>1, <3>2
    <3> QED BY <3>1, <3>3 DEF Elements
  <2> QED BY <2>1, <2>2, <2>3, LenProperties
<1>4. Elements(q) \subseteq Elements(q \o r) /\ Elements(r) \subseteq Elements(q \o r)
  <2>1. ASSUME NEW j \in DOMAIN q PROVE q[j] \in Elements(q \o r)
    BY <1>2 DEF Elements
  <2>2. ASSUME NEW j \in DOMAIN r PROVE r[j] \in Elements(q \o r)
    BY <1>1 DEF Elements
  <2> QED BY <2>1, <2>2 DEF Elements
<1>5. Elements(q \o r) \subseteq Elements(q) \union Elements(r)
  BY <1>3 DEF Elements
<1>6. q \o r \in Seq(T)
  BY ConcatProperties
<1> QED BY <1>4, <1>5, <1>6

\* A sequence is its head and its tail.
LEMMA ElementsHeadTail ==
  ASSUME NEW T, NEW q \in Seq(T), q # <<>>
  PROVE  /\ Head(q) \in T /\ Tail(q) \in Seq(T)
         /\ Elements(q) = {Head(q)} \union Elements(Tail(q))
<1>1. Head(q) \in T /\ Tail(q) \in Seq(T)
  OBVIOUS
<1>2. Elements(q) \subseteq {Head(q)} \union Elements(Tail(q))
  <2> SUFFICES ASSUME NEW j \in DOMAIN q, j # 1 PROVE q[j] \in Elements(Tail(q))
    BY DEF Elements
  <2>1. j - 1 \in DOMAIN Tail(q) /\ Tail(q)[j - 1] = q[j]
    OBVIOUS
  <2> QED BY <2>1 DEF Elements
<1>3. {Head(q)} \union Elements(Tail(q)) \subseteq Elements(q)
  BY DEF Elements
<1> QED BY <1>1, <1>2, <1>3

\* A beginning of a sequence has no other elements.
LEMMA ElementsPrefix ==
  ASSUME NEW T, NEW q \in Seq(T), NEW k \in 0 .. Len(q)
  PROVE  SubSeq(q, 1, k) \in Seq(T) /\ Elements(SubSeq(q, 1, k)) \subseteq Elements(q)
BY DEF Elements

----------------------------------------------------------------------------
Rec == [n : Nat, id : Nat]

\* What is in a queue of runs, and what the streams hold in h (in hand or on the wire).
Queued(w) == UNION {Elements(q) : q \in Elements(w)}
Spread(h) == UNION {Elements(h[s]) : s \in S}

\* Every copy of a record that has not come out.
Where == pend \union Queued(work) \union Spread(hand) \union Spread(pipe)

Types ==
  /\ seq \in Nat
  /\ work \in Seq(Seq(Rec))
  /\ hand \in [S -> Seq(Rec)] /\ pipe \in [S -> Seq(Rec)]
  /\ st \in [S -> {"serve", "gather", "more", "write", "requeue", "ended", "down"}]
  /\ pend \in SUBSET Rec /\ IsFiniteSet(pend)
  /\ closed \in BOOLEAN

\* A serve that holds no run has empty hands.
Idle == \A s \in S : st[s] \in {"serve", "ended", "down"} => hand[s] = <<>>

\* A number belongs to one content, whichever copy carries it.
Sound == \A r \in Where : r.id = r.n + 1 /\ r.n < seq

\* What came out is a beginning of what was accepted.
Ordered == accepted = seq /\ next \in 0 .. seq /\ out = [j \in 1 .. next |-> j]

IInv == Types /\ Idle /\ Sound /\ Ordered

----------------------------------------------------------------------------
(* Queues and streams as sets of records.                                  *)

\* A new session satisfies the invariant.
LEMMA InitInvariant == Init => IInv
<1> SUFFICES ASSUME Init PROVE IInv
  OBVIOUS
<1> USE DEF Init
<1>1. Elements(<<>>) = {}
  BY DEF Elements
<1>2. Where = {}
  BY <1>1 DEF Where, Queued, Spread
<1>3. Types
  <2>1. IsFiniteSet(pend)
    BY FS_EmptySet
  <2>2. work \in Seq(Seq(Rec)) /\ hand \in [S -> Seq(Rec)] /\ pipe \in [S -> Seq(Rec)]
    OBVIOUS
  <2>3. st \in [S -> {"serve", "gather", "more", "write", "requeue", "ended", "down"}]
    OBVIOUS
  <2> QED BY <2>1, <2>2, <2>3 DEF Types
<1>4. Idle /\ Ordered
  BY DEF Idle, Ordered
<1> QED BY <1>2, <1>3, <1>4 DEF IInv, Sound

\* A run joins the queue.
LEMMA QueueAppend ==
  ASSUME NEW w \in Seq(Seq(Rec)), NEW q \in Seq(Rec)
  PROVE  /\ Append(w, q) \in Seq(Seq(Rec))
         /\ Queued(Append(w, q)) = Queued(w) \union Elements(q)
BY ElementsAppend DEF Queued

\* The oldest run leaves it.
LEMMA QueueHead ==
  ASSUME NEW w \in Seq(Seq(Rec)), w # <<>>
  PROVE  /\ Head(w) \in Seq(Rec) /\ Tail(w) \in Seq(Seq(Rec))
         /\ Queued(w) = Elements(Head(w)) \union Queued(Tail(w))
BY ElementsHeadTail DEF Queued

\* One stream's part of h changes.
LEMMA SpreadExcept ==
  ASSUME NEW h \in [S -> Seq(Rec)], NEW s \in S, NEW q \in Seq(Rec)
  PROVE  LET g == [h EXCEPT ![s] = q]
         IN  /\ g \in [S -> Seq(Rec)]
             /\ g[s] = q
             /\ Elements(h[s]) \subseteq Spread(h)
             /\ Spread(g) \subseteq Spread(h) \union Elements(q)
             /\ Spread(h) \union Elements(q) \subseteq Spread(g) \union Elements(h[s])
             /\ Elements(q) \subseteq Spread(g)
<1> DEFINE g == [h EXCEPT ![s] = q]
<1>1. g \in [S -> Seq(Rec)] /\ g[s] = q /\ \A t \in S : t # s => g[t] = h[t]
  OBVIOUS
<1> HIDE DEF g
<1>2. Elements(h[s]) \subseteq Spread(h) /\ Elements(q) \subseteq Spread(g)
  BY <1>1 DEF Spread
<1>3. Spread(g) \subseteq Spread(h) \union Elements(q)
  BY <1>1 DEF Spread
<1>4. Spread(h) \subseteq Spread(g) \union Elements(h[s])
  BY <1>1 DEF Spread
<1> QED BY <1>1, <1>2, <1>3, <1>4 DEF g

\* The model's name for the elements of a run.
LEMMA SameRecords == \A q : Records(q) = Elements(q)
BY DEF Records, Elements

\* Empty hands hold nothing.
LEMMA Nothing == Elements(<<>>) = {} /\ <<>> \in Seq(Rec)
BY DEF Elements

\* A record is its number and its content.
LEMMA RecordEqual == ASSUME NEW a \in Rec, NEW b \in Rec, a.n = b.n, a.id = b.id PROVE a = b
BY DEF Rec

\* Every copy is a record.
LEMMA WhereTyped == Types => Where \subseteq Rec
<1> SUFFICES ASSUME Types PROVE Where \subseteq Rec
  OBVIOUS
<1>1. \A q \in Seq(Rec) : Elements(q) \subseteq Rec
  BY DEF Elements
<1>2. \A q \in Elements(work) : q \in Seq(Rec)
  BY DEF Elements, Types
<1>3. Queued(work) \subseteq Rec
  BY <1>1, <1>2 DEF Queued
<1>4. Spread(hand) \subseteq Rec /\ Spread(pipe) \subseteq Rec
  BY <1>1 DEF Spread, Types
<1> QED BY <1>3, <1>4 DEF Where, Types

----------------------------------------------------------------------------
(* The steps that only move copies of records around.                      *)

\* What such a step does: it makes no record up, and unless it ends the session or
\* charges a loss to a broken stream it leaves none behind.
Carries ==
  /\ UNCHANGED <<seq, accepted, next, out>>
  /\ Types' /\ Idle'
  /\ Where' \subseteq Where
  /\ lost \subseteq lost'
  /\ closed' \/ Where \subseteq Where' \union lost'

\* serve takes a run from the queue into its empty hands.
LEMMA TakeCarries == ASSUME IInv, NEW s \in S, Take(s) PROVE Carries
<1> USE DEF IInv, Types, Take, At, Move, rx
<1>1. hand[s] = <<>>
  BY DEF Idle
<1>2. /\ Head(work) \in Seq(Rec) /\ work' \in Seq(Seq(Rec))
      /\ Queued(work) = Elements(Head(work)) \union Queued(work')
  BY QueueHead
<1>3. /\ hand' \in [S -> Seq(Rec)]
      /\ Spread(hand') \subseteq Spread(hand) \union Elements(Head(work))
      /\ Spread(hand) \union Elements(Head(work)) \subseteq Spread(hand') \union Elements(hand[s])
  BY <1>2, SpreadExcept
<1>4. Types' /\ Idle'
  BY <1>2, <1>3 DEF Idle
<1>5. Where' = Where
  BY <1>1, <1>2, <1>3, Nothing DEF Where
<1> QED BY <1>4, <1>5 DEF Carries

\* It takes another one, or settles for what it has.
LEMMA GatherCarries == ASSUME IInv, NEW s \in S, Gather(s) PROVE Carries
<1> USE DEF IInv, Types, Gather, At, Move, rx
<1>1. CASE work # <<>> /\ (st[s] = "gather" \/ Len(hand[s]) < Batch)
  <2>1. /\ Head(work) \in Seq(Rec) /\ work' \in Seq(Seq(Rec))
        /\ Queued(work) = Elements(Head(work)) \union Queued(work')
    BY <1>1, QueueHead
  <2>2. /\ hand[s] \o Head(work) \in Seq(Rec)
        /\ Elements(hand[s] \o Head(work)) = Elements(hand[s]) \union Elements(Head(work))
    BY <2>1, ElementsConcat
  <2>3. hand' = [hand EXCEPT ![s] = hand[s] \o Head(work)]
    BY <1>1
  <2>4. /\ hand' \in [S -> Seq(Rec)]
        /\ Elements(hand[s]) \subseteq Spread(hand)
        /\ Spread(hand') \subseteq Spread(hand) \union Elements(hand[s] \o Head(work))
        /\ Spread(hand) \subseteq Spread(hand') \union Elements(hand[s])
        /\ Elements(hand[s] \o Head(work)) \subseteq Spread(hand')
    BY <2>2, <2>3, SpreadExcept
  <2>5. Types' /\ Idle'
    BY <1>1, <2>1, <2>4 DEF Idle
  <2>6. Where' = Where
    BY <2>1, <2>2, <2>4 DEF Where
  <2> QED BY <2>5, <2>6 DEF Carries
<1>2. CASE ~(work # <<>> /\ (st[s] = "gather" \/ Len(hand[s]) < Batch))
  <2>1. Types' /\ Idle'
    BY <1>2 DEF Idle
  <2>2. Where' = Where
    BY <1>2 DEF Where
  <2> QED BY <2>1, <2>2 DEF Carries
<1> QED BY <1>1, <1>2

\* The run goes from its hands to the stream.
LEMMA WriteOkCarries == ASSUME IInv, NEW s \in S, WriteOk(s) PROVE Carries
<1> USE DEF IInv, Types, WriteOk, At, Move, rx, tx
<1>1. /\ pipe[s] \o hand[s] \in Seq(Rec)
      /\ Elements(pipe[s] \o hand[s]) = Elements(pipe[s]) \union Elements(hand[s])
  BY ElementsConcat
<1>2. /\ pipe' \in [S -> Seq(Rec)]
      /\ Elements(pipe[s]) \subseteq Spread(pipe)
      /\ Spread(pipe') \subseteq Spread(pipe) \union Elements(pipe[s] \o hand[s])
      /\ Spread(pipe) \subseteq Spread(pipe') \union Elements(pipe[s])
      /\ Elements(pipe[s] \o hand[s]) \subseteq Spread(pipe')
  BY <1>1, SpreadExcept
<1>3. /\ hand' \in [S -> Seq(Rec)]
      /\ Elements(hand[s]) \subseteq Spread(hand)
      /\ Spread(hand') \subseteq Spread(hand) \union Elements(<<>>)
      /\ Spread(hand) \subseteq Spread(hand') \union Elements(hand[s])
  BY Nothing, SpreadExcept
<1>4. Types' /\ Idle'
  BY <1>2, <1>3 DEF Idle
<1>5. Where' = Where
  BY <1>1, <1>2, <1>3, Nothing DEF Where
<1> QED BY <1>4, <1>5 DEF Carries

\* The run goes back to the queue, or away with the session.
LEMMA RequeueCarries == ASSUME IInv, NEW s \in S, Requeue(s) PROVE Carries
<1> USE DEF IInv, Types, Requeue, At, Move, Returns, rx, tx
<1>1. /\ hand' \in [S -> Seq(Rec)]
      /\ Elements(hand[s]) \subseteq Spread(hand)
      /\ Spread(hand') \subseteq Spread(hand) \union Elements(<<>>)
      /\ Spread(hand) \subseteq Spread(hand') \union Elements(hand[s])
      /\ hand'[s] = <<>> /\ \A t \in S \ {s} : hand'[t] = hand[t]
  BY Nothing, SpreadExcept
<1>2. st' \in [S -> {"serve", "gather", "more", "write", "requeue", "ended", "down"}]
      /\ \A t \in S \ {s} : st'[t] = st[t]
  OBVIOUS
<1>3. Idle'
  BY <1>1, <1>2 DEF Idle
<1>4. CASE ~Full /\ work' = Append(work, hand[s])
  <2>1. work' \in Seq(Seq(Rec)) /\ Queued(work') = Queued(work) \union Elements(hand[s])
    BY <1>4, QueueAppend
  <2>2. Where' = Where
    BY <1>1, <2>1, Nothing DEF Where
  <2> QED BY <1>1, <1>2, <1>3, <2>1, <2>2 DEF Carries
<1>5. CASE closed /\ UNCHANGED work
  <2>1. Where' \subseteq Where
    BY <1>1, <1>5, Nothing DEF Where
  <2> QED BY <1>1, <1>2, <1>3, <1>5, <2>1 DEF Carries
<1> QED BY <1>4, <1>5

\* A connection dies: what its stream loses was on it, and what it keeps of the run that
\* is being written is in the hands of its serve.
LEMMA BreakCarries == ASSUME IInv, NEW s \in S, Break(s) PROVE Carries
<1> USE DEF IInv, Types, Break, At, rx, tx
<1>1. PICK k \in 0 .. Len(pipe[s]) + (IF At(s, "write") THEN Len(hand[s]) ELSE 0) :
         /\ pipe' = [pipe EXCEPT ![s] = SubSeq(pipe[s] \o hand[s], 1, k)]
         /\ lost' = lost \union (Records(pipe[s]) \ Records(pipe'[s]))
  OBVIOUS
<1> DEFINE q == SubSeq(pipe[s] \o hand[s], 1, k)
<1>2. /\ pipe[s] \o hand[s] \in Seq(Rec)
      /\ Elements(pipe[s] \o hand[s]) = Elements(pipe[s]) \union Elements(hand[s])
      /\ Len(pipe[s] \o hand[s]) = Len(pipe[s]) + Len(hand[s])
      /\ Len(pipe[s]) \in Nat /\ Len(hand[s]) \in Nat
  BY ElementsConcat, ConcatProperties, LenProperties
<1>3. k \in 0 .. Len(pipe[s] \o hand[s])
  BY <1>1, <1>2
<1>4. q \in Seq(Rec) /\ Elements(q) \subseteq Elements(pipe[s]) \union Elements(hand[s])
  BY <1>2, <1>3, ElementsPrefix
<1>5. pipe' = [pipe EXCEPT ![s] = q]
  BY <1>1
<1> HIDE DEF q
<1>6. /\ pipe' \in [S -> Seq(Rec)] /\ pipe'[s] = q
      /\ Elements(pipe[s]) \subseteq Spread(pipe)
      /\ Spread(pipe') \subseteq Spread(pipe) \union Elements(q)
      /\ Spread(pipe) \subseteq Spread(pipe') \union Elements(pipe[s])
      /\ Elements(q) \subseteq Spread(pipe')
  BY <1>4, <1>5, SpreadExcept
<1>7. lost' = lost \union (Elements(pipe[s]) \ Elements(q))
  BY <1>1, <1>6, SameRecords
<1>8. Elements(hand[s]) \subseteq Spread(hand)
  BY SpreadExcept, Nothing
<1>9. Types' /\ Idle'
  BY <1>6 DEF Idle
<1>10. Where' \subseteq Where /\ Where \subseteq Where' \union lost'
  BY <1>4, <1>6, <1>7, <1>8 DEF Where
<1> QED BY <1>7, <1>9, <1>10 DEF Carries

\* The other steps of a session leave the records where they are.
LEMMA OthersCarry ==
  ASSUME IInv,
         \/ Expire \/ Drop
         \/ \E s \in S : WriteFails(s) \/ ServeEnds(s) \/ SenderDetaches(s) \/ Reopen(s)
                          \/ ReadEnds(s) \/ ReceiverDetaches(s)
  PROVE  Carries
<1> USE DEF IInv, Types, Idle, At, Move, Returns, rx, tx, stream
<1>1. CASE Expire \/ Drop
  <2>1. UNCHANGED <<seq, accepted, next, out, work, hand, pipe, st, pend, lost>>
    BY <1>1 DEF Expire, Drop
  <2>2. closed' \in BOOLEAN
    BY <1>1 DEF Expire, Drop
  <2> QED BY <2>1, <2>2 DEF Carries, Where
<1>2. ASSUME NEW s \in S, WriteFails(s) \/ ServeEnds(s) \/ SenderDetaches(s) \/ Reopen(s)
                          \/ ReadEnds(s) \/ ReceiverDetaches(s)
      PROVE  Carries
  <2>1. UNCHANGED <<seq, accepted, next, out, work, hand, pipe, pend, lost>>
    BY <1>2 DEF WriteFails, ServeEnds, SenderDetaches, Reopen, ReadEnds, ReceiverDetaches
  <2>2. closed' \in BOOLEAN
    BY <1>2 DEF WriteFails, ServeEnds, SenderDetaches, Reopen, ReadEnds, ReceiverDetaches
  <2>3. /\ st' \in [S -> {"serve", "gather", "more", "write", "requeue", "ended", "down"}]
        /\ \A t \in S \ {s} : st'[t] = st[t]
        /\ st'[s] \in {"serve", "ended", "down"} => st[s] \in {"serve", "ended", "down"}
    BY <1>2 DEF WriteFails, ServeEnds, SenderDetaches, Reopen, ReadEnds, ReceiverDetaches
  <2> QED BY <2>1, <2>2, <2>3 DEF Carries, Where
<1> QED BY <1>1, <1>2

----------------------------------------------------------------------------
(* A record is accepted.                                                   *)

\* The new record is sound, and the one that joins the ones there are.
LEMMA WriteSound ==
  ASSUME IInv, Write
  PROVE  /\ Types' /\ Idle' /\ Sound' /\ Ordered'
         /\ Where' = Where \union {[n |-> seq, id |-> accepted + 1]}
<1> USE DEF IInv, Types, Write, rx, stream
<1> DEFINE r == [n |-> seq, id |-> accepted + 1]
<1>1. r \in Rec /\ r.n = seq /\ r.id = seq + 1
  BY DEF Rec, Ordered
<1>2. work' = Append(work, <<r>>)
  OBVIOUS
<1> HIDE DEF r
<1>3. <<r>> \in Seq(Rec) /\ Elements(<<r>>) = {r}
  BY <1>1 DEF Elements
<1>4. work' \in Seq(Seq(Rec)) /\ Queued(work') = Queued(work) \union {r}
  BY <1>2, <1>3, QueueAppend
<1>5. Where' = Where \union {r}
  BY <1>4 DEF Where
<1>6. Types' /\ Idle' /\ Ordered'
  BY <1>4 DEF Idle, Ordered
<1>7. Sound'
  <2>1. \A x \in Where : x.n \in Nat /\ x.n < seq /\ x.id = x.n + 1
    BY WhereTyped DEF Sound, Rec
  <2>2. seq \in Nat /\ seq' = seq + 1
    OBVIOUS
  <2> QED BY <1>1, <1>5, <2>1, <2>2 DEF Sound
<1> QED BY <1>5, <1>6, <1>7 DEF r

----------------------------------------------------------------------------
(* A record is read.                                                       *)

\* What Run takes from a set of sound records: the ones that are numbered from next on,
\* up to the first that is missing.
LEMMA RunTakes ==
  ASSUME IInv, NEW p \in SUBSET Rec, IsFiniteSet(p),
         \A r \in p : r.id = r.n + 1 /\ r.n < seq
  PROVE  \E last \in next .. seq :
           /\ Run(p) \in Seq(Rec) /\ Len(Run(p)) = last - next
           /\ DOMAIN Run(p) = 1 .. last - next
           /\ \A j \in 1 .. last - next : Run(p)[j] \in p /\ Run(p)[j].id = next + j
<1> DEFINE Due(k) == next .. k - 1 \subseteq Numbers(p) /\ k \notin Numbers(p)
           last == CHOOSE k \in next .. next + Cardinality(p) : Due(k)
           due == [j \in 1 .. last - next |-> CHOOSE r \in p : r.n = next + j - 1]
<1>1. next \in Nat /\ seq \in Nat /\ next <= seq
  BY DEF IInv, Types, Ordered
<1>2. IsFiniteSet(Numbers(p)) /\ Cardinality(Numbers(p)) <= Cardinality(p)
  <2> DEFINE f == [r \in p |-> r.n]
  <2>1. Numbers(p) = {f[r] : r \in p}
    BY DEF Numbers
  <2>2. DOMAIN f = p /\ f \in [p -> {f[r] : r \in p}]
    OBVIOUS
  <2> HIDE DEF f
  <2>3. /\ IsFiniteSet({f[r] : r \in p})
        /\ Cardinality({f[r] : r \in p}) <= Cardinality(p)
    BY <2>2, ImageFinite
  <2> QED BY <2>1, <2>3
<1>3. Cardinality(p) \in Nat
  BY FS_CardinalityType
<1>4. \E k \in next .. next + Cardinality(p) : Due(k)
  BY <1>1, <1>2, <1>3, FirstGap
<1>5. last \in next .. next + Cardinality(p) /\ Due(last)
  BY <1>4
<1>6. Run(p) = due
  BY DEF Run
<1> HIDE DEF last
<1>7. last \in Nat /\ last >= next
  BY <1>1, <1>3, <1>5
<1>8. ASSUME NEW j \in 1 .. last - next PROVE due[j] \in p /\ due[j].n = next + j - 1
  <2>1. next + j - 1 \in Numbers(p)
    BY <1>1, <1>5, <1>7
  <2>2. \E r \in p : r.n = next + j - 1
    BY <2>1 DEF Numbers
  <2>3. due[j] = CHOOSE r \in p : r.n = next + j - 1
    OBVIOUS
  <2> QED BY <2>2, <2>3
<1>9. due = [j \in 1 .. last - next |-> due[j]]
  OBVIOUS
<1> HIDE DEF due
<1>10. last <= seq
  <2>1. CASE last = next
    BY <1>1, <2>1
  <2>2. CASE last > next
    <3>1. last - next \in 1 .. last - next
      BY <1>1, <1>7, <2>2
    <3>2. due[last - next] \in p /\ due[last - next].n = last - 1
      BY <1>1, <1>7, <1>8, <3>1
    <3> QED BY <1>1, <1>7, <3>2
  <2> QED BY <1>1, <1>7, <2>1, <2>2
<1>11. due \in Seq(Rec) /\ Len(due) = last - next /\ DOMAIN due = 1 .. last - next
  <2>1. \A j \in 1 .. last - next : due[j] \in Rec
    BY <1>8
  <2>2. due \in [1 .. last - next -> Rec] /\ last - next \in Nat
    BY <1>1, <1>7, <1>9, <2>1
  <2>3. due \in Seq(Rec)
    BY <2>2, SeqDef
  <2>4. DOMAIN due = 1 .. Len(due) /\ Len(due) \in Nat
    BY <2>3, LenProperties
  <2> QED BY <2>2, <2>3, <2>4
<1>12. \A j \in 1 .. last - next : due[j] \in p /\ due[j].id = next + j
  <2> SUFFICES ASSUME NEW j \in 1 .. last - next
               PROVE  due[j] \in p /\ due[j].id = next + j
    OBVIOUS
  <2>1. due[j] \in p /\ due[j].n = next + j - 1
    BY <1>8
  <2>2. due[j].id = due[j].n + 1
    BY <2>1
  <2> QED BY <1>1, <2>1, <2>2
<1> QED BY <1>1, <1>6, <1>7, <1>10, <1>11, <1>12

\* A record is read: it is passed over or kept, what is due goes out, and whatever is
\* nowhere any more has come out.
LEMMA ReadDelivers ==
  ASSUME IInv, NEW s \in S, Read(s)
  PROVE  /\ Types' /\ Idle' /\ Sound' /\ Ordered'
         /\ UNCHANGED <<accepted, lost>> /\ next <= next'
         /\ closed' \/ \A r \in Where : r \in Where' \/ r.id <= next'
<1> USE DEF IInv, Types, Read, tx
<1> DEFINE r == Head(pipe[s])
<1>1. /\ r \in Rec /\ Tail(pipe[s]) \in Seq(Rec)
      /\ Elements(pipe[s]) = {r} \union Elements(Tail(pipe[s]))
  BY ElementsHeadTail
<1>2. /\ pipe' \in [S -> Seq(Rec)]
      /\ Elements(pipe[s]) \subseteq Spread(pipe)
      /\ Spread(pipe') \subseteq Spread(pipe) \union Elements(Tail(pipe[s]))
      /\ Spread(pipe) \subseteq Spread(pipe') \union Elements(pipe[s])
      /\ Elements(Tail(pipe[s])) \subseteq Spread(pipe')
  BY <1>1, SpreadExcept
<1>3. r \in Where
  BY <1>1, <1>2 DEF Where
<1>4. r.id = r.n + 1 /\ r.n < seq /\ r.n \in Nat
  BY <1>1, <1>3 DEF Sound, Rec
<1>5. Deliver(r) /\ UNCHANGED <<seq, accepted, work, hand, st, lost>>
  OBVIOUS
<1>6. Spread(pipe') \subseteq Spread(pipe) /\ Spread(pipe) \subseteq Spread(pipe') \union {r}
  BY <1>1, <1>2
<1>7. next \in Nat /\ seq \in Nat /\ next <= seq /\ accepted = seq
  BY DEF Ordered
<1> HIDE DEF r
<1>8. CASE UNCHANGED rx /\ closed' \in BOOLEAN /\ (r.n < next \/ closed')
  <2>1. Types' /\ Idle' /\ Ordered'
    BY <1>2, <1>5, <1>8 DEF Idle, Ordered, rx
  <2>2. Where' \subseteq Where /\ Where \subseteq Where' \union {r}
    BY <1>5, <1>6, <1>8 DEF Where, rx
  <2>3. Sound'
    BY <1>5, <2>2 DEF Sound
  <2>4. next' = next
    BY <1>8 DEF rx
  <2>5. r.n < next => r.id <= next'
    BY <1>4, <1>7, <2>4
  <2> QED BY <1>5, <1>7, <1>8, <2>1, <2>2, <2>3, <2>4, <2>5
<1>9. CASE ~(UNCHANGED rx /\ closed' \in BOOLEAN /\ (r.n < next \/ closed'))
  <2> DEFINE p == {o \in pend : o.n # r.n} \union {r}
             due == Run(p)
  <2>1. /\ pend' = p \ Records(due)
        /\ next' = next + Len(due)
        /\ out' = out \o [j \in DOMAIN due |-> due[j].id]
        /\ UNCHANGED closed
    BY <1>5, <1>9 DEF Deliver
  <2>2. p \in SUBSET Rec /\ IsFiniteSet(p)
    <3>1. IsFiniteSet({o \in pend : o.n # r.n})
      BY FS_Subset
    <3> QED BY <1>1, <3>1, FS_AddElement
  <2>3. p \subseteq Where
    BY <1>3 DEF Where
  <2>4. \A o \in p : o.id = o.n + 1 /\ o.n < seq
    BY <2>3 DEF Sound
  <2>5. pend \subseteq p
    <3> SUFFICES ASSUME NEW o \in pend, o.n = r.n PROVE o = r
      OBVIOUS
    <3>1. o \in Rec /\ o \in Where
      BY DEF Where
    <3>2. o.id = r.id
      BY <1>4, <3>1 DEF Sound
    <3> QED BY <1>1, <3>1, <3>2, RecordEqual
  <2> HIDE DEF p
  <2>6. PICK last \in next .. seq :
           /\ due \in Seq(Rec) /\ Len(due) = last - next
           /\ DOMAIN due = 1 .. last - next
           /\ \A j \in 1 .. last - next : due[j] \in p /\ due[j].id = next + j
    BY <2>2, <2>4, RunTakes
  <2> HIDE DEF due
  <2>7. last \in Nat /\ last >= next /\ last <= seq /\ next' = last
    BY <1>7, <2>1, <2>6
  <2>8. out' = [j \in 1 .. last |-> j]
    <3> DEFINE a == [j \in 1 .. next |-> j]
               b == [j \in 1 .. last - next |-> next + j]
               c == [j \in 1 .. last |-> j]
    <3>1. out = a /\ [j \in DOMAIN due |-> due[j].id] = b
      BY <2>6 DEF Ordered
    <3>2. a \in Seq(Nat) /\ Len(a) = next
      BY <1>7
    <3>3. b \in Seq(Nat) /\ Len(b) = last - next
      BY <1>7, <2>7
    <3>4. c \in Seq(Nat) /\ Len(c) = last
      BY <2>7
    <3>5. a \o b \in Seq(Nat) /\ Len(a \o b) = last
          /\ \A j \in 1 .. last : (a \o b)[j] = IF j <= next THEN a[j] ELSE b[j - next]
      <4> HIDE DEF a, b
      <4>1. /\ a \o b \in Seq(Nat) /\ Len(a \o b) = Len(a) + Len(b)
            /\ \A j \in 1 .. Len(a) + Len(b) :
                 (a \o b)[j] = IF j <= Len(a) THEN a[j] ELSE b[j - Len(a)]
        BY <3>2, <3>3, ConcatProperties
      <4>2. Len(a) + Len(b) = last
        BY <1>7, <2>7, <3>2, <3>3
      <4> QED BY <3>2, <4>1, <4>2
    <3>6. \A j \in 1 .. last : (a \o b)[j] = c[j]
      BY <1>7, <2>7, <3>5
    <3>7. a \o b = c
      <4> HIDE DEF a, b, c
      <4> QED BY <3>4, <3>5, <3>6, SeqEqual
    <3> QED BY <2>1, <3>1, <3>7
  <2>9. Records(due) \subseteq p /\ \A o \in Records(due) : o.id <= last
    BY <1>7, <2>6, <2>7 DEF Records
  <2>10. pend' \in SUBSET Rec /\ IsFiniteSet(pend')
    BY <2>1, <2>2, FS_Subset
  <2>11. Where' \subseteq Where
    BY <1>5, <1>6, <2>1, <2>3 DEF Where
  <2>12. r \in p
    BY DEF p
  <2>13. \A o \in Where : o \in Where' \/ o.id <= next'
    BY <1>5, <1>6, <2>1, <2>5, <2>7, <2>9, <2>12 DEF Where
  <2>14. Types' /\ Idle'
    BY <1>2, <1>5, <2>1, <2>10 DEF Idle
  <2>15. Sound' /\ Ordered'
    BY <1>5, <1>7, <2>7, <2>8, <2>11 DEF Sound, Ordered
  <2> QED BY <1>5, <2>7, <2>13, <2>14, <2>15
<1> QED BY <1>8, <1>9

----------------------------------------------------------------------------
(* The invariant.                                                          *)

\* Every step keeps the invariant, and every step but Write and Read only carries.
LEMMA StepCarries ==
  ASSUME IInv, [Next]_vars
  PROVE  Write \/ (\E s \in S : Read(s)) \/ Carries
<1>1. CASE UNCHANGED vars
  <2>1. UNCHANGED <<seq, accepted, next, out, work, hand, pipe, st, pend, lost, closed>>
    BY <1>1 DEF vars, tx, rx, stream
  <2> QED BY <2>1 DEF IInv, Types, Idle, Where, Carries
<1>2. CASE Next
  BY <1>2, TakeCarries, GatherCarries, WriteOkCarries, RequeueCarries, BreakCarries,
     OthersCarry DEF Next, Serve, Receive
<1> QED BY <1>1, <1>2

\* A session that is over stays over.
LEMMA ClosedStays == ASSUME IInv, [Next]_vars, closed PROVE closed'
<1> USE DEF IInv, Types
<1>1. CASE UNCHANGED vars
  BY <1>1 DEF vars
<1>2. CASE Write \/ Expire \/ Drop
  BY <1>2 DEF Write, Expire, Drop
<1>3. ASSUME NEW s \in S, Serve(s) PROVE closed'
  BY <1>3 DEF Serve, Take, Gather, WriteOk, WriteFails, Requeue, ServeEnds,
              SenderDetaches, Returns
<1>4. ASSUME NEW s \in S, Receive(s) PROVE closed'
  BY <1>4 DEF Receive, Read, ReadEnds, ReceiverDetaches
<1>5. ASSUME NEW s \in S, Reopen(s) \/ Break(s) PROVE closed'
  BY <1>5 DEF Reopen, Break
<1> QED BY <1>1, <1>2, <1>3, <1>4, <1>5 DEF Next

\* The invariant is kept.
LEMMA StepInvariant == IInv /\ [Next]_vars => IInv'
<1> SUFFICES ASSUME IInv, [Next]_vars PROVE IInv'
  OBVIOUS
<1>1. ASSUME Carries PROVE IInv'
  BY <1>1 DEF Carries, IInv, Sound, Ordered
<1> QED BY <1>1, StepCarries, WriteSound, ReadDelivers DEF IInv

\* The invariant holds throughout.
LEMMA StripeInvariant == Spec => []IInv
BY InitInvariant, StepInvariant, PTL DEF Spec

----------------------------------------------------------------------------
(* The pipe.                                                               *)

\* A Write is the pipe's Accept, a Read that closes a gap its Yield, and nothing else
\* shows.
LEMMA StepRefines == IInv /\ [Next]_vars => [Pipe!Next]_<<accepted, out>>
<1> SUFFICES ASSUME IInv, [Next]_vars PROVE [Pipe!Next]_<<accepted, out>>
  OBVIOUS
<1>1. CASE Write
  BY <1>1 DEF Write, rx, Pipe!Next, Pipe!Accept
<1>2. ASSUME NEW s \in S, Read(s) PROVE [Pipe!Next]_<<accepted, out>>
  <2>1. Ordered' /\ accepted' = accepted /\ next <= next'
    BY <1>2, ReadDelivers
  <2>2. /\ next' \in 0 .. accepted /\ next \in Nat
        /\ out' = [j \in 1 .. next' |-> j] /\ out = [j \in 1 .. next |-> j]
    BY <2>1 DEF IInv, Types, Ordered
  <2>3. Len(out) = next
    BY <2>2
  <2>4. CASE next' = next
    BY <2>1, <2>2, <2>4
  <2>5. CASE next' > next
    <3>1. next' \in Len(out) + 1 .. accepted
      BY <2>2, <2>3, <2>5
    <3> QED BY <2>1, <2>2, <3>1 DEF Pipe!Next, Pipe!Yield
  <2> QED BY <2>1, <2>2, <2>4, <2>5
<1>3. CASE Carries
  BY <1>3 DEF Carries
<1> QED BY <1>1, <1>2, <1>3, StepCarries

\* However records are spread over streams, gathered, cut off in the middle of a write
\* and written again (stripe.go: stripeTx.serve, requeue, reseq.deliver), they come out in
\* the order of acceptance, each once, for any number of streams and any limits.
THEOREM StripeImplementsPipe == Spec => ImplementsPipe
<1>1. Init => Pipe!Init
  BY DEF Init, Pipe!Init
<1> QED BY <1>1, StepRefines, StripeInvariant, PTL DEF Spec, ImplementsPipe, Pipe!Spec

----------------------------------------------------------------------------
(* Nothing vanishes.                                                       *)

\* NoneVanishes, in terms of Where.
Accounted ==
  ~closed => \A id \in 1 .. accepted :
               id <= next \/ \E r \in Where \union lost : r.id = id

\* Nothing is accepted yet.
LEMMA InitAccounted == Init => Accounted
BY DEF Init, Accounted

\* No step leaves an accepted record unaccounted for.
LEMMA StepAccounted == IInv /\ Accounted /\ [Next]_vars => Accounted'
<1> SUFFICES ASSUME IInv, Accounted, [Next]_vars, ~closed',
                    NEW id \in 1 .. accepted', ~(id <= next')
             PROVE  \E r \in Where' \union lost' : r.id = id
  BY DEF Accounted
<1>0. next \in Nat /\ accepted \in Nat /\ next' \in Nat
  BY StepInvariant DEF IInv, Ordered, Types
<1>1. CASE Write
  <2>1. accepted' = accepted + 1 /\ next' = next /\ ~closed /\ lost' = lost
    BY <1>1 DEF Write, rx, stream
  <2>2. Where' = Where \union {[n |-> seq, id |-> accepted + 1]}
    BY <1>1, WriteSound
  <2>3. CASE id = accepted + 1
    <3>1. [n |-> seq, id |-> accepted + 1].id = id
      BY <2>3
    <3> QED BY <2>2, <3>1
  <2>4. CASE id \in 1 .. accepted
    <3>1. ~(id <= next)
      BY <1>0, <2>1, <2>4
    <3> QED BY <2>1, <2>2, <2>4, <3>1 DEF Accounted
  <2> QED BY <1>0, <2>1, <2>3, <2>4
<1>2. ASSUME NEW s \in S, Read(s) PROVE \E r \in Where' \union lost' : r.id = id
  <2>1. /\ accepted' = accepted /\ lost' = lost /\ next <= next'
        /\ \A r \in Where : r \in Where' \/ r.id <= next'
    BY <1>2, ReadDelivers
  <2>2. ~closed
    BY <1>2 DEF Read
  <2>3. PICK r \in Where \union lost : r.id = id
    BY <1>0, <2>1, <2>2 DEF Accounted
  <2>4. ~(r.id <= next')
    BY <1>0, <2>1, <2>3
  <2> QED BY <2>1, <2>3, <2>4
<1>3. CASE Carries
  <2>1. /\ accepted' = accepted /\ next' = next /\ lost \subseteq lost'
        /\ Where \subseteq Where' \union lost'
    BY <1>3 DEF Carries
  <2>2. ~closed
    BY ClosedStays
  <2>3. PICK r \in Where \union lost : r.id = id
    BY <1>0, <2>1, <2>2 DEF Accounted
  <2> QED BY <2>1, <2>3
<1> QED BY <1>1, <1>2, <1>3, StepCarries

\* While the session lives, a record that was accepted has come out or is somewhere, or was
\* on a stream that broke after it had taken it: no serve, requeue or deliver
\* (stripe.go) drops one.
THEOREM StripeKeepsRecords == Spec => []NoneVanishes
<1>1. IInv /\ Accounted => NoneVanishes
  <2> SUFFICES ASSUME IInv, Accounted, ~closed, NEW id \in 1 .. accepted, ~(id <= Len(out))
               PROVE  \E r \in pend \union lost \union (UNION {Records(work[k]) : k \in DOMAIN work})
                        \union (UNION {Records(hand[s]) \union Records(pipe[s]) : s \in S}) :
                        r.id = id
    BY DEF NoneVanishes
  <2>1. Len(out) = next
    BY DEF IInv, Ordered, Types
  <2>2. PICK r \in Where \union lost : r.id = id
    BY <2>1 DEF Accounted
  <2>3. ASSUME r \in Queued(work) PROVE \E k \in DOMAIN work : r \in Records(work[k])
    <3>1. PICK q \in Elements(work) : r \in Elements(q)
      BY <2>3 DEF Queued
    <3>2. PICK k \in DOMAIN work : q = work[k]
      BY DEF Elements
    <3> QED BY <3>1, <3>2, SameRecords
  <2>4. ASSUME r \in Spread(hand) \union Spread(pipe)
        PROVE  \E s \in S : r \in Records(hand[s]) \union Records(pipe[s])
    BY <2>4, SameRecords DEF Spread
  <2>5. r \in pend \union lost \union (UNION {Records(work[k]) : k \in DOMAIN work})
                 \union (UNION {Records(hand[s]) \union Records(pipe[s]) : s \in S})
    <3> DEFINE A == UNION {Records(work[j]) : j \in DOMAIN work}
               B == UNION {Records(hand[t]) \union Records(pipe[t]) : t \in S}
    <3>1. \/ r \in pend \union lost
          \/ \E k \in DOMAIN work : r \in Records(work[k])
          \/ \E s \in S : r \in Records(hand[s]) \union Records(pipe[s])
      BY <2>2, <2>3, <2>4 DEF Where
    <3>2. ASSUME NEW k \in DOMAIN work, r \in Records(work[k])
          PROVE  r \in A
      BY <3>2
    <3>3. ASSUME NEW s \in S, r \in Records(hand[s]) \union Records(pipe[s])
          PROVE  r \in B
      BY <3>3, Zenon
    <3> QED BY <3>1, <3>2, <3>3
  <2> QED BY <2>2, <2>5
<1> QED BY <1>1, InitAccounted, StepAccounted, StripeInvariant, PTL DEF Spec
=============================================================================
