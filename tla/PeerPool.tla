------------------------------ MODULE PeerPool ------------------------------
(***************************************************************************)
(* An address pool and the health of its entries, as operators on a value: *)
(* internal/packet/peer_pool.go (PeerPool) and health_set.go (healthSet).   *)
(* Every method of the code runs under the pool's mutex, so a call is one   *)
(* application of its operator.                                             *)
(*                                                                         *)
(* A pool is [cur, chosen, live, rec]: the cursor, the entry the walk or    *)
(* the operator committed to (NoEntry before the first), the entry whose    *)
(* address the carrier sends to, and one health record per entry, NoRec for *)
(* a healthy one.  A record keeps the time that is left until nextRetest    *)
(* instead of the absolute second; it stops at 0, when the entry is due,    *)
(* because the code compares two nextRetest only when neither is due.       *)
(* Entries are positions 0 .. n - 1.  Groups and views, which only the TCP  *)
(* carrier's edge pools use, are not part of this module.                   *)
(***************************************************************************)
EXTENDS Integers, Sequences, FiniteSets, FiniteSetsExt

CONSTANTS SuspectBackoff,   \* suspectBackoff: the waits of a suspect, in ticks
          DeadRetest        \* deadRetest

ASSUME BackoffAssumption ==
  /\ SuspectBackoff \in Seq(Nat \ {0}) /\ SuspectBackoff # <<>>
  /\ DeadRetest \in Nat \ {0}

NoEntry == -1                \* an empty chosen
Suspect == "suspect"
Dead == "dead"
NoRec == [state |-> "healthy", fails |-> 0, wait |-> 0]    \* no record

Size(p) == Cardinality(DOMAIN p.rec)

NewPool(n) == [cur |-> 0, chosen |-> NoEntry, live |-> 0, rec |-> [i \in 0 .. n - 1 |-> NoRec]]

----------------------------------------------------------------------------
(* healthSet.                                                              *)

Healthy(p) == {i \in DOMAIN p.rec : p.rec[i] = NoRec}
Due(p) == {i \in DOMAIN p.rec : p.rec[i] # NoRec /\ p.rec[i].wait = 0}
Eligible(p) == Healthy(p) \union Due(p)

Tier(p, i) == IF p.rec[i] = NoRec THEN 0 ELSE IF p.rec[i].state = Dead THEN 2 ELSE 1
Wait(p, i) == IF p.rec[i] = NoRec THEN 0 ELSE p.rec[i].wait

\* i is sooner to be tried again than j.
Sooner(p, i, j) == \/ Tier(p, i) < Tier(p, j)
                   \/ Tier(p, i) = Tier(p, j) /\ Wait(p, i) < Wait(p, j)

\* Mutant of RetestBackoff: the count runs one step too far.
RetestBackoffLate(r) ==
  IF r.state = Dead \/ r.fails + 1 > Len(SuspectBackoff)
  THEN [state |-> Dead, fails |-> IF r.state = Dead THEN r.fails ELSE r.fails + 1, wait |-> DeadRetest]
  ELSE [state |-> Suspect, fails |-> r.fails + 1, wait |-> DeadRetest]

\* retestBackoff: an entry that fails its retest waits longer, and is dead once the
\* steps are used up.  SuspectBackoff[k] is the code's suspectBackoff[k - 1].
RetestBackoff(r) ==
  IF r.state = Dead \/ r.fails + 1 >= Len(SuspectBackoff)
  THEN [state |-> Dead, fails |-> IF r.state = Dead THEN r.fails ELSE r.fails + 1, wait |-> DeadRetest]
  ELSE [state |-> Suspect, fails |-> r.fails + 1, wait |-> SuspectBackoff[r.fails + 2]]

\* burn: only a healthy entry or one that is due is condemned.
Burn(p, i) ==
  [p EXCEPT !.rec[i] =
     IF @ = NoRec THEN [state |-> Suspect, fails |-> 0, wait |-> SuspectBackoff[1]]
     ELSE IF @.wait = 0 THEN RetestBackoff(@) ELSE @]

Burns(p, i) == i \in Eligible(p)     \* what burn returns, and burnCount counts

EligibleCount(p) == Cardinality(Eligible(p))

\* markSuspect: condemn an entry, wherever the cursor is.
MarkSuspect(p, i) == Burn(p, i)

Clear(p, i) == [p EXCEPT !.rec[i] = NoRec]
RestoreAll(p) == [p EXCEPT !.rec = [i \in DOMAIN p.rec |-> NoRec]]
RetestNow(p, i) == [p EXCEPT !.rec[i] = IF @ = NoRec THEN @ ELSE [@ EXCEPT !.wait = 0]]

\* One unit of time.
Elapse(p) == [p EXCEPT !.rec = [i \in DOMAIN p.rec |->
                IF p.rec[i] = NoRec \/ p.rec[i].wait = 0 THEN p.rec[i]
                ELSE [p.rec[i] EXCEPT !.wait = @ - 1]]]

----------------------------------------------------------------------------
(* The cursor.                                                             *)

\* The first entry of the nonempty set s met going round from at + from.
FirstFrom(p, at, from, s) ==
  LET n == Size(p)
  IN  (at + Min({k \in from .. from + n - 1 : ((at + k) % n) \in s})) % n

\* bestIdxLocked: the lowest position among the soonest.
BestIdx(p) == CHOOSE i \in DOMAIN p.rec :
                \A j \in DOMAIN p.rec : /\ ~Sooner(p, j, i)
                                        /\ (~Sooner(p, i, j) => i <= j)

\* nextFrom's last resort: at itself unless another is strictly sooner.
SoonestBut(p, at) ==
  IF \A j \in DOMAIN p.rec : ~Sooner(p, j, at) THEN at ELSE BestIdx(p)

NextFrom(p, at) == IF Healthy(p) # {} THEN FirstFrom(p, at, 1, Healthy(p))
                   ELSE IF Due(p) # {} THEN FirstFrom(p, at, 1, Due(p))
                   ELSE SoonestBut(p, at)

\* commitLocked and pickLocked.
Commit(p, i) == [p EXCEPT !.cur = i, !.chosen = i, !.live = i]
Pick(p, i) == [p EXCEPT !.cur = i, !.chosen = NoEntry, !.live = i]

\* Mutant of Current: what was committed is forgotten as soon as it is unhealthy.
CurrentUncommitted(p) ==
  IF Healthy(p) # {} THEN Pick(p, FirstFrom(p, p.cur, 0, Healthy(p)))
  ELSE IF Due(p) # {} THEN Pick(p, FirstFrom(p, p.cur, 0, Due(p)))
  ELSE Pick(p, BestIdx(p))

\* currentLocked, which moves the cursor when nothing was committed: the pool after
\* the call; its answer is the cursor.
Current(p) ==
  IF p.chosen # NoEntry /\ p.chosen = p.cur THEN p
  ELSE IF Healthy(p) # {} THEN Pick(p, FirstFrom(p, p.cur, 0, Healthy(p)))
  ELSE IF Due(p) # {} THEN Pick(p, FirstFrom(p, p.cur, 0, Due(p)))
  ELSE Pick(p, BestIdx(p))

\* advanceFailLocked and advanceEligibleLocked.
AdvanceFail(p) == LET i == NextFrom(p, p.cur) IN IF i # p.cur THEN Commit(p, i) ELSE p
AdvanceEligible(p) == LET s == Eligible(p) \ {p.cur}
                      IN  IF s # {} THEN Commit(p, FirstFrom(p, p.cur, 1, s)) ELSE p

\* fail and rotateOnce, the two ways of nextEndpoint.
Fail(p) == AdvanceFail(Burn(p, p.cur))
RotateOnce(p) == AdvanceEligible(p)

\* rejectCandidate: the entry that would not bind is burned, the cursor goes back.
RejectCandidate(p, prev) ==
  Commit(IF p.cur # prev THEN Burn(p, p.cur) ELSE p, prev)

\* selectEntry: the operator's choice starts healthy.
SelectEntry(p, i) == Commit(Clear(p, i), i)

\* landSource: try the current entry, burn it and go on when it does not bind, as
\* often as the pool is long.  The step function yields the pool, whether an entry
\* bound and whether the loop ended.
LandSource(p, bindable) ==
  LET step(s) ==
        LET q == Current(s.pool)
        IN  IF s.ended THEN s
            ELSE IF q.cur \in bindable THEN [pool |-> q, bound |-> TRUE, ended |-> TRUE]
            ELSE [pool |-> Fail(q), bound |-> FALSE, ended |-> Fail(q).cur = q.cur]
      f[k \in 0 .. Size(p)] ==
        IF k = 0 THEN [pool |-> p, bound |-> FALSE, ended |-> FALSE] ELSE step(f[k - 1])
  IN  f[Size(p)]

----------------------------------------------------------------------------
PoolType(p, n) ==
  /\ p.cur \in 0 .. n - 1 /\ p.live \in 0 .. n - 1
  /\ p.chosen \in {NoEntry} \union (0 .. n - 1)
  /\ DOMAIN p.rec = 0 .. n - 1
  /\ \A i \in 0 .. n - 1 : p.rec[i] # NoRec =>
       /\ p.rec[i].state \in {Suspect, Dead}
       /\ p.rec[i].fails \in 0 .. Len(SuspectBackoff)
       /\ p.rec[i].state = Suspect <=> p.rec[i].fails < Len(SuspectBackoff)
       /\ p.rec[i].wait \in Nat
=============================================================================
