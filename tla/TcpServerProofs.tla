--------------------------- MODULE TcpServerProofs ---------------------------
(***************************************************************************)
(* LaneNeverDangles, TypeOK and DownstreamElected for any number of        *)
(* connections, lanes and loops.                                           *)
(*                                                                         *)
(* LaneNeverDangles is not inductive alone.  That the teardown on a        *)
(* connection's own goroutine clears its lane needs two facts more: that   *)
(* goroutine tears down its own connection (OwnJob), and a lane that       *)
(* points at a connection is the lane of that connection (LaneMatches),    *)
(* which is fixed because the goroutine notes its lane once, before it     *)
(* reads on.                                                               *)
(*                                                                         *)
(* The other two need to know where a connection is (EInv, second part):   *)
(* on the list or in the hands of one reaper, and never twice; a slot is   *)
(* taken for each handshake under way; and while there is no downstream,   *)
(* whoever is listed was raced or an election is on its way.               *)
(***************************************************************************)
EXTENDS TcpServer, FiniteSetTheorems, SequenceTheorems, WellFoundedInduction, TLAPS

----------------------------------------------------------------------------
(* Numbers, sets and sequences.                                            *)

\* The least-number principle, for sets.
LEMMA LeastNatural ==
  ASSUME NEW T, T \subseteq Nat, T # {}
  PROVE  \E x \in T : \A y \in T : x <= y
<1> DEFINE R == OpToRel(<, Nat)
<1>1. IsWellFoundedOn(R, Nat)
  BY NatLessThanWellFounded, Zenon
<1>2. \A x, y \in Nat : x < y => <<x, y>> \in R
  BY DEF OpToRel
<1> HIDE DEF R
<1>3. PICK x \in T : \A y \in T : ~(<<y, x>> \in R)
  BY <1>1, WFMin
<1>4. \A y \in T : x <= y
  <2> SUFFICES ASSUME NEW y \in T, ~(x <= y) PROVE FALSE
    OBVIOUS
  <2>1. x \in Nat /\ y \in Nat
    OBVIOUS
  <2>2. y < x
    BY <2>1
  <2>3. <<y, x>> \in R
    BY <1>2, <2>1, <2>2, Zenon
  <2> QED BY <1>3, <2>3
<1> QED BY <1>4

\* The elements of a sequence.
Elements(q) == {q[j] : j \in DOMAIN q}

\* An appended element is the one new element.
LEMMA ElementsAppend ==
  ASSUME NEW T, NEW q \in Seq(T), NEW e \in T
  PROVE  Append(q, e) \in Seq(T) /\ Elements(Append(q, e)) = Elements(q) \union {e}
<1> DEFINE a == Append(q, e)
<1>1. a \in Seq(T) /\ DOMAIN a = 1 .. Len(q) + 1 /\ DOMAIN q = 1 .. Len(q)
  BY AppendProperties, LenProperties
<1>2. (\A j \in 1 .. Len(q) : a[j] = q[j]) /\ a[Len(q) + 1] = e
  BY AppendProperties
<1>3. Len(q) \in Nat
  BY LenProperties
<1> HIDE DEF a
<1>4. Elements(a) = {a[j] : j \in 1 .. Len(q)} \union {a[Len(q) + 1]}
  BY <1>1, <1>3 DEF Elements
<1>5. {a[j] : j \in 1 .. Len(q)} = Elements(q)
  BY <1>1, <1>2 DEF Elements
<1> QED BY <1>1, <1>2, <1>4, <1>5 DEF a

\* A sequence is its head and its tail.
LEMMA ElementsHeadTail ==
  ASSUME NEW T, NEW q \in Seq(T), q # <<>>
  PROVE  /\ Head(q) \in T /\ Tail(q) \in Seq(T)
         /\ Elements(q) = {Head(q)} \union Elements(Tail(q))
<1>1. Head(q) \in T /\ Tail(q) \in Seq(T)
  OBVIOUS
<1>2. Elements(q) \subseteq {Head(q)} \union Elements(Tail(q))
  <2> SUFFICES ASSUME NEW j \in DOMAIN q, j # 1 PROVE q[j] \in Elements(Tail(q))
    BY DEF Elements
  <2>1. j - 1 \in DOMAIN Tail(q) /\ Tail(q)[j - 1] = q[j]
    OBVIOUS
  <2> QED BY <2>1 DEF Elements
<1>3. {Head(q)} \union Elements(Tail(q)) \subseteq Elements(q)
  BY DEF Elements
<1> QED BY <1>1, <1>2, <1>3

----------------------------------------------------------------------------
Tearing == {"down", "lane", "remove", "pick", "elect"}

PartTypes ==
  /\ laneCur \in [1 .. Lanes - 1 -> Conns \union {None}]
  /\ lane \in [Conns -> 0 .. Lanes - 1]
  /\ DOMAIN at = Actors
  /\ DOMAIN job = Actors

OwnJob == \A c \in Conns : at[c] \in Tearing => job[c] = c

LaneMatches == \A l \in 1 .. Lanes - 1 : laneCur[l] # None => lane[laneCur[l]] = l

IInv == PartTypes /\ OwnJob /\ LaneMatches /\ LaneNeverDangles

\* No connection, no loop and nothing on a lane at the start.
LEMMA InitIInv == Init => IInv
<1> SUFFICES ASSUME Init PROVE IInv
  OBVIOUS
<1>1. /\ laneCur = [l \in 1 .. Lanes - 1 |-> None]
      /\ lane = [c \in Conns |-> 0]
      /\ at = [a \in Actors |-> IF a \in Conns THEN "none" ELSE "idle"]
      /\ job = [a \in Actors |-> None]
  BY DEF Init
<1>2. PartTypes BY <1>1, LanesAssumption DEF PartTypes
<1>3. OwnJob BY <1>1 DEF OwnJob, Actors, Tearing
<1>4. LaneMatches /\ LaneNeverDangles BY <1>1 DEF LaneMatches, LaneNeverDangles
<1> QED BY <1>2, <1>3, <1>4 DEF IInv

\* A step of connection c that moves its goroutine before or inside the teardown, and
\* leaves lanes and jobs alone.
LEMMA MoveKeeps ==
  ASSUME IInv, NEW c \in Conns, NEW label, Go(c, label),
         at[c] \notin {"read", "down", "lane"}, label \notin Tearing,
         UNCHANGED <<laneCur, lane, job>>
  PROVE  IInv'
BY ConnsAssumption DEF IInv, PartTypes, OwnJob, LaneMatches, LaneNeverDangles, Actors, Go

\* Steps that touch neither lanes nor goroutines.
LEMMA StillKeeps == IInv /\ UNCHANGED <<laneCur, lane, job, at>> => IInv'
BY DEF IInv, PartTypes, OwnJob, LaneMatches, LaneNeverDangles

\* noteLane puts the connection on its lane, and on no other.
LEMMA FirstKeeps ==
  ASSUME IInv, NEW c \in Conns, First(c)
  PROVE  IInv'
<1>1. PICK l \in 0 .. Lanes - 1 :
        /\ lane' = [lane EXCEPT ![c] = l]
        /\ laneCur' = IF l = 0 THEN laneCur ELSE [laneCur EXCEPT ![l] = c]
  BY DEF First
<1>2. at' = [at EXCEPT ![c] = "read"] /\ at[c] = "reap" /\ UNCHANGED job
  BY DEF First, Go
<1>3. PartTypes' /\ OwnJob'
  BY <1>1, <1>2, LanesAssumption, ConnsAssumption DEF IInv, PartTypes, OwnJob, Tearing, Actors
<1>4. \A k \in 1 .. Lanes - 1 : laneCur[k] # c
  BY <1>2, ConnsAssumption DEF IInv, LaneNeverDangles
<1>5. \A k \in 1 .. Lanes - 1 : laneCur'[k] = IF k = l THEN c ELSE laneCur[k]
  BY <1>1, LanesAssumption DEF IInv, PartTypes
<1>6. LaneMatches'
  BY <1>1, <1>4, <1>5 DEF IInv, PartTypes, LaneMatches
<1>7. LaneNeverDangles'
  BY <1>1, <1>2, <1>4, <1>5 DEF IInv, PartTypes, LaneNeverDangles, Actors
<1> QED BY <1>3, <1>6, <1>7 DEF IInv

\* A data frame may put its connection back on its lane, while its goroutine reads.
LEMMA DataKeeps ==
  ASSUME IInv, NEW c \in Conns, Data(c)
  PROVE  IInv'
<1>1. UNCHANGED <<lane, at, job>> /\ at[c] = "read" BY DEF Data
<1>2. lane[c] \in 0 .. Lanes - 1 BY DEF IInv, PartTypes
<1>3. laneCur' = laneCur \/ (lane[c] > 0 /\ laneCur' = [laneCur EXCEPT ![lane[c]] = c])
  BY DEF Data
<1>4. PartTypes' /\ OwnJob'
  BY <1>1, <1>2, <1>3 DEF IInv, PartTypes, OwnJob
<1>5. \A k \in 1 .. Lanes - 1 : laneCur'[k] = laneCur[k] \/ (laneCur'[k] = c /\ k = lane[c])
  BY <1>2, <1>3, LanesAssumption DEF IInv, PartTypes
<1>6. LaneMatches' /\ LaneNeverDangles'
  BY <1>1, <1>5 DEF IInv, LaneMatches, LaneNeverDangles
<1> QED BY <1>4, <1>6 DEF IInv

\* A goroutine or a loop starts to tear a connection down, its own in the first case.
LEMMA StartKeeps ==
  ASSUME IInv, NEW a \in Actors, NEW c, Go(a, "down"), job' = [job EXCEPT ![a] = c],
         a \in Conns => (a = c /\ at[a] = "read"),
         UNCHANGED <<laneCur, lane>>
  PROVE  IInv'
BY ConnsAssumption DEF IInv, PartTypes, OwnJob, LaneMatches, LaneNeverDangles, Actors, Tearing, Go

\* dropLane clears the lane of the connection that is torn down and no other.
LEMMA TearLaneKeeps ==
  ASSUME IInv, NEW a \in Actors, TearLane(a)
  PROVE  IInv'
<1> DEFINE l == lane[job[a]]
<1>1. at' = [at EXCEPT ![a] = "remove"] /\ at[a] = "lane" /\ UNCHANGED <<lane, job>>
  BY DEF TearLane, Go
<1>2. laneCur' = IF l > 0 /\ laneCur[l] = job[a] THEN [laneCur EXCEPT ![l] = None] ELSE laneCur
  BY DEF TearLane
<1>3. a \in Conns => job[a] = a
  BY <1>1 DEF IInv, OwnJob, Tearing
<1>4. PartTypes' /\ OwnJob'
  BY <1>1, <1>2 DEF IInv, PartTypes, OwnJob, Actors, Tearing
<1>5. \A k \in 1 .. Lanes - 1 : laneCur'[k] \in {laneCur[k], None}
  BY <1>2 DEF IInv, PartTypes
<1>6. LaneMatches'
  BY <1>1, <1>5 DEF IInv, LaneMatches
<1>7. ASSUME NEW k \in 1 .. Lanes - 1, laneCur'[k] # None, laneCur'[k] = a PROVE FALSE
  <2>1. laneCur[k] = a /\ a \in Conns BY <1>5, <1>7 DEF IInv, PartTypes
  <2>2. lane[a] = k BY <2>1, <1>5, <1>7 DEF IInv, LaneMatches
  <2>3. l = k /\ l > 0 /\ laneCur[l] = job[a] BY <2>1, <2>2, <1>3
  <2> QED BY <2>3, <1>2, <1>7 DEF IInv, PartTypes
<1>8. LaneNeverDangles'
  <2> SUFFICES ASSUME NEW k \in 1 .. Lanes - 1, laneCur'[k] # None
               PROVE  at'[laneCur'[k]] \in {"read", "down", "lane"}
    BY DEF LaneNeverDangles
  <2>1. laneCur'[k] = laneCur[k] /\ laneCur[k] \in Conns BY <1>5 DEF IInv, PartTypes
  <2>2. laneCur'[k] # a BY <1>7
  <2> QED BY <1>1, <2>1, <2>2 DEF IInv, LaneNeverDangles, PartTypes, Actors
<1> QED BY <1>4, <1>6, <1>8 DEF IInv

\* The steps of a teardown around dropLane.
LEMMA TearRestKeeps ==
  ASSUME IInv, NEW a \in Actors, NEW label \in {"lane", "remove", "pick", "elect", "gone", "idle"},
         at[a] \in Tearing, at[a] = "lane" => a \notin Conns,
         at[a] = "down" => label = "lane", Go(a, label),
         UNCHANGED <<laneCur, lane>>,
         UNCHANGED job \/ (job' = [job EXCEPT ![a] = None] /\ label \in {"gone", "idle"})
  PROVE  IInv'
<1>1. at' = [at EXCEPT ![a] = label] BY DEF Go
<1>2. PartTypes' BY <1>1 DEF IInv, PartTypes
<1>3. OwnJob' BY <1>1 DEF IInv, PartTypes, OwnJob, Actors, Tearing
<1>4. LaneMatches' BY DEF IInv, LaneMatches
<1>5. LaneNeverDangles' BY <1>1, ConnsAssumption DEF IInv, PartTypes, LaneNeverDangles, Actors, Tearing
<1> QED BY <1>2, <1>3, <1>4, <1>5 DEF IInv

\* Every step of the server keeps the invariant.
LEMMA StepIInv == IInv /\ [Next]_vars => IInv'
<1> SUFFICES ASSUME IInv, [Next]_vars PROVE IInv'
  OBVIOUS
<1>1. ASSUME NEW c \in Conns, Accept(c) PROVE IInv'
  <2>1. \E label \in {"pre", "gone"} : Go(c, label) BY <1>1 DEF Accept
  <2> QED BY <1>1, <2>1, MoveKeeps DEF Accept, Tearing
<1>2. ASSUME NEW c \in Conns, PreFails(c) PROVE IInv'
  BY <1>2, MoveKeeps DEF PreFails, Tearing
<1>3. ASSUME NEW c \in Conns, Publish(c) PROVE IInv'
  BY <1>3, MoveKeeps DEF Publish, Tearing
<1>4. ASSUME NEW c \in Conns, List(c) PROVE IInv'
  BY <1>4, MoveKeeps DEF List, Tearing
<1>5. ASSUME NEW c \in Conns, Reap(c) PROVE IInv'
  <2>1. Go(c, "back") \/ UNCHANGED at BY <1>5 DEF Reap
  <2> QED BY <1>5, <2>1, MoveKeeps, StillKeeps DEF Reap, Tearing
<1>6. ASSUME NEW c \in Conns, ReapBack(c) PROVE IInv'
  BY <1>6, MoveKeeps DEF ReapBack, Tearing
<1>7. ASSUME NEW c \in Conns, First(c) PROVE IInv'
  BY <1>7, FirstKeeps
<1>8. ASSUME NEW c \in Conns, ReadFails(c) PROVE IInv'
  BY <1>8, StartKeeps DEF ReadFails, Actors
<1>9. ASSUME NEW c \in Conns, Data(c) PROVE IInv'
  BY <1>9, DataKeeps
<1>10. ASSUME NEW c \in Conns, Break(c) PROVE IInv'
  BY <1>10, StillKeeps DEF Break
<1>11. ASSUME NEW q \in Loops, WriteFails(q) PROVE IInv'
  BY <1>11, StartKeeps, ConnsAssumption DEF WriteFails, Actors
<1>12. ASSUME NEW a \in Actors, TearCur(a) PROVE IInv'
  BY <1>12, TearRestKeeps DEF TearCur, Tearing
<1>13. ASSUME NEW a \in Actors, TearLane(a) PROVE IInv'
  BY <1>13, TearLaneKeeps
<1>14. ASSUME NEW a \in Actors, TearList(a) PROVE IInv'
  BY <1>14, TearRestKeeps DEF TearList, Tearing
<1>15. ASSUME NEW a \in Actors, Pick(a) PROVE IInv'
  BY <1>15, TearRestKeeps DEF Pick, Tearing
<1>16. ASSUME NEW a \in Actors, Elect(a) PROVE IInv'
  <2>1. \E label \in {"gone", "idle"} : Go(a, label) BY <1>16 DEF Elect
  <2> QED BY <1>16, <2>1, TearRestKeeps DEF Elect, Tearing
<1>17. CASE UNCHANGED vars
  BY <1>17, StillKeeps DEF vars
<1> QED BY <1>1, <1>2, <1>3, <1>4, <1>5, <1>6, <1>7, <1>8, <1>9, <1>10, <1>11, <1>12, <1>13,
           <1>14, <1>15, <1>16, <1>17 DEF Next, Handle, TearDown

\* For any number of connections, lanes and loops: whoever tears a connection down
\* (onConnErr, on its own goroutine or on a loop that wrote to it) and whatever frames
\* its goroutine still handles meanwhile (downFrom, noteLane), TCP.laneCur never keeps a
\* connection whose goroutine is past its own dropLane.
THEOREM LanesNeverDangle == Spec => []LaneNeverDangles
<1>1. IInv => LaneNeverDangles BY DEF IInv
<1> QED BY <1>1, InitIInv, StepIInv, PTL DEF Spec

----------------------------------------------------------------------------
(* The list, the slots and the election.                                   *)

Early == {"none", "pre", "append"}

\* The goroutines that hold a token, before release.
Holders == {c \in Conns : at[c] \in {"pre", "append", "reap", "back"}}

\* The tokens are those of the holders.
Slots == IsFiniteSet(Holders) /\ slots = Cardinality(Holders) /\ slots \in 0 .. PreAuth

\* A connection that was published is on the list or in the hands of one reaper, not both,
\* and once; before that it is nowhere.
Listing ==
  /\ authConns \in Seq(Conns) /\ Once(authConns)
  /\ DOMAIN reaping = Conns /\ \A c \in Conns : reaping[c] \in Seq(Conns) /\ Once(reaping[c])
  /\ \A c \in Conns, x \in Elements(authConns) : x \notin Elements(reaping[c])
  /\ \A c, d \in Conns : \A x \in Elements(reaping[c]) : x \in Elements(reaping[d]) => c = d
  /\ \A x \in Conns : at[x] \in Early =>
       x \notin Elements(authConns) /\ \A d \in Conns : x \notin Elements(reaping[d])
  /\ \A c \in Conns : at[c] \notin {"reap", "back"} => reaping[c] = <<>>
  /\ \A c \in Conns : at[c] = "back" => reaping[c] # <<>>

\* Somebody is about to elect a downstream.
Pending == \E a \in Actors : \/ at[a] \in {"lane", "remove", "pick"}
                             \/ at[a] = "elect" /\ picked[a] # None

\* Without a downstream, whoever is off the list is raced, and so is whoever is on it unless
\* an election is pending: the teardown that left nobody has the election still before it.
Election ==
  cur = None => /\ Unlisted \subseteq raced
                /\ \A x \in Elements(authConns) : x \in raced \/ Pending

PlainTypes ==
  /\ cur \in Conns \union {None}
  /\ laneCur \in [1 .. Lanes - 1 -> Conns \union {None}]
  /\ alive \in [Conns -> BOOLEAN] /\ lane \in [Conns -> 0 .. Lanes - 1]
  /\ at \in [Actors -> Labels]
  /\ job \in [Actors -> Conns \union {None}] /\ picked \in [Actors -> Conns \union {None}]
  /\ raced \subseteq Conns

EInv == PlainTypes /\ Slots /\ Listing /\ Election

\* What removing members from a list leaves: the others, each as often as before, at most
\* once if so before (removeAuthConn, and the loop of publishServerConn that picks victims).
LEMMA WithoutKeepsOthers ==
  ASSUME NEW T, NEW l \in Seq(T), NEW S
  PROVE  /\ Without(l, S) \in Seq(T)
         /\ Elements(Without(l, S)) = Elements(l) \ S
         /\ Once(l) => Once(Without(l, S))
<1> DEFINE n == Len(l)
           Step(q, j) == IF l[j] \in S THEN q ELSE Append(q, l[j])
           Law(f) == f = [j \in 0 .. n |-> IF j = 0 THEN <<>>
                                          ELSE IF l[j] \in S THEN f[j - 1]
                                          ELSE Append(f[j - 1], l[j])]
           Upto(f, k) == /\ DOMAIN f = 0 .. k /\ f = [j \in 0 .. k |-> f[j]]
                         /\ f[0] = <<>> /\ \A j \in 1 .. k : f[j] = Step(f[j - 1], j)
<1>0. n \in Nat /\ DOMAIN l = 1 .. n /\ \A j \in 1 .. n : l[j] \in T
  OBVIOUS
<1>1. \E f : Upto(f, n)
  <2> DEFINE Bad == {k \in 0 .. n : ~\E f : Upto(f, k)}
  <2>1. SUFFICES ASSUME Bad # {} PROVE FALSE
    BY <1>0
  <2>2. Bad \subseteq 0 .. n /\ Bad \subseteq Nat
    BY <1>0
  <2>3. \A k \in Bad : ~\E f : Upto(f, k)
    OBVIOUS
  <2>4. \A k \in 0 .. n : k \notin Bad => \E f : Upto(f, k)
    OBVIOUS
  <2> HIDE DEF Bad, Step
  <2>5. PICK k \in Bad : \A y \in Bad : k <= y
    BY <2>1, <2>2, LeastNatural
  <2>6. k # 0
    <3>1. Upto([j \in 0 .. 0 |-> <<>>], 0)
      OBVIOUS
    <3> HIDE DEF Upto
    <3> QED BY <2>3, <3>1
  <2>7. k - 1 \in 0 .. n /\ k - 1 \notin Bad /\ k \in Nat
    BY <1>0, <2>2, <2>5, <2>6
  <2>8. PICK f : Upto(f, k - 1)
    BY <2>4, <2>7
  <2> DEFINE h == [j \in 0 .. k |-> IF j = k THEN Step(f[k - 1], k) ELSE f[j]]
  <2>9. h[0] = <<>> /\ h[k] = Step(f[k - 1], k) /\ \A j \in 0 .. k - 1 : h[j] = f[j]
    BY <2>6, <2>7, <2>8
  <2>10. ASSUME NEW j \in 1 .. k PROVE h[j] = Step(h[j - 1], j)
    <3> HIDE DEF h
    <3>1. j - 1 \in 0 .. k - 1 /\ h[j - 1] = f[j - 1]
      BY <2>7, <2>9
    <3>2. CASE j = k
      BY <2>9, <3>1, <3>2
    <3>3. CASE j # k
      <4>1. j \in 1 .. k - 1 /\ h[j] = f[j]
        BY <2>7, <2>9, <3>3
      <4>2. f[j] = Step(f[j - 1], j)
        BY <2>8, <4>1
      <4> QED BY <3>1, <4>1, <4>2
    <3> QED BY <3>2, <3>3
  <2>11. Upto(h, k)
    <3>1. DOMAIN h = 0 .. k /\ h = [j \in 0 .. k |-> h[j]]
      OBVIOUS
    <3> HIDE DEF h
    <3> QED BY <2>9, <2>10, <3>1
  <2> HIDE DEF Upto, h
  <2> QED BY <2>3, <2>5, <2>11
<1>2. \E f : Law(f)
  <2>1. PICK f : Upto(f, n)
    BY <1>1
  <2>2. \A j \in 0 .. n : f[j] = IF j = 0 THEN <<>>
                                 ELSE IF l[j] \in S THEN f[j - 1] ELSE Append(f[j - 1], l[j])
    <3>1. f[0] = <<>> /\ \A j \in 1 .. n : f[j] = Step(f[j - 1], j)
      BY <2>1
    <3>2. \A j \in 0 .. n : j = 0 \/ j \in 1 .. n
      BY <1>0
    <3> HIDE DEF n
    <3> QED BY <3>1, <3>2
  <2>3. Law(f)
    BY <2>1, <2>2
  <2> HIDE DEF Law
  <2> QED BY <2>3
<1> DEFINE f == CHOOSE h : Law(h)
<1>3. Without(l, S) = f[n]
  BY DEF Without
<1>4. Law(f)
  BY <1>2
<1> HIDE DEF f
<1>5. f[0] = <<>> /\ \A j \in 1 .. n : f[j] = Step(f[j - 1], j)
  <2>1. \A j \in 0 .. n : f[j] = IF j = 0 THEN <<>>
                                 ELSE IF l[j] \in S THEN f[j - 1] ELSE Append(f[j - 1], l[j])
    BY <1>4
  <2>2. 0 \in 0 .. n /\ \A j \in 1 .. n : j \in 0 .. n /\ j # 0
    BY <1>0
  <2> HIDE DEF n
  <2> QED BY <2>1, <2>2
<1> DEFINE Good(j) == /\ f[j] \in Seq(T)
                      /\ Elements(f[j]) = {l[i] : i \in 1 .. j} \ S
                      /\ Once(l) => Once(f[j])
<1>6. Good(0)
  <2>1. <<>> \in Seq(T) /\ Elements(<<>>) = {} /\ {l[i] : i \in 1 .. 0} = {} /\ Once(<<>>)
    BY DEF Elements, Once
  <2> QED BY <1>5, <2>1
<1>7. ASSUME NEW j \in 1 .. n, Good(j - 1) PROVE Good(j)
  <2>0. l[j] \in T /\ f[j] = Step(f[j - 1], j)
    BY <1>0, <1>5
  <2>1. {l[i] : i \in 1 .. j} = {l[i] : i \in 1 .. j - 1} \union {l[j]}
    <3>1. 1 .. j = (1 .. j - 1) \union {j}
      OBVIOUS
    <3> QED BY <3>1
  <2>2. CASE l[j] \in S
    BY <1>7, <2>0, <2>1, <2>2
  <2>3. CASE l[j] \notin S
    <3>1. f[j] = Append(f[j - 1], l[j])
      BY <2>0, <2>3
    <3>2. f[j] \in Seq(T) /\ Elements(f[j]) = Elements(f[j - 1]) \union {l[j]}
      BY <1>7, <2>0, <3>1, ElementsAppend
    <3>3. Elements(f[j]) = {l[i] : i \in 1 .. j} \ S
      BY <1>7, <2>1, <2>3, <3>2
    <3>4. ASSUME Once(l) PROVE Once(f[j])
      <4>1. l[j] \notin Elements(f[j - 1])
        <5> SUFFICES ASSUME l[j] \in Elements(f[j - 1]) PROVE FALSE
          OBVIOUS
        <5>1. PICK i \in 1 .. j - 1 : l[i] = l[j]
          BY <1>7
        <5>2. i \in DOMAIN l /\ j \in DOMAIN l /\ i # j
          BY <1>0
        <5> QED BY <3>4, <5>1, <5>2 DEF Once
      <4> DEFINE q == f[j - 1]
                 x == l[j]
      <4>2. q \in Seq(T) /\ Once(q) /\ x \in T /\ x \notin Elements(q)
        BY <1>7, <2>0, <3>4, <4>1
      <4> HIDE DEF q, x
      <4>3. Once(Append(q, x))
        BY <4>2 DEF Once, Elements
      <4> QED BY <3>1, <4>3 DEF q, x
    <3> QED BY <3>2, <3>3, <3>4
  <2> QED BY <2>2, <2>3
<1>8. Good(n)
  <2> DEFINE Bad == {j \in 0 .. n : ~Good(j)}
  <2>0. n \in 0 .. n
    BY <1>0
  <2> HIDE DEF Good
  <2>1. SUFFICES ASSUME Bad # {} PROVE FALSE
    BY <2>0
  <2>2. Bad \subseteq 0 .. n /\ Bad \subseteq Nat
    BY <1>0
  <2>3. \A j \in 0 .. n : j \in Bad <=> ~Good(j)
    OBVIOUS
  <2> HIDE DEF Bad
  <2>4. PICK j \in Bad : \A y \in Bad : j <= y
    BY <2>1, <2>2, LeastNatural
  <2>5. j # 0
    BY <1>6, <2>2, <2>3
  <2>6. j \in 1 .. n /\ j - 1 \in 0 .. n /\ j - 1 \notin Bad
    BY <1>0, <2>2, <2>4, <2>5
  <2> QED BY <1>7, <2>2, <2>3, <2>6
<1>9. {l[i] : i \in 1 .. n} = Elements(l)
  BY <1>0 DEF Elements
<1> QED BY <1>3, <1>8, <1>9

\* The plain types are kept.
LEMMA StepPlain ==
  ASSUME EInv, [Next]_vars
  PROVE  PlainTypes'
<1> USE DEF PlainTypes, KeepCur, SetCur, Go, Closed, Labels
<1>0. /\ PlainTypes /\ \A c \in Conns : c \in Actors /\ \A q \in Loops : q \in Actors
      /\ 0 \in 0 .. Lanes - 1
  BY LanesAssumption DEF EInv, Actors
<1>u. Unlisted \subseteq Conns
  <2> SUFFICES ASSUME NEW x \in Unlisted PROVE x \in Conns
    OBVIOUS
  <2>1. CASE x \in {c \in Conns : at[c] = "append"}
    BY <2>1
  <2>2. CASE x \in {Head(reaping[c]) : c \in {d \in Conns : at[d] = "back"}}
    <3>1. PICK c \in Conns : at[c] = "back" /\ x = Head(reaping[c])
      BY <2>2
    <3>2. reaping[c] \in Seq(Conns) /\ reaping[c] # <<>>
      BY <3>1 DEF EInv, Listing
    <3> QED BY <3>1, <3>2, ElementsHeadTail
  <2> QED BY <2>1, <2>2 DEF Unlisted
<1>1. ASSUME NEW c \in Conns, Accept(c) PROVE PlainTypes'
  BY <1>0, <1>1 DEF Accept
<1>2. ASSUME NEW c \in Conns, PreFails(c) PROVE PlainTypes'
  BY <1>0, <1>2 DEF PreFails
<1>3. ASSUME NEW c \in Conns, Publish(c) PROVE PlainTypes'
  BY <1>0, <1>3, <1>u DEF Publish
<1>4. ASSUME NEW c \in Conns, List(c) PROVE PlainTypes'
  BY <1>0, <1>4 DEF List
<1>5. ASSUME NEW c \in Conns, Reap(c) PROVE PlainTypes'
  BY <1>0, <1>5 DEF Reap
<1>6. ASSUME NEW c \in Conns, ReapBack(c) PROVE PlainTypes'
  BY <1>0, <1>6 DEF ReapBack
<1>7. ASSUME NEW c \in Conns, First(c) PROVE PlainTypes'
  BY <1>0, <1>7 DEF First
<1>8. ASSUME NEW c \in Conns, ReadFails(c) PROVE PlainTypes'
  BY <1>0, <1>8 DEF ReadFails
<1>9. ASSUME NEW c \in Conns, Data(c) PROVE PlainTypes'
  BY <1>0, <1>9, <1>u DEF Data
<1>10. ASSUME NEW c \in Conns, Break(c) PROVE PlainTypes'
  BY <1>0, <1>10 DEF Break
<1>11. ASSUME NEW q \in Loops, WriteFails(q) PROVE PlainTypes'
  <2>1. SendConn(q) \in Conns \union {None}
    BY <1>0 DEF SendConn
  <2> QED BY <1>0, <1>11, <2>1 DEF WriteFails
<1>12. ASSUME NEW a \in Actors, TearCur(a) PROVE PlainTypes'
  BY <1>0, <1>12, <1>u DEF TearCur
<1>13. ASSUME NEW a \in Actors, TearLane(a) PROVE PlainTypes'
  BY <1>0, <1>13 DEF TearLane
<1>14. ASSUME NEW a \in Actors, TearList(a) PROVE PlainTypes'
  BY <1>0, <1>14 DEF TearList
<1>15. ASSUME NEW a \in Actors, Pick(a) PROVE PlainTypes'
  <2>1. (IF authConns = <<>> THEN None ELSE Last(authConns)) \in Conns \union {None}
    <3>1. authConns \in Seq(Conns)
      BY DEF EInv, Listing
    <3> QED BY <3>1 DEF Last
  <2> QED BY <1>0, <1>15, <2>1 DEF Pick
<1>16. ASSUME NEW a \in Actors, Elect(a) PROVE PlainTypes'
  BY <1>0, <1>16, <1>u DEF Elect
<1>17. CASE UNCHANGED vars
  BY <1>0, <1>17 DEF vars
<1> QED BY <1>1, <1>2, <1>3, <1>4, <1>5, <1>6, <1>7, <1>8, <1>9, <1>10, <1>11, <1>12, <1>13,
           <1>14, <1>15, <1>16, <1>17 DEF Next, Handle, TearDown

\* A token that is taken or put back is that of the goroutine that does it.
LEMMA StepSlots ==
  ASSUME EInv, [Next]_vars
  PROVE  Slots'
<1> DEFINE H == {"pre", "append", "reap", "back"}
<1>0. /\ Slots /\ at \in [Actors -> Labels] /\ (\A c \in Conns : c \in Actors)
      /\ slots \in Nat /\ PreAuth \in Nat
  BY LimitsAssumption DEF EInv, Actors, PlainTypes, Slots
<1>1. ASSUME NEW a \in Actors, NEW label, Go(a, label), UNCHANGED slots,
             a \in Conns => (label \in H <=> at[a] \in H)
      PROVE  Slots'
  <2>1. Holders' = Holders
    BY <1>0, <1>1 DEF Holders, Go
  <2> QED BY <1>0, <1>1, <2>1 DEF Slots
<1>2. ASSUME NEW c \in Conns, NEW label, Go(c, label), at[c] \in H, label \notin H, slots' = slots - 1
      PROVE  Slots'
  <2>1. Holders' = Holders \ {c} /\ c \in Holders
    BY <1>0, <1>2 DEF Holders, Go
  <2>2. IsFiniteSet(Holders') /\ Cardinality(Holders') = Cardinality(Holders) - 1
    BY <1>0, <2>1, FS_RemoveElement DEF Slots
  <2>3. Cardinality(Holders') \in Nat
    BY <2>2, FS_CardinalityType
  <2> QED BY <1>0, <1>2, <2>2, <2>3 DEF Slots
<1>3. ASSUME NEW c \in Conns, Accept(c) PROVE Slots'
  <2>1. CASE slots < PreAuth
    <3>1. Go(c, "pre") /\ slots' = slots + 1 /\ at[c] = "none"
      BY <1>3, <2>1 DEF Accept
    <3>2. Holders' = Holders \union {c} /\ c \notin Holders
      BY <1>0, <3>1 DEF Holders, Go
    <3>3. IsFiniteSet(Holders') /\ Cardinality(Holders') = Cardinality(Holders) + 1
      BY <1>0, <3>2, FS_AddElement DEF Slots
    <3> QED BY <1>0, <2>1, <3>1, <3>3 DEF Slots
  <2>2. CASE ~(slots < PreAuth)
    <3>1. Go(c, "gone") /\ UNCHANGED slots /\ at[c] = "none"
      BY <1>3, <2>2 DEF Accept
    <3> QED BY <1>0, <1>1, <3>1
  <2> QED BY <2>1, <2>2
<1>4. ASSUME NEW c \in Conns, PreFails(c) PROVE Slots'
  BY <1>2, <1>4 DEF PreFails
<1>5. ASSUME NEW c \in Conns, Publish(c) PROVE Slots'
  BY <1>0, <1>1, <1>5 DEF Publish
<1>6. ASSUME NEW c \in Conns, List(c) PROVE Slots'
  BY <1>0, <1>1, <1>6 DEF List
<1>7. ASSUME UNCHANGED <<at, slots>> PROVE Slots'
  BY <1>0, <1>7 DEF Slots, Holders
<1>8. ASSUME NEW c \in Conns, Reap(c) PROVE Slots'
  <2>1. Go(c, "back") \/ UNCHANGED at
    BY <1>8 DEF Reap
  <2>2. UNCHANGED slots /\ at[c] = "reap"
    BY <1>8 DEF Reap
  <2> QED BY <1>0, <1>1, <1>7, <2>1, <2>2
<1>9. ASSUME NEW c \in Conns, ReapBack(c) PROVE Slots'
  BY <1>0, <1>1, <1>9 DEF ReapBack
<1>10. ASSUME NEW c \in Conns, First(c) PROVE Slots'
  BY <1>2, <1>10 DEF First
<1>11. ASSUME NEW c \in Conns, ReadFails(c) PROVE Slots'
  BY <1>0, <1>1, <1>11 DEF ReadFails
<1>12. ASSUME NEW c \in Conns, Data(c) \/ Break(c) PROVE Slots'
  BY <1>7, <1>12 DEF Data, Break
<1>13. ASSUME NEW q \in Loops, WriteFails(q) PROVE Slots'
  <2>1. q \in Actors /\ q \notin Conns
    BY ConnsAssumption DEF Actors
  <2> QED BY <1>1, <1>13, <2>1 DEF WriteFails
<1>14. ASSUME NEW a \in Actors, TearDown(a) PROVE Slots'
  <2>1. UNCHANGED slots /\ at[a] \notin H
    BY <1>14 DEF TearDown, TearCur, TearLane, TearList, Pick, Elect
  <2>2. PICK label \in {"lane", "remove", "pick", "elect", "gone", "idle"} : Go(a, label)
    BY <1>14 DEF TearDown, TearCur, TearLane, TearList, Pick, Elect
  <2> QED BY <1>1, <2>1, <2>2
<1>15. CASE UNCHANGED vars
  BY <1>7, <1>15 DEF vars
<1> QED BY <1>3, <1>4, <1>5, <1>6, <1>8, <1>9, <1>10, <1>11, <1>12, <1>13, <1>14, <1>15
        DEF Next, Handle

\* Victims are some of the list, each once.
LEMMA VictimsListed ==
  ASSUME NEW l \in Seq(Conns), Once(l)
  PROVE  /\ Victims(l) \in Seq(Conns) /\ Once(Victims(l))
         /\ Elements(Victims(l)) \subseteq Elements(l) /\ Range(Victims(l)) = Elements(Victims(l))
<1> DEFINE o == Without(l, {cur})
           x == Len(l) - MaxAuth
           k == Min({x, Len(o)})
<1>1. o \in Seq(Conns) /\ Once(o) /\ Elements(o) \subseteq Elements(l)
  BY WithoutKeepsOthers
<1>2. Victims(l) = SubSeq(o, 1, k)
  BY DEF Victims
<1> HIDE DEF o
<1>3. x \in Int /\ Len(o) \in Nat
  BY <1>1, LimitsAssumption
<1>4. k \in Int /\ k <= Len(o)
  <2>1. \E y \in {x, Len(o)} : \A z \in {x, Len(o)} : y <= z
    BY <1>3
  <2>2. k \in {x, Len(o)} /\ \A z \in {x, Len(o)} : k <= z
    BY <2>1 DEF Min
  <2> QED BY <1>3, <2>2
<1> HIDE DEF k
<1>5. SubSeq(o, 1, k) \in Seq(Conns) /\ Once(SubSeq(o, 1, k)) /\ Elements(SubSeq(o, 1, k)) \subseteq Elements(o)
  <2>1. CASE k \in 0 .. Len(o)
    <3>1. /\ SubSeq(o, 1, k) \in Seq(Conns) /\ DOMAIN SubSeq(o, 1, k) = 1 .. k
          /\ \A j \in 1 .. k : SubSeq(o, 1, k)[j] = o[j] /\ j \in DOMAIN o
      BY <1>1, <2>1
    <3> QED BY <1>1, <3>1 DEF Once, Elements
  <2>2. CASE k < 0
    <3>1. SubSeq(o, 1, k) = <<>>
      BY <1>1, <1>4, <2>2
    <3>2. <<>> \in Seq(Conns) /\ DOMAIN <<>> = {}
      OBVIOUS
    <3>3. Once(<<>>) /\ Elements(<<>>) = {}
      BY <3>2 DEF Once, Elements
    <3> QED BY <3>1, <3>2, <3>3
  <2> QED BY <1>3, <1>4, <2>1, <2>2
<1> QED BY <1>1, <1>2, <1>5 DEF Elements, Range

\* One more at the end of a list that does not have it yet.
LEMMA OnceAppend ==
  ASSUME NEW l \in Seq(Conns), Once(l), NEW x \in Conns, x \notin Elements(l)
  PROVE  Append(l, x) \in Seq(Conns) /\ Once(Append(l, x)) /\ Elements(Append(l, x)) = Elements(l) \union {x}
<1>1. Once(Append(l, x))
  BY DEF Once, Elements
<1> QED BY <1>1, ElementsAppend

\* Taking the first from a list in which everybody is once.
LEMMA OnceTail ==
  ASSUME NEW l \in Seq(Conns), Once(l), l # <<>>
  PROVE  /\ Head(l) \in Conns /\ Head(l) \in Elements(l)
         /\ Tail(l) \in Seq(Conns) /\ Once(Tail(l)) /\ Elements(Tail(l)) = Elements(l) \ {Head(l)}
<1>1. Head(l) \in Conns /\ Tail(l) \in Seq(Conns) /\ Elements(l) = {Head(l)} \union Elements(Tail(l))
  BY ElementsHeadTail
<1>2. /\ Len(l) \in Nat \ {0} /\ DOMAIN l = 1 .. Len(l) /\ DOMAIN Tail(l) = 1 .. Len(l) - 1
      /\ Head(l) = l[1] /\ \A j \in 1 .. Len(l) - 1 : Tail(l)[j] = l[j + 1] /\ j + 1 \in 1 .. Len(l)
  OBVIOUS
<1>3. Once(Tail(l))
  <2> SUFFICES ASSUME NEW j \in 1 .. Len(l) - 1, NEW k \in 1 .. Len(l) - 1, Tail(l)[j] = Tail(l)[k]
               PROVE  j = k
    BY <1>2 DEF Once
  <2>1. l[j + 1] = l[k + 1] /\ {j + 1, k + 1} \subseteq DOMAIN l
    BY <1>2
  <2>2. j + 1 = k + 1
    BY <2>1 DEF Once
  <2> QED BY <2>2
<1>4. Head(l) \notin Elements(Tail(l))
  <2> SUFFICES ASSUME NEW j \in 1 .. Len(l) - 1, Tail(l)[j] = Head(l) PROVE FALSE
    BY <1>2 DEF Elements
  <2>1. l[j + 1] = l[1] /\ {j + 1, 1} \subseteq DOMAIN l
    BY <1>2
  <2>2. j + 1 = 1
    BY <2>1 DEF Once
  <2> QED BY <2>2
<1> QED BY <1>1, <1>3, <1>4

\* A connection stays in one place, whatever is appended, reaped, put back and removed.
LEMMA StepListing ==
  ASSUME EInv, [Next]_vars
  PROVE  Listing'
<1>0. Listing /\ at \in [Actors -> Labels] /\ \A c \in Conns : c \in Actors
  BY DEF EInv, Actors, PlainTypes
<1>1. ASSUME NEW a \in Actors, NEW label, Go(a, label), UNCHANGED <<authConns, reaping>>,
             a \in Conns => /\ label \in Early => at[a] \in Early
                            /\ label \notin {"reap", "back"} => reaping[a] = <<>>
                            /\ label = "back" => reaping[a] # <<>>
      PROVE  Listing'
  <2>1. \A c \in Conns : at'[c] = IF c = a THEN label ELSE at[c]
    BY <1>0, <1>1 DEF Go
  <2>2. authConns' = authConns /\ reaping' = reaping
    BY <1>1
  <2> QED BY <1>0, <1>1, <2>1, <2>2 DEF Listing
<1>2. ASSUME UNCHANGED <<at, authConns, reaping>> PROVE Listing'
  BY <1>0, <1>2 DEF Listing
<1>3. ASSUME NEW c \in Conns, at[c] \notin {"reap", "back"} PROVE reaping[c] = <<>>
  BY <1>0, <1>3 DEF Listing
<1>4. ASSUME NEW c \in Conns, Accept(c) PROVE Listing'
  <2>1. PICK label \in {"pre", "gone"} : Go(c, label)
    BY <1>4 DEF Accept
  <2>2. at[c] = "none" /\ UNCHANGED <<authConns, reaping>>
    BY <1>4 DEF Accept
  <2> QED BY <1>0, <1>1, <1>3, <2>1, <2>2 DEF Early
<1>5. ASSUME NEW c \in Conns, PreFails(c) PROVE Listing'
  BY <1>0, <1>1, <1>3, <1>5 DEF PreFails, Early
<1>6. ASSUME NEW c \in Conns, Publish(c) PROVE Listing'
  BY <1>0, <1>1, <1>3, <1>6 DEF Publish, Early
<1>7. ASSUME NEW c \in Conns, First(c) PROVE Listing'
  BY <1>0, <1>1, <1>7 DEF First, Early
<1>8. ASSUME NEW c \in Conns, ReadFails(c) PROVE Listing'
  BY <1>0, <1>1, <1>3, <1>8 DEF ReadFails, Early
<1>9. ASSUME NEW c \in Conns, Data(c) \/ Break(c) PROVE Listing'
  BY <1>2, <1>9 DEF Data, Break
<1>10. ASSUME NEW q \in Loops, WriteFails(q) PROVE Listing'
  <2>1. q \in Actors /\ q \notin Conns
    BY ConnsAssumption DEF Actors
  <2> QED BY <1>1, <1>10, <2>1 DEF WriteFails
<1>11. ASSUME NEW a \in Actors, TearDown(a), ~TearList(a) PROVE Listing'
  <2>1. UNCHANGED <<authConns, reaping>> /\ at[a] \in Tearing
    BY <1>11 DEF TearDown, TearCur, TearLane, Pick, Elect, Tearing
  <2>2. PICK label \in {"lane", "remove", "pick", "elect", "gone", "idle"} : Go(a, label)
    BY <1>11 DEF TearDown, TearCur, TearLane, TearList, Pick, Elect
  <2>3. a \in Conns => reaping[a] = <<>>
    BY <1>3, <2>1 DEF Tearing
  <2> QED BY <1>1, <2>1, <2>2, <2>3 DEF Early
<1>12. ASSUME NEW a \in Actors, TearList(a) PROVE Listing'
  <2>1. /\ at[a] = "remove" /\ at' = [at EXCEPT ![a] = "pick"] /\ reaping' = reaping
        /\ authConns' = Without(authConns, {job[a]})
    BY <1>12 DEF TearList, Go
  <2>2. /\ authConns' \in Seq(Conns) /\ Once(authConns') /\ Elements(authConns') \subseteq Elements(authConns)
    BY <1>0, <2>1, WithoutKeepsOthers DEF Listing
  <2>3. \A c \in Conns : at'[c] = IF c = a THEN "pick" ELSE at[c]
    BY <1>0, <2>1
  <2> HIDE DEF Once
  <2> QED BY <1>0, <2>1, <2>2, <2>3 DEF Listing, Early
<1>13. ASSUME NEW c \in Conns, Reap(c) PROVE Listing'
  <2>1. CASE Go(c, "back") /\ UNCHANGED reaping
    <3>1. UNCHANGED authConns /\ reaping[c] # <<>>
      BY <1>13 DEF Reap
    <3> QED BY <1>0, <1>1, <2>1, <3>1 DEF Early
  <2>2. CASE reaping' = [reaping EXCEPT ![c] = Tail(@)] /\ UNCHANGED at
    <3>1. authConns' = authConns /\ reaping[c] # <<>> /\ at[c] = "reap" /\ at' = at
      BY <1>13, <2>2 DEF Reap
    <3>2. /\ Tail(reaping[c]) \in Seq(Conns) /\ Once(Tail(reaping[c]))
          /\ Elements(Tail(reaping[c])) \subseteq Elements(reaping[c])
      BY <1>0, <3>1, OnceTail DEF Listing
    <3>3. \A d \in Conns : reaping'[d] = IF d = c THEN Tail(reaping[c]) ELSE reaping[d]
      BY <1>0, <2>2 DEF Listing
    <3>4. \A d \in Conns : reaping'[d] \in Seq(Conns) /\ Once(reaping'[d]) /\ Elements(reaping'[d]) \subseteq Elements(reaping[d])
      BY <1>0, <3>2, <3>3 DEF Listing
    <3>5. DOMAIN reaping' = Conns
      BY <1>0, <2>2 DEF Listing
    <3> QED BY <1>0, <3>1, <3>3, <3>4, <3>5 DEF Listing
  <2> QED BY <1>13, <2>1, <2>2 DEF Reap
<1>14. ASSUME NEW c \in Conns, ReapBack(c) PROVE Listing'
  <2> DEFINE h == Head(reaping[c])
  <2>1. /\ at[c] = "back" /\ at' = [at EXCEPT ![c] = "reap"]
        /\ reaping' = [reaping EXCEPT ![c] = Tail(@)] /\ authConns' = Append(authConns, h)
    BY <1>14 DEF ReapBack, Go
  <2>2. /\ h \in Conns /\ h \in Elements(reaping[c])
        /\ Tail(reaping[c]) \in Seq(Conns) /\ Once(Tail(reaping[c]))
        /\ Elements(Tail(reaping[c])) = Elements(reaping[c]) \ {h}
    BY <1>0, <2>1, OnceTail DEF Listing
  <2> HIDE DEF h
  <2>3. h \notin Elements(authConns) /\ at[h] \notin Early
    BY <1>0, <2>2 DEF Listing
  <2>4. /\ authConns' \in Seq(Conns) /\ Once(authConns') /\ Elements(authConns') = Elements(authConns) \union {h}
    BY <1>0, <2>1, <2>2, <2>3, OnceAppend DEF Listing
  <2>5. /\ DOMAIN reaping' = Conns
        /\ \A d \in Conns : reaping'[d] = IF d = c THEN Tail(reaping[c]) ELSE reaping[d]
    BY <1>0, <2>1 DEF Listing
  <2>6. \A d \in Conns : /\ reaping'[d] \in Seq(Conns) /\ Once(reaping'[d])
                         /\ Elements(reaping'[d]) \subseteq Elements(reaping[d])
                         /\ h \notin Elements(reaping'[d])
    BY <1>0, <2>2, <2>5 DEF Listing
  <2>7. \A d \in Conns : at'[d] = IF d = c THEN "reap" ELSE at[d]
    BY <1>0, <2>1
  <2>8. ASSUME NEW x \in Conns, at'[x] \in Early
        PROVE  x \notin Elements(authConns') /\ \A d \in Conns : x \notin Elements(reaping'[d])
    <3>1. at[x] \in Early
      BY <2>7, <2>8 DEF Early
    <3> QED BY <1>0, <2>3, <2>4, <2>6, <3>1 DEF Listing
  <2>9. \A d \in Conns : (at'[d] \notin {"reap", "back"} => reaping'[d] = <<>>) /\ (at'[d] = "back" => reaping'[d] # <<>>)
    BY <1>0, <2>5, <2>7 DEF Listing
  <2>10. \A d \in Conns, x \in Elements(authConns') : x \notin Elements(reaping'[d])
    BY <1>0, <2>4, <2>6 DEF Listing
  <2>11. \A d, e \in Conns : \A x \in Elements(reaping'[d]) : x \in Elements(reaping'[e]) => d = e
    BY <1>0, <2>6 DEF Listing
  <2> QED BY <2>4, <2>5, <2>6, <2>8, <2>9, <2>10, <2>11 DEF Listing
<1>15. ASSUME NEW c \in Conns, List(c) PROVE Listing'
  <2> DEFINE l == Append(authConns, c)
             v == Victims(l)
  <2>1. /\ at[c] = "append" /\ at' = [at EXCEPT ![c] = "reap"]
        /\ reaping' = [reaping EXCEPT ![c] = v] /\ authConns' = Without(l, Range(v))
    BY <1>15 DEF List, Go
  <2>2. /\ c \notin Elements(authConns) /\ \A d \in Conns : c \notin Elements(reaping[d])
    BY <1>0, <2>1 DEF Listing, Early
  <2>3. l \in Seq(Conns) /\ Once(l) /\ Elements(l) = Elements(authConns) \union {c}
    BY <1>0, <2>2, OnceAppend DEF Listing
  <2> HIDE DEF l
  <2>4. v \in Seq(Conns) /\ Once(v) /\ Elements(v) \subseteq Elements(l) /\ Range(v) = Elements(v)
    BY <2>3, VictimsListed
  <2> HIDE DEF v
  <2>5. /\ authConns' \in Seq(Conns) /\ Once(authConns') /\ Elements(authConns') = Elements(l) \ Elements(v)
    BY <2>1, <2>3, <2>4, WithoutKeepsOthers
  <2>6. /\ DOMAIN reaping' = Conns
        /\ \A d \in Conns : reaping'[d] = IF d = c THEN v ELSE reaping[d]
    BY <1>0, <2>1 DEF Listing
  <2>7. \A d \in Conns : at'[d] = IF d = c THEN "reap" ELSE at[d]
    BY <1>0, <2>1
  <2>8. \A d \in Conns : reaping'[d] \in Seq(Conns) /\ Once(reaping'[d])
    BY <1>0, <2>4, <2>6 DEF Listing
  <2>9. \A d \in Conns, x \in Elements(l) : d # c => x \notin Elements(reaping'[d])
    BY <1>0, <2>2, <2>3, <2>6 DEF Listing
  <2>10. \A d \in Conns, x \in Elements(authConns') : x \notin Elements(reaping'[d])
    BY <2>5, <2>6, <2>9
  <2>11. \A d, e \in Conns : \A x \in Elements(reaping'[d]) : x \in Elements(reaping'[e]) => d = e
    BY <1>0, <2>4, <2>6, <2>9 DEF Listing
  <2>12. ASSUME NEW x \in Conns, at'[x] \in Early
         PROVE  x \notin Elements(authConns') /\ \A d \in Conns : x \notin Elements(reaping'[d])
    <3>1. x # c /\ at[x] \in Early
      BY <2>7, <2>12 DEF Early
    <3>2. x \notin Elements(l) /\ \A d \in Conns : x \notin Elements(reaping[d])
      BY <1>0, <2>3, <3>1 DEF Listing
    <3> QED BY <2>4, <2>5, <2>6, <3>2
  <2>13. \A d \in Conns : (at'[d] \notin {"reap", "back"} => reaping'[d] = <<>>) /\ (at'[d] = "back" => reaping'[d] # <<>>)
    BY <1>0, <2>6, <2>7 DEF Listing
  <2> QED BY <2>5, <2>6, <2>8, <2>10, <2>11, <2>12, <2>13 DEF Listing
<1>16. CASE UNCHANGED vars
  BY <1>2, <1>16 DEF vars
<1> QED BY <1>4, <1>5, <1>6, <1>7, <1>8, <1>9, <1>10, <1>11, <1>12, <1>13, <1>14, <1>15, <1>16
        DEF Next, Handle

\* Whoever leaves the server without a downstream has the election before it, and every step
\* that adds to the list when there is none adds somebody who was marked as raced.
LEMMA StepElection ==
  ASSUME EInv, [Next]_vars
  PROVE  Election'
<1> SUFFICES ASSUME cur' = None
             PROVE  /\ Unlisted' \subseteq raced'
                    /\ \A x \in Elements(authConns') : x \in raced' \/ Pending'
  BY DEF Election
<1> USE DEF KeepCur, SetCur
<1>0. /\ PlainTypes /\ Listing /\ Election /\ (\A c \in Conns : c \in Actors)
      /\ at \in [Actors -> Labels] /\ DOMAIN picked = Actors
  BY DEF EInv, PlainTypes, Actors
<1> DEFINE Kept == /\ Unlisted' \subseteq Unlisted /\ raced' = raced /\ cur = None
                   /\ \A x \in Elements(authConns') : x \in Elements(authConns) \/ x \in Unlisted
                   /\ Pending => Pending'
<1>1. ASSUME Kept
      PROVE  /\ Unlisted' \subseteq raced'
             /\ \A x \in Elements(authConns') : x \in raced' \/ Pending'
  BY <1>0, <1>1 DEF Election
<1>2. ASSUME NEW a \in Actors, NEW label, Go(a, label), UNCHANGED <<reaping, picked>>,
             at[a] \notin {"lane", "remove", "pick", "elect"},
             a \in Conns => label \notin {"append", "back"}
      PROVE  Unlisted' \subseteq Unlisted /\ (Pending => Pending')
  <2>1. \A b \in Actors : at'[b] = IF b = a THEN label ELSE at[b]
    BY <1>0, <1>2 DEF Go
  <2>2. Unlisted' \subseteq Unlisted
    BY <1>0, <1>2, <2>1 DEF Unlisted
  <2>3. Pending => Pending'
    BY <1>2, <2>1 DEF Pending
  <2> QED BY <2>2, <2>3
<1>3. ASSUME NEW c \in Conns, Accept(c) PROVE Kept
  <2>1. PICK label \in {"pre", "gone"} : Go(c, label)
    BY <1>3 DEF Accept
  <2>2. at[c] = "none" /\ UNCHANGED <<cur, raced, authConns, reaping, picked>>
    BY <1>3 DEF Accept
  <2> QED BY <1>0, <1>2, <2>1, <2>2
<1>4. ASSUME NEW c \in Conns, PreFails(c) PROVE Kept
  <2>1. Go(c, "gone") /\ at[c] = "pre" /\ UNCHANGED <<cur, raced, authConns, reaping, picked>>
    BY <1>4 DEF PreFails
  <2> QED BY <1>0, <1>2, <2>1
<1>5. ASSUME NEW c \in Conns, Publish(c) PROVE FALSE
  BY <1>0, <1>5, ConnsAssumption DEF Publish
<1>6. ASSUME NEW c \in Conns, List(c) PROVE Kept
  <2> DEFINE l == Append(authConns, c)
  <2>1. /\ at[c] = "append" /\ Go(c, "reap") /\ UNCHANGED <<cur, raced, picked>>
        /\ authConns' = Without(l, Range(Victims(l)))
        /\ reaping' = [reaping EXCEPT ![c] = Victims(l)]
    BY <1>6 DEF List
  <2>2. \A b \in Actors : at'[b] = IF b = c THEN "reap" ELSE at[b]
    BY <1>0, <2>1 DEF Go
  <2>3. l \in Seq(Conns) /\ Elements(l) = Elements(authConns) \union {c}
    BY <1>0, ElementsAppend DEF Listing
  <2>4. Elements(authConns') \subseteq Elements(l)
    <3> HIDE DEF l
    <3> QED BY <2>1, <2>3, WithoutKeepsOthers
  <2>5. c \in Unlisted
    BY <2>1 DEF Unlisted
  <2>6. \A d \in Conns : d # c => reaping'[d] = reaping[d]
    BY <1>0, <2>1 DEF Listing
  <2>7. Unlisted' \subseteq Unlisted
    <3> SUFFICES ASSUME NEW x \in Unlisted' PROVE x \in Unlisted
      OBVIOUS
    <3>1. CASE x \in Conns /\ at'[x] = "append"
      BY <1>0, <2>2, <3>1 DEF Unlisted
    <3>2. CASE \E d \in Conns : at'[d] = "back" /\ x = Head(reaping'[d])
      <4>1. PICK d \in Conns : at'[d] = "back" /\ x = Head(reaping'[d])
        BY <3>2
      <4>2. d # c /\ at[d] = "back" /\ x = Head(reaping[d])
        BY <1>0, <2>2, <2>6, <4>1
      <4> QED BY <4>2 DEF Unlisted
    <3> QED BY <3>1, <3>2 DEF Unlisted
  <2>8. Pending => Pending'
    BY <2>1, <2>2 DEF Pending
  <2> QED BY <2>1, <2>3, <2>4, <2>5, <2>7, <2>8
<1>7. ASSUME NEW c \in Conns, Reap(c) PROVE Kept
  <2>1. at[c] = "reap" /\ reaping[c] # <<>> /\ UNCHANGED <<cur, raced, picked, authConns>>
    BY <1>7 DEF Reap
  <2>2. Head(reaping[c]) # cur
    BY <1>0, <2>1, OnceTail, ConnsAssumption DEF Listing
  <2>3. UNCHANGED at /\ reaping' = [reaping EXCEPT ![c] = Tail(@)]
    BY <1>7, <2>2 DEF Reap
  <2>4. \A d \in Conns : d # c => reaping'[d] = reaping[d]
    BY <1>0, <2>3 DEF Listing
  <2>5. Unlisted' \subseteq Unlisted
    <3> SUFFICES ASSUME NEW x \in Unlisted' PROVE x \in Unlisted
      OBVIOUS
    <3>1. CASE x \in Conns /\ at'[x] = "append"
      BY <2>3, <3>1 DEF Unlisted
    <3>2. CASE \E d \in Conns : at'[d] = "back" /\ x = Head(reaping'[d])
      <4>1. PICK d \in Conns : at'[d] = "back" /\ x = Head(reaping'[d])
        BY <3>2
      <4>2. d # c /\ at[d] = "back" /\ x = Head(reaping[d])
        BY <2>1, <2>3, <2>4, <4>1
      <4> QED BY <4>2 DEF Unlisted
    <3> QED BY <3>1, <3>2 DEF Unlisted
  <2>6. Pending => Pending'
    BY <2>1, <2>3 DEF Pending
  <2> QED BY <2>1, <2>5, <2>6
<1>8. ASSUME NEW c \in Conns, ReapBack(c) PROVE Kept
  <2>1. /\ at[c] = "back" /\ Go(c, "reap") /\ UNCHANGED <<cur, raced, picked>>
        /\ authConns' = Append(authConns, Head(reaping[c]))
        /\ reaping' = [reaping EXCEPT ![c] = Tail(@)]
    BY <1>8 DEF ReapBack
  <2>2. \A b \in Actors : at'[b] = IF b = c THEN "reap" ELSE at[b]
    BY <1>0, <2>1 DEF Go
  <2>3. Head(reaping[c]) \in Unlisted
    BY <2>1 DEF Unlisted
  <2>4. Elements(authConns') = Elements(authConns) \union {Head(reaping[c])}
    <3>1. Head(reaping[c]) \in Conns
      BY <1>0, <2>1, OnceTail DEF Listing
    <3> QED BY <1>0, <2>1, <3>1, ElementsAppend DEF Listing
  <2>5. \A d \in Conns : d # c => reaping'[d] = reaping[d]
    BY <1>0, <2>1 DEF Listing
  <2>6. Unlisted' \subseteq Unlisted
    <3> SUFFICES ASSUME NEW x \in Unlisted' PROVE x \in Unlisted
      OBVIOUS
    <3>1. CASE x \in Conns /\ at'[x] = "append"
      BY <1>0, <2>2, <3>1 DEF Unlisted
    <3>2. CASE \E d \in Conns : at'[d] = "back" /\ x = Head(reaping'[d])
      <4>1. PICK d \in Conns : at'[d] = "back" /\ x = Head(reaping'[d])
        BY <3>2
      <4>2. d # c /\ at[d] = "back" /\ x = Head(reaping[d])
        BY <1>0, <2>2, <2>5, <4>1
      <4> QED BY <4>2 DEF Unlisted
    <3> QED BY <3>1, <3>2 DEF Unlisted
  <2>7. Pending => Pending'
    BY <2>1, <2>2 DEF Pending
  <2> QED BY <2>1, <2>3, <2>4, <2>6, <2>7
<1>9. ASSUME NEW c \in Conns, First(c) PROVE Kept
  <2>1. Go(c, "read") /\ at[c] = "reap" /\ UNCHANGED <<cur, raced, authConns, reaping, picked>>
    BY <1>9 DEF First
  <2> QED BY <1>0, <1>2, <2>1
<1>10. ASSUME NEW c \in Conns, ReadFails(c) PROVE Kept
  <2>1. Go(c, "down") /\ at[c] = "read" /\ UNCHANGED <<cur, raced, authConns, reaping, picked>>
    BY <1>10 DEF ReadFails
  <2> QED BY <1>0, <1>2, <2>1
<1>11. ASSUME UNCHANGED <<cur, raced, at, authConns, reaping, picked>> PROVE Kept
  BY <1>11 DEF Unlisted, Pending
<1>12. ASSUME NEW c \in Conns, Data(c) \/ Break(c) PROVE Kept
  BY <1>11, <1>12, ConnsAssumption DEF Data, Break
<1>13. ASSUME NEW q \in Loops, WriteFails(q) PROVE Kept
  <2>1. q \in Actors /\ q \notin Conns
    BY ConnsAssumption DEF Actors
  <2>2. Go(q, "down") /\ at[q] = "idle" /\ UNCHANGED <<cur, raced, authConns, reaping, picked>>
    BY <1>13 DEF WriteFails
  <2> QED BY <1>2, <2>1, <2>2
<1>14. ASSUME NEW a \in Actors, TearDown(a)
       PROVE  /\ Unlisted' \subseteq raced'
              /\ \A x \in Elements(authConns') : x \in raced' \/ Pending'
  <2>0. PICK label \in {"lane", "remove", "pick", "elect", "gone", "idle"} : Go(a, label)
    BY <1>14 DEF TearDown, TearCur, TearLane, TearList, Pick, Elect
  <2>1. \A b \in Actors : at'[b] = IF b = a THEN label ELSE at[b]
    BY <1>0, <2>0 DEF Go
  <2>2. Unlisted' \subseteq Unlisted
    <3>1. UNCHANGED reaping
      BY <1>14 DEF TearDown, TearCur, TearLane, TearList, Pick, Elect
    <3> QED BY <1>0, <2>1, <3>1 DEF Unlisted
  <2>3. at'[a] \in {"lane", "remove", "pick"} => Pending'
    BY DEF Pending
  <2>4. CASE TearCur(a)
    <3>1. at'[a] = "lane"
      BY <1>0, <2>4 DEF TearCur, Go
    <3>2. cur = None => raced' = raced
      BY <2>4 DEF TearCur
    <3>3. cur # None => raced' = raced \union Unlisted
      BY <2>4 DEF TearCur
    <3> QED BY <1>0, <2>2, <2>3, <3>1, <3>2, <3>3 DEF Election
  <2>5. CASE TearLane(a) \/ TearList(a)
    <3>1. at'[a] \in {"remove", "pick"} /\ UNCHANGED <<cur, raced>>
      BY <1>0, <2>5 DEF TearLane, TearList, Go
    <3> QED BY <1>0, <2>2, <2>3, <3>1 DEF Election
  <2>6. CASE Pick(a)
    <3>1. /\ at'[a] = "elect" /\ UNCHANGED <<cur, raced, authConns>>
          /\ picked'[a] = IF authConns = <<>> THEN None ELSE Last(authConns)
      BY <1>0, <2>6 DEF Pick, Go
    <3>2. CASE authConns = <<>>
      BY <1>0, <2>2, <3>1, <3>2 DEF Election, Elements
    <3>3. CASE authConns # <<>>
      <4>1. Last(authConns) \in Conns
        BY <1>0, <3>3 DEF Listing, Last
      <4>2. Pending'
        BY <3>1, <3>3, <4>1, ConnsAssumption DEF Pending
      <4> QED BY <1>0, <2>2, <3>1, <4>2 DEF Election
    <3> QED BY <3>2, <3>3
  <2>7. CASE Elect(a)
    <3>1. cur = None /\ picked[a] = None /\ UNCHANGED <<cur, raced, authConns>>
      BY <2>7 DEF Elect
    <3>2. at[a] = "elect" /\ picked' = [picked EXCEPT ![a] = None]
      BY <2>7 DEF Elect
    <3>3. Pending => Pending'
      <4> SUFFICES ASSUME Pending PROVE Pending'
        OBVIOUS
      <4>1. PICK b \in Actors : \/ at[b] \in {"lane", "remove", "pick"}
                                \/ at[b] = "elect" /\ picked[b] # None
        BY DEF Pending
      <4>2. b # a
        BY <3>1, <3>2, <4>1
      <4>3. at'[b] = at[b] /\ picked'[b] = picked[b]
        BY <1>0, <2>1, <3>2, <4>2
      <4> QED BY <4>1, <4>3 DEF Pending
    <3> QED BY <1>0, <2>2, <3>1, <3>3 DEF Election
  <2> QED BY <1>14, <2>4, <2>5, <2>6, <2>7 DEF TearDown
<1>15. CASE UNCHANGED vars
  BY <1>1, <1>11, <1>15 DEF vars
<1> HIDE DEF Kept
<1> QED BY <1>1, <1>3, <1>4, <1>5, <1>6, <1>7, <1>8, <1>9, <1>10, <1>12, <1>13, <1>14, <1>15
        DEF Next, Handle

\* Nobody is connected at the start.
LEMMA InitEInv == Init => EInv
<1> SUFFICES ASSUME Init PROVE EInv
  OBVIOUS
<1>0. /\ cur = None /\ laneCur = [l \in 1 .. Lanes - 1 |-> None]
      /\ authConns = <<>> /\ slots = 0
      /\ alive = [c \in Conns |-> FALSE] /\ lane = [c \in Conns |-> 0]
      /\ at = [a \in Actors |-> IF a \in Conns THEN "none" ELSE "idle"]
      /\ job = [a \in Actors |-> None] /\ picked = [a \in Actors |-> None]
      /\ reaping = [c \in Conns |-> <<>>] /\ raced = {}
  BY DEF Init
<1>1. \A c \in Conns : c \in Actors /\ at[c] = "none" /\ reaping[c] = <<>>
  BY <1>0 DEF Actors
<1>2. PlainTypes
  BY <1>0, LanesAssumption DEF PlainTypes, Labels
<1>3. Slots
  <2>1. Holders = {}
    BY <1>1 DEF Holders
  <2> QED BY <1>0, <2>1, FS_EmptySet, LimitsAssumption DEF Slots
<1>4. <<>> \in Seq(Conns) /\ Elements(<<>>) = {} /\ Once(<<>>)
  BY DEF Elements, Once
<1>5. Listing
  BY <1>0, <1>1, <1>4 DEF Listing
<1>6. Election
  <2>1. Unlisted = {}
    BY <1>1 DEF Unlisted
  <2> QED BY <1>0, <1>4, <2>1 DEF Election
<1> QED BY <1>2, <1>3, <1>5, <1>6 DEF EInv

\* The list, the slots and the election stay in order.
LEMMA ElectionInvariant == Spec => []EInv
<1>1. EInv /\ [Next]_vars => EInv'
  BY StepPlain, StepSlots, StepListing, StepElection DEF EInv
<1> QED BY <1>1, InitEInv, PTL DEF Spec

\* The fields of the server keep their types: no connection is listed twice although
\* publishServerConn takes some off and puts one back after it gave up authMu, and the
\* tokens in preAuth are never fewer than none nor more than maxPreAuthConns.
THEOREM ServerTypeOK == Spec => []TypeOK
<1>1. EInv => TypeOK
  BY DEF EInv, PlainTypes, Slots, Listing, TypeOK
<1> QED BY <1>1, ElectionInvariant, PTL

\* When nothing is under way and somebody is listed, the server has a downstream
\* (reelectDownstream), but for connections that were off the list when the last downstream
\* went away: for any number of connections and loops that tear down at the same time.
THEOREM ServerElects == Spec => []DownstreamElected
<1>1. EInv => DownstreamElected
  <2> SUFFICES ASSUME EInv, Quiet, cur = None, NEW j \in DOMAIN authConns
               PROVE  authConns[j] \in raced
    BY DEF DownstreamElected
  <2>1. ~Pending
    BY DEF Pending, Quiet, Actors
  <2>2. authConns[j] \in Elements(authConns)
    BY DEF Elements
  <2> QED BY <2>1, <2>2 DEF EInv, Election
<1> QED BY <1>1, ElectionInvariant, PTL
=============================================================================
