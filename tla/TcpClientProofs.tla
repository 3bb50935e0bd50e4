--------------------------- MODULE TcpClientProofs ---------------------------
(***************************************************************************)
(* ServedIsKnown and SilentDeathsBounded for any number of lanes and       *)
(* addresses, moves and breaks.                                            *)
(*                                                                         *)
(* ServedIsKnown follows from what the dial loop has published by the time *)
(* it is at a label (Published): while it is past the store of cur, an     *)
(* open connection is still cur, because whoever clears cur either is the  *)
(* loop itself, later, or held a connection that is gone.                  *)
(*                                                                         *)
(* SilentDeathsBounded needs the reasons that are stored and will be taken *)
(* for a drop of the latest connection although nobody drops it            *)
(* (Misleading): each of them was stored late, and at most one report      *)
(* comes of it.                                                            *)
(***************************************************************************)
EXTENDS TcpClient, TLAPS, FiniteSetTheorems, SequenceTheorems

Labels == {"top", "dialling", "current", "droppable", "serving", "served", "withdrawn",
           "waiting", "left"}

Drops == [at : {"idle"}, todo : {<<>>}, conn : {0}]
           \union [at : {"load", "store", "close"}, todo : Seq(Lanes) \ {<<>>}, conn : Nat]

Types ==
  /\ pc \in [Lanes -> Labels]
  /\ target \in [Lanes -> Addrs \union {None}]
  /\ cursor \in [Lanes -> Addrs]
  /\ livePair \in [Lanes -> Addrs \union {None}]
  /\ made \in [Lanes -> Nat] /\ cur \in [Lanes -> Nat] /\ curConn \in [Lanes -> Nat]
  /\ held \in [Lanes -> Nat]
  /\ open \in [Lanes -> BOOLEAN]
  /\ drop \in [Lanes -> Drops]

\* What the dial loop of a lane has made known by the time it is at a label.
Published ==
  \A l \in Lanes :
    /\ pc[l] # "top" /\ pc[l] # "left" /\ pc[l] # "waiting" => target[l] \in Addrs
    /\ pc[l] \in {"current", "droppable", "serving"} =>
         made[l] > 0 /\ (open[l] => cur[l] = made[l])
    /\ pc[l] \in {"droppable", "serving"} => curConn[l] = made[l]
    /\ pc[l] = "serving" => livePair[l] = target[l]

\* The lanes whose next report will be silent although nobody drops their latest connection.
Misleading == {l \in Lanes : dropWhy[l] /\ ~byUs[l]}

Counted ==
  /\ dropWhy \in [Lanes -> BOOLEAN] /\ byUs \in [Lanes -> BOOLEAN]
  /\ silent \in Nat /\ late \in Nat
  /\ silent + Cardinality(Misleading) <= late

IInv == Types /\ Published /\ Counted

----------------------------------------------------------------------------
(* The lists of lanes that a drop goes through.                            *)

\* An enumeration of a set of lanes is a sequence of lanes.
LEMMA SetToSeqType ==
  ASSUME NEW T, IsFiniteSet(T)
  PROVE  SetToSeq(T) \in Seq(T)
<1> DEFINE c == Cardinality(T)
<1>1. c \in Nat /\ \E f : f \in Bijection(1 .. c, T)
  BY FS_CardinalityType DEF ExistsBijection
<1>2. PICK f : f \in Bijection(1 .. c, T)
  BY <1>1
<1>3. f \in [1 .. c -> T] /\ IsInjective(f)
  BY <1>2 DEF Bijection, Injection, IsInjective
<1>4. SetToSeq(T) \in [1 .. c -> T]
  BY <1>3 DEF SetToSeq
<1> QED BY <1>1, <1>4, IsASeq

\* A drop that has begun has a list of lanes to go through.
LEMMA DropTypes ==
  ASSUME NEW l \in Lanes, drop \in [Lanes -> Drops], drop[l].at # "idle"
  PROVE  /\ drop[l] \in [at : {"load", "store", "close"}, todo : Seq(Lanes) \ {<<>>}, conn : Nat]
         /\ Head(drop[l].todo) \in Lanes
         /\ Tail(drop[l].todo) \in Seq(Lanes)
<1>1. drop[l] \in [at : {"load", "store", "close"}, todo : Seq(Lanes) \ {<<>>}, conn : Nat]
  BY DEF Drops
<1> QED BY <1>1, HeadTailProperties

\* Going on to the next lane, or ending, is a drop again.
LEMMA DoneType ==
  ASSUME NEW l \in Lanes, drop \in [Lanes -> Drops], drop[l].at # "idle", Done(l)
  PROVE  drop' \in [Lanes -> Drops]
<1>1. Tail(drop[l].todo) \in Seq(Lanes)
  BY DropTypes
<1> QED BY <1>1 DEF Done, Set, Idle, Drops

\* A drop begins with the lanes of its list.
LEMMA BeginType ==
  ASSUME NEW l \in Lanes, NEW todo \in Seq(Lanes), todo # <<>>,
         drop \in [Lanes -> Drops], Begin(l, todo)
  PROVE  drop' \in [Lanes -> Drops]
BY DEF Begin, Set, Drops

----------------------------------------------------------------------------
(* The start.                                                              *)

LEMMA InitIInv == Init => IInv
<1> SUFFICES ASSUME Init PROVE IInv
  OBVIOUS
<1>1. (CHOOSE a \in Addrs : TRUE) \in Addrs
  BY AddrsAssumption
<1>2. Types
  BY <1>1 DEF Init, Types, Each, Labels, Drops, Idle
<1>3. Published
  BY DEF Init, Published, Each
<1>4. Misleading = {}
  BY DEF Init, Misleading, Each
<1>5. Counted
  BY <1>4, FS_EmptySet DEF Init, Counted, Each
<1> QED BY <1>2, <1>3, <1>5 DEF IInv

----------------------------------------------------------------------------
(* The types.                                                              *)

LEMMA DialLoopTypes ==
  ASSUME Types, NEW l \in Lanes, DialLoop(l)
  PROVE  Types'
<1>1. CASE Dial(l)
  BY <1>1 DEF Dial, DialTarget, Types, Labels, Set
<1>2. CASE DialFails(l)
  BY <1>2 DEF DialFails, shown, Types, Labels, Set
<1>3. CASE Connect(l)
  BY <1>3 DEF Connect, Types, Labels, Set
<1>4. CASE PublishConn(l)
  BY <1>4 DEF PublishConn, Types, Labels, Set
<1>5. CASE PublishPair(l)
  BY <1>5 DEF PublishPair, Types, Labels, Set
<1>6. CASE ServeEnds(l)
  BY <1>6 DEF ServeEnds, Types, Labels, Set, Cleared
<1>7. CASE Withdraw(l)
  BY <1>7 DEF Withdraw, Types, Labels, Set, Cleared
<1>8. CASE Report(l)
  BY <1>8 DEF Report, shown, Types, Labels, Set
<1>9. CASE WaitEnds(l)
  BY <1>9 DEF WaitEnds, shown, Types, Labels, Set
<1> QED BY <1>1, <1>2, <1>3, <1>4, <1>5, <1>6, <1>7, <1>8, <1>9 DEF DialLoop

\* A dropCarrier under way keeps the types: it only loads, stores a reason and closes.
LEMMA DroppingTypes ==
  ASSUME Types, NEW l \in Lanes, Dropping(l)
  PROVE  Types'
<1> DEFINE m == Head(drop[l].todo)
<1>1. drop[l].at # "idle" /\ drop \in [Lanes -> Drops]
  BY DEF Dropping, DropLoad, DropStore, DropClose, Types
<1>2. /\ drop[l] \in [at : {"load", "store", "close"}, todo : Seq(Lanes) \ {<<>>}, conn : Nat]
      /\ m \in Lanes
  BY <1>1, DropTypes
<1> HIDE DEF m
<1>3. UNCHANGED <<pc, target, made, cursor, cur, curConn, livePair, held>>
  BY DEF Dropping, DropLoad, DropStore, DropClose, dialling, shown
<1>4. drop' \in [Lanes -> Drops]
  <2>1. CASE Done(l)
    BY <2>1, <1>1, DoneType
  <2>2. CASE DropLoad(l) /\ drop' = Set(drop, l, [drop[l] EXCEPT !.at = "store", !.conn = curConn[m]])
    <3>1. curConn[m] \in Nat
      BY <1>2 DEF Types
    <3> QED BY <2>2, <3>1, <1>1, <1>2 DEF Set, Drops
  <2>3. CASE DropStore(l)
    BY <2>3, <1>1, <1>2 DEF DropStore, Set, Drops
  <2> QED BY <2>1, <2>2, <2>3 DEF Dropping, DropLoad, DropClose, m
<1>5. open' \in [Lanes -> BOOLEAN]
  BY <1>2 DEF Dropping, DropLoad, DropStore, DropClose, Types, Set, m
<1> QED BY <1>3, <1>4, <1>5 DEF Types

\* Rotation, the operator, a port roll and a follower begin drops and move cursors.
LEMMA MoveTypes ==
  ASSUME Types, Walk \/ Select \/ Roll \/ (\E l \in Lanes : Follow(l))
  PROVE  Types'
<1>1. 0 \in Lanes
  BY LanesAssumption
<1>2. <<0>> \in Seq(Lanes) /\ <<0>> # <<>>
  BY <1>1
<1>3. drop' \in [Lanes -> Drops]
  <2>1. CASE Walk \/ Select
    BY <2>1, <1>1, <1>2, BeginType DEF Walk, Select, Types
  <2>2. CASE Roll
    <3> DEFINE todo == <<0>> \o SetToSeq(Lanes \ {0})
    <3>1. SetToSeq(Lanes \ {0}) \in Seq(Lanes \ {0})
      BY LanesAssumption, FS_Subset, SetToSeqType
    <3>2. SetToSeq(Lanes \ {0}) \in Seq(Lanes)
      BY <3>1, SeqMonotonic
    <3>3. todo \in Seq(Lanes) /\ Len(todo) > 0
      BY <3>2, <1>2, ConcatProperties, LenProperties
    <3>4. todo # <<>>
      BY <3>3
    <3> HIDE DEF todo
    <3> QED BY <2>2, <1>1, <3>3, <3>4, BeginType DEF Roll, Types, todo
  <2>3. CASE \E l \in Lanes : Follow(l)
    <3>1. PICK l \in Lanes : Follow(l)
      BY <2>3
    <3>2. <<l>> \in Seq(Lanes) /\ <<l>> # <<>>
      OBVIOUS
    <3> QED BY <3>1, <3>2, BeginType DEF Follow, Types
  <2> QED BY <2>1, <2>2, <2>3
<1>4. cursor' \in [Lanes -> Addrs]
  BY <1>1 DEF Walk, Select, Roll, Follow, Types, Set
<1>5. UNCHANGED <<pc, target, made, cur, curConn, livePair, held, open>>
  BY DEF Walk, Select, Roll, Follow, dialling, shown
<1> QED BY <1>3, <1>4, <1>5 DEF Types

\* Every step keeps the types.
LEMMA StepTypes == Types /\ [Next]_vars => Types'
<1> SUFFICES ASSUME Types, [Next]_vars PROVE Types'
  OBVIOUS
<1>1. ASSUME NEW l \in Lanes, Load(l) \/ Write(l) \/ Break(l) PROVE Types'
  <2>1. CASE Load(l)
    BY <2>1 DEF Load, Types, Set, dialling, shown
  <2>2. CASE Write(l)
    BY <2>2 DEF Write, Types, Set, Cleared, dialling
  <2>3. CASE Break(l)
    BY <2>3 DEF Break, Types, Set, dialling, shown
  <2> QED BY <1>1, <2>1, <2>2, <2>3
<1>2. CASE Close
  BY <1>2 DEF Close, Types, dialling, shown
<1>3. CASE UNCHANGED vars
  BY <1>3 DEF vars, Types, dialling, shown
<1> QED BY <1>1, <1>2, <1>3, DialLoopTypes, DroppingTypes, MoveTypes DEF Next

----------------------------------------------------------------------------
(* What is published.                                                      *)

\* Each step of the dial loop publishes what its new label says, and no other lane moves.
LEMMA DialLoopPublished ==
  ASSUME Types, Published, NEW l \in Lanes, DialLoop(l)
  PROVE  Published'
<1>1. CASE Dial(l)
  BY <1>1 DEF Dial, DialTarget, Types, Published, Set
<1>2. CASE DialFails(l)
  BY <1>2 DEF DialFails, shown, Types, Published, Set
<1>3. CASE Connect(l)
  BY <1>3 DEF Connect, Types, Published, Set
<1>4. CASE PublishConn(l)
  BY <1>4 DEF PublishConn, Types, Published, Set
<1>5. CASE PublishPair(l)
  BY <1>5 DEF PublishPair, Types, Published, Set
<1>6. CASE ServeEnds(l)
  BY <1>6 DEF ServeEnds, Types, Published, Set, Cleared
<1>7. CASE Withdraw(l)
  BY <1>7 DEF Withdraw, Types, Published, Set, Cleared
<1>8. CASE Report(l)
  BY <1>8 DEF Report, shown, Types, Published, Set
<1>9. CASE WaitEnds(l)
  BY <1>9 DEF WaitEnds, shown, Types, Published, Set
<1> QED BY <1>1, <1>2, <1>3, <1>4, <1>5, <1>6, <1>7, <1>8, <1>9 DEF DialLoop

\* A loop whose write fails clears cur only of the connection it held, which is gone.
LEMMA WritePublished ==
  ASSUME Types, Published, NEW l \in Lanes, Write(l)
  PROVE  Published'
<1>1. UNCHANGED <<pc, target, made, open, curConn, livePair>>
  BY DEF Write, dialling
<1>2. \A k \in Lanes : (cur[k] = made[k] /\ open[k]) => cur'[k] = cur[k]
  BY DEF Write, Gone, Cleared, Set, Types
<1> QED BY <1>1, <1>2 DEF Published, Types

\* Nobody but the dial loop and the writing loops touches what is published; connections
\* only close.
LEMMA OtherPublished ==
  ASSUME Types, Published,
         UNCHANGED <<pc, target, made, cur, curConn, livePair>>,
         \A l \in Lanes : open'[l] => open[l]
  PROVE  Published'
BY DEF Published

\* Every step keeps what is served in agreement with what is published.
LEMMA StepPublished == Types /\ Published /\ [Next]_vars => Published'
<1> SUFFICES ASSUME Types, Published, [Next]_vars PROVE Published'
  OBVIOUS
<1>1. ASSUME NEW l \in Lanes, Load(l) \/ Follow(l) \/ Break(l) PROVE Published'
  BY <1>1, OtherPublished DEF Load, Follow, Break, dialling, shown, Types, Set
<1>2. ASSUME NEW l \in Lanes, Dropping(l) PROVE Published'
  <2>1. UNCHANGED <<pc, target, made, cur, curConn, livePair>>
    BY <1>2 DEF Dropping, DropLoad, DropStore, DropClose, dialling, shown
  <2>2. \A k \in Lanes : open'[k] => open[k]
    BY <1>2 DEF Dropping, DropLoad, DropStore, DropClose, Types, Set
  <2> QED BY <2>1, <2>2, OtherPublished
<1>3. CASE Walk \/ Select \/ Roll
  BY <1>3, OtherPublished DEF Walk, Select, Roll, dialling, shown
<1>4. CASE Close
  BY <1>4, OtherPublished DEF Close, dialling, shown
<1>5. CASE UNCHANGED vars
  BY <1>5, OtherPublished DEF vars, dialling, shown
<1> QED BY <1>1, <1>2, <1>3, <1>4, <1>5, DialLoopPublished, WritePublished DEF Next

----------------------------------------------------------------------------
(* The reasons that mislead.                                               *)

LEMMA MisleadingFinite == IsFiniteSet(Misleading) /\ Cardinality(Misleading) \in Nat
BY LanesAssumption, FS_Subset, FS_CardinalityType DEF Misleading

\* A lane that leaves the set makes room for one silent report.
LEMMA OneLess ==
  ASSUME Counted, NEW l \in Lanes, Misleading' = Misleading \ {l},
         dropWhy' \in [Lanes -> BOOLEAN], byUs' \in [Lanes -> BOOLEAN],
         late' \in Nat, late' >= late,
         silent' = IF l \in Misleading THEN silent + 1 ELSE silent
  PROVE  Counted'
BY MisleadingFinite, FS_RemoveElement DEF Counted

\* Nothing else is counted as silent, and a lane enters the set only with a late reason.
LEMMA NoMore ==
  ASSUME Counted, Misleading' \subseteq Misleading,
         dropWhy' \in [Lanes -> BOOLEAN], byUs' \in [Lanes -> BOOLEAN],
         late' \in Nat, late' >= late, silent' = silent
  PROVE  Counted'
BY MisleadingFinite, FS_Subset, FS_CardinalityType DEF Counted

\* The step that stores a reason: for a connection already gone it is counted as late.
LEMMA StoreCounted ==
  ASSUME Types, Counted, NEW l \in Lanes, DropStore(l)
  PROVE  Counted'
<1> DEFINE m == Head(drop[l].todo)
           gone == Gone(m, drop[l].conn)
<1>1. m \in Lanes
  BY DropTypes DEF DropStore, Types
<1>2. /\ dropWhy' = Set(dropWhy, m, TRUE)
      /\ byUs' = IF gone THEN byUs ELSE Set(byUs, m, TRUE)
      /\ late' = IF gone THEN late + 1 ELSE late
      /\ silent' = silent
  BY DEF DropStore
<1> HIDE DEF m, gone
<1>3. dropWhy' \in [Lanes -> BOOLEAN] /\ byUs' \in [Lanes -> BOOLEAN]
  BY <1>1, <1>2 DEF Counted, Set
<1>4. CASE ~gone
  <2>1. Misleading' \subseteq Misleading
    BY <1>1, <1>2, <1>4 DEF Counted, Misleading, Set
  <2>2. late' \in Nat /\ late' >= late
    BY <1>2, <1>4 DEF Counted
  <2> QED BY <1>2, <1>3, <2>1, <2>2, NoMore
<1>5. CASE gone
  <2>1. Misleading' \subseteq Misleading \union {m}
    BY <1>1, <1>2, <1>5 DEF Counted, Misleading, Set
  <2> DEFINE more == Misleading \union {m}
  <2>2. IsFiniteSet(more) /\ (Cardinality(more) = Cardinality(Misleading)
                                \/ Cardinality(more) = Cardinality(Misleading) + 1)
    BY MisleadingFinite, FS_AddElement
  <2> HIDE DEF more
  <2>3. IsFiniteSet(Misleading') /\ Cardinality(Misleading') <= Cardinality(more)
    BY <2>1, <2>2, FS_Subset DEF more
  <2>4. Cardinality(Misleading') \in Nat
    BY <2>3, FS_CardinalityType
  <2>5. silent \in Nat /\ late \in Nat /\ silent + Cardinality(Misleading) <= late
    BY DEF Counted
  <2>6. silent' = silent /\ late' = late + 1
    BY <1>2, <1>5
  <2>7. silent' + Cardinality(Misleading') <= late'
    BY <2>2, <2>3, <2>4, <2>5, <2>6, MisleadingFinite
  <2> QED BY <1>3, <2>5, <2>6, <2>7 DEF Counted
<1> QED BY <1>4, <1>5

\* Every step keeps the count of silent deaths within the late reasons.
LEMMA StepCounted == Types /\ Counted /\ [Next]_vars => Counted'
<1> SUFFICES ASSUME Types, Counted, [Next]_vars PROVE Counted'
  OBVIOUS
<1>1. ASSUME UNCHANGED <<dropWhy, byUs, silent, late>> PROVE Counted'
  BY <1>1 DEF Counted, Misleading
<1>2. ASSUME NEW l \in Lanes, Connect(l) PROVE Counted'
  <2>1. Misleading' \subseteq Misleading
    BY <1>2 DEF Connect, Misleading, Counted, Set
  <2> QED BY <1>2, <2>1, NoMore DEF Connect, Counted, Set
<1>3. ASSUME NEW l \in Lanes, Report(l) PROVE Counted'
  <2>1. CASE closed
    BY <1>3, <2>1, <1>1 DEF Report
  <2>2. CASE ~closed
    <3>1. dropWhy' = Set(dropWhy, l, FALSE) /\ UNCHANGED <<byUs, late>>
      BY <1>3, <2>2 DEF Report
    <3>2. Misleading' = Misleading \ {l}
      BY <3>1 DEF Misleading, Counted, Set
    <3>3. silent' = IF l \in Misleading THEN silent + 1 ELSE silent
      BY <1>3, <2>2 DEF Report, Misleading
    <3>4. dropWhy' \in [Lanes -> BOOLEAN]
      BY <3>1 DEF Counted, Set
    <3>5. byUs' \in [Lanes -> BOOLEAN] /\ late' \in Nat /\ late' >= late
      BY <3>1 DEF Counted
    <3> QED BY <3>2, <3>3, <3>4, <3>5, OneLess
  <2> QED BY <2>1, <2>2
<1>4. ASSUME NEW l \in Lanes, DialLoop(l), ~Connect(l), ~Report(l) PROVE Counted'
  BY <1>4, <1>1 DEF DialLoop, Dial, DialFails, PublishConn, PublishPair, ServeEnds, Withdraw,
     WaitEnds, history
<1>5. ASSUME NEW l \in Lanes, DropLoad(l) \/ DropClose(l) PROVE Counted'
  BY <1>5, <1>1 DEF DropLoad, DropClose, history
<1>6. ASSUME NEW l \in Lanes, Load(l) \/ Write(l) \/ Follow(l) \/ Break(l) PROVE Counted'
  BY <1>6, <1>1 DEF Load, Write, Follow, Break, history
<1>7. CASE Walk \/ Select \/ Roll \/ Close
  BY <1>7, <1>1 DEF Walk, Select, Roll, Close, history
<1>8. CASE UNCHANGED vars
  BY <1>8, <1>1 DEF vars, history
<1> QED BY <1>2, <1>3, <1>4, <1>5, <1>6, <1>7, <1>8, StoreCounted DEF Next, Dropping

----------------------------------------------------------------------------
(* The theorems.                                                           *)

LEMMA InvariantIInv == Spec => []IInv
<1>1. IInv /\ [Next]_vars => IInv'
  BY StepTypes, StepPublished, StepCounted DEF IInv
<1> QED BY <1>1, InitIInv, PTL DEF Spec

\* For any number of lanes, addresses, moves and breaks: while the dial loop of a lane serves
\* an open connection, cur, curConn and livePairNow are that connection and the address it
\* was dialled at, whatever the pool did meanwhile and whichever loop tears down late.
THEOREM ServedConnectionIsKnown == Spec => []ServedIsKnown
<1>1. IInv => ServedIsKnown
  BY AddrsAssumption DEF IInv, Types, Published, ServedIsKnown, livePairNow
<1> QED BY <1>1, InvariantIInv, PTL

\* Without any bound on drops and breaks: every outage that dialLoop keeps silent about is
\* paid for by a dropCarrier that stored its reason after its connection had ended.
THEOREM SilentDeathsAreBounded == Spec => []SilentDeathsBounded
<1>1. IInv => SilentDeathsBounded
  BY MisleadingFinite DEF IInv, Counted, SilentDeathsBounded
<1> QED BY <1>1, InvariantIInv, PTL
=============================================================================
