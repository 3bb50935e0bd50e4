------------------------------ MODULE TcpClient ------------------------------
(***************************************************************************)
(* The client side of the stream carrier (internal/packet/tcp.go) and its  *)
(* lanes (internal/packet/lanes.go).                                       *)
(*                                                                         *)
(* Every lane has a dial loop, which dials where the lane's pool points,   *)
(* publishes the connection field by field, serves it until it closes and  *)
(* takes the fields back; and loops that write to whatever cur is and tear  *)
(* down what they held when the write fails.  The command loop moves lane  *)
(* 0's pool and then drops the carrier; the other lanes look for that and  *)
(* do the same with theirs.  Dropping a carrier is three steps: load it,   *)
(* store why, close it; what was loaded may be long gone at the end.       *)
(*                                                                         *)
(* A connection is a number within its lane.  An earlier one than the      *)
(* lane's latest is closed.  A dial includes the handshake.  How long a    *)
(* lane waits before it dials again is not modelled, and so neither are    *)
(* the wakes that cut the wait short.                                      *)
(***************************************************************************)
EXTENDS Integers, Sequences, FiniteSets, SequencesExt

CONSTANTS Lanes,       \* 0 is the lead
          Addrs,       \* the addresses of the pool
          None,        \* no address
          MaxMoves,    \* bound on moves of the lead's pool and on port rolls
          MaxDeaths    \* bound on connections the network breaks

ASSUME LanesAssumption == Lanes \subseteq Nat /\ 0 \in Lanes /\ IsFiniteSet(Lanes)
ASSUME AddrsAssumption == None \notin Addrs /\ Addrs # {}
ASSUME BoundsAssumption == {MaxMoves, MaxDeaths} \subseteq Nat

VARIABLES works,       \* the addresses that answer
          pc,          \* the dial loop
          target,      \* the address it dials or serves
          made,        \* the number of the lane's latest connection
          open,        \* the latest connection is open
          cursor,      \* the pool's current address
          cur, curConn,        \* the published connection, 0 for nil
          livePair, tryPair, attempted,
          dropWhy,     \* dropWhy is not dropNone
          held,        \* the connection a writing loop has loaded, 0 for none
          drop,        \* the dropCarrier calls under way, by the lane whose loop makes them
          closed,
          moves, deaths,
          byUs,        \* history: the latest connection was being dropped when it closed
          silent,      \* history: broken connections that were taken for dropped ones
          late         \* history: reasons stored for a connection that had closed

dialling == <<pc, target, made>>
shown == <<cur, curConn, livePair, tryPair, attempted>>
bounds == <<moves, deaths>>
history == <<byUs, silent, late>>
vars == <<works, dialling, open, cursor, shown, dropWhy, held, drop, closed, bounds, history>>

Idle == [at |-> "idle", todo |-> <<>>, conn |-> 0]
Each(v) == [l \in Lanes |-> v]

Init ==
  /\ works \in SUBSET Addrs \ {{}}
  /\ pc = Each("top") /\ made = Each(0) /\ open = Each(FALSE)
  /\ target = Each(None) /\ cursor = Each(CHOOSE a \in Addrs : TRUE)
  /\ cur = Each(0) /\ curConn = Each(0)
  /\ livePair = Each(None) /\ tryPair = Each(None) /\ attempted = Each(FALSE)
  /\ dropWhy = Each(FALSE) /\ held = Each(0) /\ drop = Each(Idle)
  /\ closed = FALSE /\ moves = 0 /\ deaths = 0
  /\ byUs = Each(FALSE) /\ silent = 0 /\ late = 0

Set(f, l, v) == [f EXCEPT ![l] = v]

\* CompareAndSwap(c, nil)
Cleared(f, l, c) == IF f[l] = c THEN Set(f, l, 0) ELSE f

\* The address livePairNow names.
livePairNow(l) ==
  IF livePair[l] # None /\ cur[l] # 0 THEN livePair[l]
  ELSE IF tryPair[l] # None THEN tryPair[l] ELSE cursor[l]

----------------------------------------------------------------------------
(* dialLoop.                                                               *)

\* noteAttempt: the first address tried since the last answer is the one accused.
NoteAttempt(l, a) ==
  /\ attempted' = Set(attempted, l, TRUE)
  /\ tryPair' = IF attempted[l] THEN tryPair ELSE Set(tryPair, l, a)

\* dialTarget: where the pool points.
DialTarget(l) == cursor[l]

\* The top of the loop: leave when closed, or note the attempt and dial.
Dial(l) ==
  /\ pc[l] = "top"
  /\ IF closed
     THEN pc' = Set(pc, l, "left") /\ UNCHANGED <<target, tryPair, attempted>>
     ELSE /\ pc' = Set(pc, l, "dialling")
          /\ target' = Set(target, l, DialTarget(l))
          /\ NoteAttempt(l, DialTarget(l))
  /\ UNCHANGED <<works, made, open, cursor, cur, curConn, livePair, dropWhy, held, drop, closed, bounds, history>>

\* A dial may fail, whatever the address.
DialFails(l) ==
  /\ pc[l] = "dialling"
  /\ pc' = Set(pc, l, "waiting")
  /\ UNCHANGED <<works, target, made, open, cursor, shown, dropWhy, held, drop, closed, bounds, history>>

\* handshakeAndPrime: the handshake, and the ping that names the lane, at an address
\* that answers.
Primes(l) == target[l] \in works

\* The dial and the handshake succeed, and dropWhy and cur are stored: what other loops
\* could do between these, they could do before.
Connect(l) ==
  /\ pc[l] = "dialling" /\ Primes(l)
  /\ pc' = Set(pc, l, "current")
  /\ made' = Set(made, l, made[l] + 1) /\ open' = Set(open, l, TRUE)
  /\ dropWhy' = Set(dropWhy, l, FALSE)
  /\ cur' = Set(cur, l, made'[l])
  /\ byUs' = Set(byUs, l, FALSE)
  /\ UNCHANGED <<works, target, cursor, curConn, livePair, tryPair, attempted, held, drop, closed, bounds, silent, late>>

PublishConn(l) ==
  /\ pc[l] = "current"
  /\ pc' = Set(pc, l, "droppable")
  /\ curConn' = Set(curConn, l, made[l])
  /\ UNCHANGED <<works, target, made, open, cursor, cur, livePair, tryPair, attempted, dropWhy, held, drop, closed, bounds, history>>

\* Mutant of PublishPair: the pair is what the pool points to by now.
PublishPairOfPool(l) ==
  /\ pc[l] = "droppable"
  /\ pc' = Set(pc, l, "serving")
  /\ livePair' = Set(livePair, l, cursor[l])
  /\ UNCHANGED <<works, target, made, open, cursor, cur, curConn, tryPair, attempted, dropWhy, held, drop, closed, bounds, history>>

\* livePair is the address that was dialled.
PublishPair(l) ==
  /\ pc[l] = "droppable"
  /\ pc' = Set(pc, l, "serving")
  /\ livePair' = Set(livePair, l, target[l])
  /\ UNCHANGED <<works, target, made, open, cursor, cur, curConn, tryPair, attempted, dropWhy, held, drop, closed, bounds, history>>

\* serve returns when the connection is closed or breaks: onConnErr.
ServeEnds(l) ==
  /\ pc[l] = "serving" /\ ~open[l]
  /\ pc' = Set(pc, l, "served")
  /\ cur' = Cleared(cur, l, made[l])
  /\ UNCHANGED <<works, target, made, open, cursor, curConn, livePair, tryPair, attempted, dropWhy, held, drop, closed, bounds, history>>

Withdraw(l) ==
  /\ pc[l] = "served"
  /\ pc' = Set(pc, l, "withdrawn")
  /\ curConn' = Cleared(curConn, l, made[l])
  /\ tryPair' = Set(tryPair, l, livePair[l]) /\ livePair' = Set(livePair, l, None)
  /\ attempted' = Set(attempted, l, FALSE)
  /\ cur' = Cleared(cur, l, made[l])
  /\ UNCHANGED <<works, target, made, open, cursor, dropWhy, held, drop, closed, bounds, history>>

\* The end is told as an outage, and followed by a wait, unless the carrier was dropped.
Report(l) ==
  /\ pc[l] = "withdrawn"
  /\ dropWhy' = IF closed THEN dropWhy ELSE Set(dropWhy, l, FALSE)
  /\ LET deliberate == ~closed /\ dropWhy[l]
     IN /\ pc' = Set(pc, l, IF deliberate THEN "top" ELSE "waiting")
        /\ silent' = IF deliberate /\ ~byUs[l] THEN silent + 1 ELSE silent
  /\ UNCHANGED <<works, target, made, open, cursor, shown, held, drop, closed, bounds, byUs, late>>

\* waitToRedial: closed, woken, or the end of the backoff.
WaitEnds(l) ==
  /\ pc[l] = "waiting"
  /\ \/ closed /\ pc' = Set(pc, l, "left")
     \/ pc' = Set(pc, l, "top")
  /\ UNCHANGED <<works, target, made, open, cursor, shown, dropWhy, held, drop, closed, bounds, history>>

----------------------------------------------------------------------------
(* tunLoop and keepaliveLoop.                                              *)

\* A loop loads cur; the bound: of all loops, one at a time is about to write.
Load(l) ==
  /\ ~closed /\ held = Each(0) /\ cur[l] # 0
  /\ held' = Set(held, l, cur[l])
  /\ UNCHANGED <<works, dialling, open, cursor, shown, dropWhy, drop, closed, bounds, history>>

Gone(l, c) == c # made[l] \/ ~open[l]

\* Mutant of Write: the late error clears cur, whatever it is now.
WriteClears(l) ==
  /\ held[l] # 0
  /\ held' = Set(held, l, 0)
  /\ cur' = IF Gone(l, held[l]) THEN Set(cur, l, 0) ELSE cur
  /\ UNCHANGED <<works, dialling, open, cursor, curConn, livePair, tryPair, attempted, dropWhy, drop, closed, bounds, history>>

\* The write, and onConnErr if it fails.
Write(l) ==
  /\ held[l] # 0
  /\ held' = Set(held, l, 0)
  /\ cur' = IF Gone(l, held[l]) THEN Cleared(cur, l, held[l]) ELSE cur
  /\ UNCHANGED <<works, dialling, open, cursor, curConn, livePair, tryPair, attempted, dropWhy, drop, closed, bounds, history>>

----------------------------------------------------------------------------
(* Moving and dropping.                                                    *)

Begin(l, todo) == drop' = Set(drop, l, [at |-> "load", todo |-> todo, conn |-> 0])

Budget == ~closed /\ drop[0] = Idle /\ moves < MaxMoves /\ moves' = moves + 1   \* the bound

\* rotateDestTCP, on the timer from where the pool is, or by a verdict from what livePairNow
\* names, to which judge first takes the pool back.
Walk ==
  /\ Budget
  /\ \E from \in {cursor[0], livePairNow(0)} : \E a \in Addrs \ {from} : cursor' = Set(cursor, 0, a)
  /\ attempted' = Set(attempted, 0, FALSE)
  /\ Begin(0, <<0>>)
  /\ UNCHANGED <<works, dialling, open, cur, curConn, livePair, tryPair, dropWhy, held, closed, deaths, history>>

\* The operator's choice (poll and selectedTCP).
Select ==
  /\ Budget
  /\ \E a \in Addrs \ {cursor[0]} : cursor' = Set(cursor, 0, a)
  /\ Begin(0, <<0>>)
  /\ UNCHANGED <<works, dialling, open, shown, dropWhy, held, closed, deaths, history>>

\* rollSourcePort: the lead's carrier and then the others'.
Roll ==
  /\ Budget
  /\ Begin(0, <<0>> \o SetToSeq(Lanes \ {0}))
  /\ UNCHANGED <<works, dialling, open, cursor, shown, dropWhy, held, closed, deaths, history>>

\* followLoop: the lane's pool goes where the lead's is, and the carrier is dropped.
Follow(l) ==
  /\ l # 0 /\ ~closed /\ drop[l] = Idle
  /\ cursor[l] # cursor[0]
  /\ cursor' = Set(cursor, l, cursor[0])
  /\ Begin(l, <<l>>)
  /\ UNCHANGED <<works, dialling, open, shown, dropWhy, held, closed, bounds, history>>

\* The next lane, or the end.
Done(l) ==
  LET rest == Tail(drop[l].todo)
  IN drop' = Set(drop, l, IF rest = <<>> THEN Idle ELSE [at |-> "load", todo |-> rest, conn |-> 0])

\* Mutant of DropLoad: the reason is stored whether there is a carrier or not.
DropLoadStores(l) ==
  /\ drop[l].at = "load"
  /\ LET m == Head(drop[l].todo)
     IN IF curConn[m] = 0 THEN dropWhy' = Set(dropWhy, m, TRUE) /\ Done(l)
        ELSE drop' = Set(drop, l, [drop[l] EXCEPT !.at = "store", !.conn = curConn[m]]) /\ UNCHANGED dropWhy
  /\ UNCHANGED <<works, dialling, open, cursor, shown, held, closed, bounds, history>>

\* dropCarrier: nothing to drop ...
DropLoad(l) ==
  /\ drop[l].at = "load"
  /\ LET m == Head(drop[l].todo)
     IN IF curConn[m] = 0 THEN Done(l)
        ELSE drop' = Set(drop, l, [drop[l] EXCEPT !.at = "store", !.conn = curConn[m]])
  /\ UNCHANGED <<works, dialling, open, cursor, shown, dropWhy, held, closed, bounds, history>>

\* ... or the reason ...
DropStore(l) ==
  /\ drop[l].at = "store"
  /\ LET m == Head(drop[l].todo)
         gone == Gone(m, drop[l].conn)
     IN /\ dropWhy' = Set(dropWhy, m, TRUE)
        /\ byUs' = IF gone THEN byUs ELSE Set(byUs, m, TRUE)
        /\ late' = IF gone THEN late + 1 ELSE late
  /\ drop' = Set(drop, l, [drop[l] EXCEPT !.at = "close"])
  /\ UNCHANGED <<works, dialling, open, cursor, shown, held, closed, bounds, silent>>

\* ... and the end of what was loaded.
DropClose(l) ==
  /\ drop[l].at = "close"
  /\ LET m == Head(drop[l].todo)
     IN open' = IF drop[l].conn = made[m] THEN Set(open, m, FALSE) ELSE open
  /\ Done(l)
  /\ UNCHANGED <<works, dialling, cursor, shown, dropWhy, held, closed, bounds, history>>

\* The network or the server ends a connection; a closed client pings no more, and the
\* server drops it.
Break(l) ==
  /\ open[l]
  /\ closed \/ (deaths < MaxDeaths)         \* the bound
  /\ open' = Set(open, l, FALSE)
  /\ deaths' = IF closed THEN deaths ELSE deaths + 1
  /\ UNCHANGED <<works, dialling, cursor, shown, dropWhy, held, drop, closed, moves, history>>

\* Close closes what cur is.
Close ==
  /\ ~closed
  /\ closed' = TRUE
  /\ open' = [l \in Lanes |-> open[l] /\ cur[l] = 0]
  /\ UNCHANGED <<works, dialling, cursor, shown, dropWhy, held, drop, bounds, history>>

----------------------------------------------------------------------------
DialLoop(l) == \/ Dial(l) \/ DialFails(l) \/ Connect(l)
               \/ PublishConn(l) \/ PublishPair(l)
               \/ ServeEnds(l) \/ Withdraw(l) \/ Report(l) \/ WaitEnds(l)

Dropping(l) == DropLoad(l) \/ DropStore(l) \/ DropClose(l)

Next == \/ \E l \in Lanes : DialLoop(l) \/ Dropping(l) \/ Load(l) \/ Write(l) \/ Follow(l) \/ Break(l)
        \/ Walk \/ Select \/ Roll \/ Close

Spec == Init /\ [][Next]_vars

\* Goroutines go on, dials and backoffs end, a working address answers one of the dials, and
\* a connection of a closed client dies.
Fairness == \A l \in Lanes : /\ WF_vars(DialLoop(l)) /\ SF_vars(Connect(l)) /\ WF_vars(Dropping(l)) /\ WF_vars(Follow(l))
                             /\ WF_vars(closed /\ Break(l))
FairSpec == Spec /\ Fairness

----------------------------------------------------------------------------
(* Properties.                                                             *)

\* While a lane serves an open connection, the rest of the client knows of exactly this
\* one: cur and curConn are it, and livePairNow, by which verdicts are judged, names the
\* address it goes to, although the pool moved during the dial or since, and loops that
\* held an earlier connection clean up late.
ServedIsKnown ==
  \A l \in Lanes : (pc[l] = "serving" /\ open[l]) =>
    cur[l] = made[l] /\ curConn[l] = made[l] /\ livePairNow(l) = target[l]

\* A connection the network broke passes for a dropped one, without an outage told, only
\* when a dropCarrier had loaded a connection and was overtaken by its end; and once for
\* each such drop.
SilentDeathsBounded == silent <= late

\* When moves and breaks end, a lane whose pool points to a working address comes up and
\* stays up, or the client is closed and all dial loops end.
ComesUp ==
  <>[](IF closed THEN \A l \in Lanes : pc[l] = "left" /\ ~open[l]
       ELSE \A l \in Lanes : cursor[l] \in works =>
              pc[l] = "serving" /\ open[l] /\ cur[l] = made[l])
=============================================================================
