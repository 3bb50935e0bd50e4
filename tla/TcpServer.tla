------------------------------ MODULE TcpServer ------------------------------
(***************************************************************************)
(* The server side of the stream carriers (TCP, TLS cover, WebSocket, HTTP):*)
(* the connections that are accepted, authenticated, published, reaped and  *)
(* torn down, and the election of the one the server sends on.              *)
(* internal/packet/tcp.go (handleServerConn, publishServerConn, readLoop,   *)
(* onConnErr, reelectDownstream, tunLoop, keepaliveLoop) and lanes.go.      *)
(*                                                                         *)
(* Every connection has a goroutine of its own; the TUN loops, one per      *)
(* queue, and keepaliveLoop write to whichever connection is elected and    *)
(* tear it down themselves when the write fails.  cur and laneCur are       *)
(* atomic pointers that all of them set and clear by Store and by           *)
(* CompareAndSwap; authConns has its mutex, which is given up between        *)
(* choosing a connection and electing it.  An action makes one access to    *)
(* what others write; closing a connection goes with the access before it,  *)
(* since to everybody else it looks like a connection that broke.           *)
(***************************************************************************)
EXTENDS Integers, Sequences, FiniteSets, SequencesExt, FiniteSetsExt

CONSTANTS Conns,      \* the connections that may be made
          Lanes,      \* MaxLanes; also the number of TUN queues
          PreAuth,    \* maxPreAuthConns
          MaxAuth,    \* maxAuthConns
          Loops,      \* the loops that run: a tunLoop is its queue's number, keepaliveLoop Keep
          None        \* nil

Keep == Lanes
Actors == Conns \union Loops

ASSUME LanesAssumption == Lanes \in Nat \ {0}
ASSUME LimitsAssumption == {PreAuth, MaxAuth} \subseteq Nat \ {0}
ASSUME LoopsAssumption == Loops \subseteq 0 .. Keep
ASSUME ConnsAssumption == Conns \cap Loops = {} /\ None \notin Conns

VARIABLES cur, laneCur,   \* TCP.cur and TCP.laneCur
          authConns,      \* TCP.authConns
          slots,          \* how many tokens are in preAuth
          alive,          \* the connection was neither closed nor cut off
          lane,           \* connFramer.lane
          at,             \* where each goroutine is
          job,            \* the connection it tears down
          picked,         \* what reelectDownstream picked
          reaping,        \* the connections publishServerConn still has to reap
          raced           \* history: off the list when the downstream went away

vars == <<cur, laneCur, authConns, slots, alive, lane, at, job, picked, reaping, raced>>

Init ==
  /\ cur = None /\ laneCur = [l \in 1 .. Lanes - 1 |-> None]
  /\ authConns = <<>>
  /\ slots = 0
  /\ alive = [c \in Conns |-> FALSE]
  /\ lane = [c \in Conns |-> 0]
  /\ at = [a \in Actors |-> IF a \in Conns THEN "none" ELSE "idle"]
  /\ job = [a \in Actors |-> None] /\ picked = [a \in Actors |-> None]
  /\ reaping = [c \in Conns |-> <<>>]
  /\ raced = {}

Go(a, label) == at' = [at EXCEPT ![a] = label]
Closed(c) == alive' = [alive EXCEPT ![c] = FALSE]

\* The connections that will be listed and are not: new ones and those to be put back.
Unlisted == {c \in Conns : at[c] = "append"} \union {Head(reaping[c]) : c \in {d \in Conns : at[d] = "back"}}

\* cur changes; when that leaves nobody, the connections that are not listed are raced.
SetCur(c) == cur' = c /\ raced' = IF c = None /\ cur # None THEN raced \union Unlisted ELSE raced
KeepCur == UNCHANGED <<cur, raced>>

----------------------------------------------------------------------------
(* handleServerConn, up to its readLoop.                                   *)

\* A connection takes a token or is closed at once.
Accept(c) ==
  /\ at[c] = "none"
  /\ IF slots < PreAuth
     THEN Go(c, "pre") /\ slots' = slots + 1 /\ alive' = [alive EXCEPT ![c] = TRUE]
     ELSE Go(c, "gone") /\ UNCHANGED <<slots, alive>>
  /\ KeepCur /\ UNCHANGED <<laneCur, authConns, lane, job, picked, reaping>>

\* Mutant of PreFails: the token is kept.
PreFailsHolding(c) ==
  /\ at[c] = "pre"
  /\ Closed(c)
  /\ Go(c, "gone")
  /\ KeepCur /\ UNCHANGED <<laneCur, authConns, slots, lane, job, picked, reaping>>

\* The upgrade, the cover, the handshake or the first frame fails, or its deadline passes.
PreFails(c) ==
  /\ at[c] = "pre"
  /\ Closed(c)
  /\ slots' = slots - 1
  /\ Go(c, "gone")
  /\ KeepCur /\ UNCHANGED <<laneCur, authConns, lane, job, picked, reaping>>

\* publishServerConn: the first connection is the downstream ...
Publish(c) ==
  /\ at[c] = "pre"
  /\ IF cur = None THEN SetCur(c) ELSE KeepCur
  /\ Go(c, "append")
  /\ UNCHANGED <<laneCur, authConns, slots, alive, lane, job, picked, reaping>>

\* A list without the members of S, otherwise in order.
Without(l, S) ==
  LET keep[j \in 0 .. Len(l)] == IF j = 0 THEN <<>>
                                 ELSE IF l[j] \in S THEN keep[j - 1]
                                 ELSE Append(keep[j - 1], l[j])
  IN  keep[Len(l)]

\* Who has to go, so that MaxAuth are left: the oldest that are not the downstream.
Victims(l) == LET others == Without(l, {cur})
              IN  SubSeq(others, 1, Min({Len(l) - MaxAuth, Len(others)}))

\* Mutant of List: a victim stays in the list.
ListAll(c) ==
  /\ at[c] = "append"
  /\ authConns' = Append(authConns, c)
  /\ reaping' = [reaping EXCEPT ![c] = Victims(authConns')]
  /\ Go(c, "reap")
  /\ KeepCur /\ UNCHANGED <<laneCur, slots, alive, lane, job, picked>>

\* ... each one is listed, and the oldest leave the list when it is too long; ...
List(c) ==
  /\ at[c] = "append"
  /\ LET l == Append(authConns, c) IN
       /\ reaping' = [reaping EXCEPT ![c] = Victims(l)]
       /\ authConns' = Without(l, Range(Victims(l)))
  /\ Go(c, "reap")
  /\ KeepCur /\ UNCHANGED <<laneCur, slots, alive, lane, job, picked>>

\* ... after the unlock each of them is closed, unless it became the downstream ...
Reap(c) ==
  /\ at[c] = "reap" /\ reaping[c] # <<>>
  /\ IF Head(reaping[c]) = cur
     THEN Go(c, "back") /\ UNCHANGED <<alive, reaping>>
     ELSE /\ Closed(Head(reaping[c]))
          /\ reaping' = [reaping EXCEPT ![c] = Tail(@)]
          /\ UNCHANGED at
  /\ KeepCur /\ UNCHANGED <<laneCur, authConns, slots, lane, job, picked>>

\* ... in which case it is listed again.
ReapBack(c) ==
  /\ at[c] = "back"
  /\ authConns' = Append(authConns, Head(reaping[c]))
  /\ reaping' = [reaping EXCEPT ![c] = Tail(@)]
  /\ Go(c, "reap")
  /\ KeepCur /\ UNCHANGED <<laneCur, slots, alive, lane, job, picked>>

\* release, then the first frame, a ping that says which lane this is: noteLane.
First(c) ==
  /\ at[c] = "reap" /\ reaping[c] = <<>>
  /\ slots' = slots - 1
  /\ \E l \in 0 .. Lanes - 1 :
       /\ lane' = [lane EXCEPT ![c] = l]
       /\ laneCur' = IF l = 0 THEN laneCur ELSE [laneCur EXCEPT ![l] = c]
  /\ Go(c, "read")
  /\ KeepCur /\ UNCHANGED <<authConns, alive, job, picked, reaping>>

----------------------------------------------------------------------------
(* readLoop.                                                               *)

\* A data frame: downFrom makes its connection the downstream.  What is in the read
\* buffer is still read after the connection is closed.
Data(c) ==
  /\ at[c] = "read"
  /\ IF lane[c] > 0
     THEN laneCur' = [laneCur EXCEPT ![lane[c]] = c] /\ KeepCur
     ELSE SetCur(c) /\ UNCHANGED laneCur
  /\ UNCHANGED <<authConns, slots, alive, lane, at, job, picked, reaping>>

ReadFails(c) ==
  /\ at[c] = "read" /\ ~alive[c]
  /\ Go(c, "down")
  /\ job' = [job EXCEPT ![c] = c]
  /\ KeepCur /\ UNCHANGED <<laneCur, authConns, slots, alive, lane, picked, reaping>>

\* The other end goes away.
Break(c) ==
  /\ alive[c]
  /\ Closed(c)
  /\ KeepCur /\ UNCHANGED <<laneCur, authConns, slots, lane, at, job, picked, reaping>>

----------------------------------------------------------------------------
(* tunLoop and keepaliveLoop.                                              *)

\* keepaliveLoop writes to cur, like the loop of queue 0.
SendConn(q) == IF q \in 1 .. Lanes - 1 /\ laneCur[q] # None THEN laneCur[q] ELSE cur

\* Mutant of WriteFails: a failed write is only reported.
WriteFailsSilently(q) ==
  /\ at[q] = "idle" /\ SendConn(q) # None /\ ~alive[SendConn(q)]
  /\ UNCHANGED vars

\* The write to the connection that was loaded fails; one that succeeds changes nothing.
WriteFails(q) ==
  /\ at[q] = "idle"
  /\ SendConn(q) # None
  /\ ~alive[SendConn(q)]
  /\ Go(q, "down")
  /\ job' = [job EXCEPT ![q] = SendConn(q)]
  /\ KeepCur /\ UNCHANGED <<laneCur, authConns, slots, alive, lane, picked, reaping>>

----------------------------------------------------------------------------
(* onConnErr, on the goroutine of the connection or on one that wrote to it.*)

\* Close, then CompareAndSwap(cf, nil) on cur ...
TearCur(a) ==
  /\ at[a] = "down"
  /\ Closed(job[a])
  /\ IF cur = job[a] THEN SetCur(None) ELSE KeepCur
  /\ Go(a, "lane")
  /\ UNCHANGED <<laneCur, authConns, slots, lane, job, picked, reaping>>

\* Mutant of TearLane: dropLane is only made for the downstream of queue 0.
TearLaneNot(a) ==
  /\ at[a] = "lane"
  /\ Go(a, "remove")
  /\ KeepCur /\ UNCHANGED <<laneCur, authConns, slots, alive, lane, job, picked, reaping>>

\* ... dropLane ...
TearLane(a) ==
  /\ at[a] = "lane"
  /\ LET l == lane[job[a]] IN
       laneCur' = IF l > 0 /\ laneCur[l] = job[a] THEN [laneCur EXCEPT ![l] = None] ELSE laneCur
  /\ Go(a, "remove")
  /\ KeepCur /\ UNCHANGED <<authConns, slots, alive, lane, job, picked, reaping>>

\* ... removeAuthConn ...
TearList(a) ==
  /\ at[a] = "remove"
  /\ authConns' = Without(authConns, {job[a]})
  /\ Go(a, "pick")
  /\ KeepCur /\ UNCHANGED <<laneCur, slots, alive, lane, job, picked, reaping>>

\* ... reelectDownstream: the newest is picked ...
Pick(a) ==
  /\ at[a] = "pick"
  /\ picked' = [picked EXCEPT ![a] = IF authConns = <<>> THEN None ELSE Last(authConns)]
  /\ Go(a, "elect")
  /\ KeepCur /\ UNCHANGED <<laneCur, authConns, slots, alive, lane, job, reaping>>

\* Mutant of Elect: nobody is elected in place of the one that went.
ElectNobody(a) ==
  /\ at[a] = "elect"
  /\ picked' = [picked EXCEPT ![a] = None] /\ job' = [job EXCEPT ![a] = None]
  /\ Go(a, IF a \in Conns THEN "gone" ELSE "idle")
  /\ KeepCur /\ UNCHANGED <<laneCur, authConns, slots, alive, lane, reaping>>

\* ... and elected if there is still nobody, alive or not.
Elect(a) ==
  /\ at[a] = "elect"
  /\ IF cur = None /\ picked[a] # None THEN SetCur(picked[a]) ELSE KeepCur
  /\ picked' = [picked EXCEPT ![a] = None] /\ job' = [job EXCEPT ![a] = None]
  /\ Go(a, IF a \in Conns THEN "gone" ELSE "idle")
  /\ UNCHANGED <<laneCur, authConns, slots, alive, lane, reaping>>

----------------------------------------------------------------------------
TearDown(a) == TearCur(a) \/ TearLane(a) \/ TearList(a) \/ Pick(a) \/ Elect(a)
Handle(c) == PreFails(c) \/ Publish(c) \/ List(c) \/ Reap(c) \/ ReapBack(c) \/ First(c) \/ ReadFails(c)

Next == \/ \E c \in Conns : Accept(c) \/ Handle(c) \/ Data(c) \/ Break(c)
        \/ \E q \in Loops : WriteFails(q)
        \/ \E a \in Actors : TearDown(a)

Spec == Init /\ [][Next]_vars

\* Goroutines run, a handshake ends or meets its deadline, and the server keeps pinging
\* its downstream, so that a write to a dead one fails in the end.
Fairness == /\ \A c \in Conns : WF_vars(Handle(c))
            /\ \A a \in Actors : WF_vars(TearDown(a))
            /\ \A q \in Loops : WF_vars(WriteFails(q))
FairSpec == Spec /\ Fairness

----------------------------------------------------------------------------
(* Properties.                                                             *)

Once(l) == \A j, k \in DOMAIN l : l[j] = l[k] => j = k

Labels == {"none", "pre", "append", "reap", "back", "read", "gone",
           "idle", "down", "lane", "remove", "pick", "elect"}

\* The variables have their types: in particular a connection is listed at most once,
\* although reaping takes it off and may put it back after the lock was given up.
TypeOK ==
  /\ cur \in Conns \union {None}
  /\ laneCur \in [1 .. Lanes - 1 -> Conns \union {None}]
  /\ authConns \in Seq(Conns) /\ Once(authConns)
  /\ slots \in 0 .. PreAuth
  /\ alive \in [Conns -> BOOLEAN] /\ lane \in [Conns -> 0 .. Lanes - 1]
  /\ at \in [Actors -> Labels]
  /\ job \in [Actors -> Conns \union {None}] /\ picked \in [Actors -> Conns \union {None}]
  /\ \A c \in Conns : reaping[c] \in Seq(Conns)
  /\ raced \subseteq Conns

\* A lane never points at a connection that nobody will take off it: whatever the
\* loops tear down while the connection's own goroutine still handles buffered frames,
\* that goroutine's own dropLane is yet to come.
LaneNeverDangles ==
  \A l \in 1 .. Lanes - 1 :
    laneCur[l] # None => at[laneCur[l]] \in {"read", "down", "lane"}

\* Nothing is under way: every goroutine waits for something to arrive.
Quiet == /\ \A c \in Conns : at[c] \in {"none", "read", "gone"}
         /\ \A q \in Loops : at[q] = "idle"

\* When nothing is under way and a live authenticated connection is listed, the server has
\* a downstream, but for one window: the old downstream went away, and its teardown may have
\* looked for a successor, while this connection was off the list, after its own try for cur.
DownstreamElected ==
  (Quiet /\ cur = None) => \A j \in DOMAIN authConns : alive[authConns[j]] => authConns[j] \in raced

\* Connections come and go, are torn down twice at once, and are elected after they
\* died; in the end the downstream and the lanes are live connections or none.
SettlesOnLive == <>[](/\ cur # None => alive[cur]
                      /\ \A l \in 1 .. Lanes - 1 : laneCur[l] # None => alive[laneCur[l]])

\* However many connections stop half-way through the handshake, there is room for
\* another one again and again.
AdmitsAgain == []<>(slots < PreAuth)
=============================================================================
