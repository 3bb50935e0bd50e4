------------------------- MODULE SessionLayerProofs -------------------------
(***************************************************************************)
(* Proofs about SessionLayer, for either carrier and any bounds: frames are *)
(* delivered once, the server follows the client, the client's session is   *)
(* one the server holds, and a cached answer can still be used.            *)
(*                                                                         *)
(* The argument is about the order of the server's ephemerals.  The client  *)
(* installs sessions in that order: a handshake in flight is only answered  *)
(* with ephemerals drawn after it began, hence after every session that is  *)
(* installed by then.  The server stages and promotes in that order as      *)
(* well, and promotes only what the client installed.  So a session that    *)
(* the server has left behind is older than one the client has installed.  *)
(***************************************************************************)
EXTENDS SessionLayer, FiniteSetTheorems, SequenceTheorems, WellFoundedInduction, TLAPS

----------------------------------------------------------------------------
(* Numbers and sets.                                                       *)

\* The least-number principle, for sets.
LEMMA LeastNatural ==
  ASSUME NEW T, T \subseteq Nat, T # {}
  PROVE  \E x \in T : \A y \in T : x <= y
<1> DEFINE R == OpToRel(<, Nat)
<1>1. IsWellFoundedOn(R, Nat)
  BY NatLessThanWellFounded, Zenon
<1>2. \A x, y \in Nat : x < y => <<x, y>> \in R
  BY DEF OpToRel
<1> HIDE DEF R
<1>3. PICK x \in T : \A y \in T : ~(<<y, x>> \in R)
  BY <1>1, WFMin
<1>4. \A y \in T : x <= y
  <2> SUFFICES ASSUME NEW y \in T, ~(x <= y) PROVE FALSE
    OBVIOUS
  <2>1. x \in Nat /\ y \in Nat
    OBVIOUS
  <2>2. y < x
    BY <2>1
  <2>3. <<y, x>> \in R
    BY <1>2, <2>1, <2>2, Zenon
  <2> QED BY <1>3, <2>3
<1> QED BY <1>4

----------------------------------------------------------------------------
Sessions == SessionIds \union {NoSession}
Inits == [t : {"init"}, i : Ephemerals]
Resps == [t : {"resp"}, i : Ephemerals, r : Answers]
Frames == [t : {Up, Down}, s : SessionIds, n : 1 .. MaxSeq]
Labels == {"idle", "ask", "heard", "init", "store", "ping", "frame", "tuple", "drop", "land",
           "settle", "install", "wipe"}

Types ==
  /\ session \in Sessions /\ got \in Sessions /\ sSession \in Sessions
  /\ ci \in 0 .. MaxInit /\ eph \in [{"loop", "cmd"} -> 0 .. MaxInit]
  /\ nextI \in 1 .. MaxInit + 1 /\ nextR \in 1 .. MaxResp + 1
  /\ pc \in [{"loop", "net", "cmd", "tun"} -> Labels]
  /\ staged \in Seq(SessionIds) /\ cHist \in Seq(SessionIds) /\ sHist \in Seq(SessionIds)
  /\ cache \in [1 .. CacheSize -> Sessions] /\ cacheNext \in 1 .. CacheSize
  /\ net \subseteq Inits \union Resps \union Frames
  /\ sent \in [{Up, Down} -> [SessionIds -> 0 .. MaxSeq]]
  /\ taken \in [{Up, Down} -> [SessionIds \X (1 .. MaxSeq) -> Nat]]

\* An answer <<i, r>> that may reach the client: on its way, or in the cache.
Answer(s) == RespMsg(s[1], s[2]) \in net \/ \E k \in 1 .. CacheSize : cache[k] = s

\* An ephemeral that was not drawn, or was drawn and not stored, was never sent.
Unsent(i) == /\ ci # i /\ InitMsg(i) \notin net
             /\ \A s \in SessionIds : Answer(s) => s[1] # i
Fresh ==
  /\ \A g \in {"loop", "cmd"} : eph[g] < nextI /\ (pc[g] = "store" => eph[g] # Nil)
  /\ eph["loop"] # Nil => eph["loop"] # eph["cmd"]
  /\ \A i \in Ephemerals : (i >= nextI \/ \E g \in {"loop", "cmd"} : eph[g] = i) => Unsent(i)

\* s is newer than every session the client installed.
Newest(s) == \A k \in DOMAIN cHist : cHist[k][2] < s[2]

Installed(s) == \E k \in DOMAIN cHist : cHist[k] = s

\* The client installs in the order in which the server drew: whatever may come for the
\* handshake in flight is newer than what is installed.
ClientOrder ==
  /\ \A j, k \in DOMAIN cHist : j < k => cHist[j][2] < cHist[k][2]
  /\ \A k \in DOMAIN cHist : cHist[k][2] < nextR
  /\ session # NoSession => cHist # <<>> /\ session = cHist[Len(cHist)]
  /\ pc["net"] = "install" => got \in SessionIds /\ got[2] < nextR /\ Newest(got)
  /\ \A s \in SessionIds : Answer(s) => s[2] < nextR
  /\ (ci # Nil /\ pc["net"] # "wipe") =>
       \A s \in SessionIds : (Answer(s) /\ s[1] = ci) => Newest(s)

\* So does the server; what it promoted, the client had installed and sealed under.
ServerOrder ==
  /\ \A j, k \in DOMAIN staged : j < k => staged[j][2] < staged[k][2]
  /\ \A k \in DOMAIN staged : staged[k][2] + Len(staged) - k < nextR
  /\ \A j, k \in DOMAIN sHist : j < k => sHist[j][2] < sHist[k][2]
  /\ \A j \in DOMAIN sHist, k \in DOMAIN staged : sHist[j][2] < staged[k][2]
  /\ \A k \in DOMAIN sHist : Installed(sHist[k])
  /\ sSession # NoSession => \E k \in DOMAIN sHist : sHist[k] = sSession
  /\ \A m \in net : m.t = Up => Installed(m.s)

\* The server has a session it answered with, or a restart or the limit took it, or it has
\* moved past it.
Kept(s) == \/ s[2] \in gone
           \/ s = sSession
           \/ \E k \in DOMAIN staged : staged[k] = s
           \/ s[2] < sSession[2]
Known ==
  /\ \A s \in SessionIds : (Answer(s) \/ Installed(s)) => Kept(s)
  /\ pc["net"] = "install" => Kept(got)

\* How many puts ago the slot k was written.
Age(k) == IF k < cacheNext THEN cacheNext - k ELSE cacheNext - k + CacheSize

\* The cache forgets an answer before the staged set can drop its session.
Ring ==
  /\ gone \subseteq 1 .. nextR - 1
  /\ \A k \in 1 .. CacheSize :
       cache[k] # NoSession => cache[k][2] = nextR - Age(k) /\ cache[k][2] \notin gone

\* What the guards know is what was delivered.
TakenUp ==
  \A s \in SessionIds, n \in 1 .. MaxSeq :
    /\ taken[Up][<<s, n>>] <= 1
    /\ s = sSession => (taken[Up][<<s, n>>] = 1 <=> n \in sRp)
    /\ (s[2] >= nextR \/ \E k \in DOMAIN staged : staged[k] = s) => taken[Up][<<s, n>>] = 0
TakenDown ==
  \A s \in SessionIds, n \in 1 .. MaxSeq :
    /\ taken[Down][<<s, n>>] <= 1
    /\ s = session => (taken[Down][<<s, n>>] = 1 <=> n \in rp)
    /\ ~Installed(s) => taken[Down][<<s, n>>] = 0

IInv == /\ Types /\ Fresh /\ ClientOrder /\ ServerOrder /\ Known /\ Ring /\ TakenUp /\ TakenDown

----------------------------------------------------------------------------
(* Messages, sessions and the initial state.                               *)

\* A message is of one kind, and its kind says which fields it has.
LEMMA MessageKinds ==
  ASSUME Types, NEW m \in net
  PROVE  /\ m.t = "init" => m \in Inits /\ m = InitMsg(m.i) /\ m.i \in Ephemerals
         /\ m.t = "resp" => /\ m \in Resps /\ m = RespMsg(m.i, m.r)
                            /\ m.i \in Ephemerals /\ m.r \in Answers
         /\ m.t \in {Up, Down} => m \in Frames /\ m.s \in SessionIds /\ m.n \in 1 .. MaxSeq
BY DEF Types, Inits, Resps, Frames, InitMsg, RespMsg, Up, Down

\* The messages that are sent are messages.
LEMMA MessageTypes ==
  /\ \A i \in Ephemerals : InitMsg(i) \in Inits
  /\ \A i \in Ephemerals, r \in Answers : RespMsg(i, r) \in Resps
  /\ \A s \in SessionIds, n \in 1 .. MaxSeq : Frame(Up, s, n) \in Frames /\ Frame(Down, s, n) \in Frames
BY DEF Inits, Resps, Frames, InitMsg, RespMsg, Frame

\* Nil is no session, and a session has two ephemerals.
LEMMA SessionTypes ==
  /\ NoSession \notin SessionIds
  /\ \A s \in SessionIds : s[1] \in Ephemerals /\ s[2] \in Answers /\ s = <<s[1], s[2]>>
  /\ \A i \in Ephemerals, r \in Answers : <<i, r>> \in SessionIds /\ <<i, r>>[1] = i /\ <<i, r>>[2] = r
  /\ NoSession[1] = 0 /\ NoSession[2] = 0
BY DEF SessionIds, NoSession, Ephemerals, Answers

\* The bounds are numbers.
LEMMA BoundTypes ==
  /\ MaxInit \in Nat /\ MaxResp \in Nat /\ MaxSeq \in Nat /\ MaxStaged \in Nat /\ CacheSize \in Nat
  /\ MaxInit >= 1 /\ MaxResp >= 1 /\ MaxSeq >= 1 /\ MaxStaged >= 1 /\ CacheSize >= 1
BY BoundsAssumption

\* Two new processes satisfy the invariant.
LEMMA InitInvariant == Init => IInv
<1> SUFFICES ASSUME Init PROVE IInv
  OBVIOUS
<1> USE DEF Init
<1>1. Types
  <2>1. session \in Sessions /\ got \in Sessions /\ sSession \in Sessions
    BY DEF Sessions
  <2>2. ci \in 0 .. MaxInit /\ eph \in [{"loop", "cmd"} -> 0 .. MaxInit]
    BY BoundTypes DEF Nil
  <2>3. nextI \in 1 .. MaxInit + 1 /\ nextR \in 1 .. MaxResp + 1 /\ cacheNext \in 1 .. CacheSize
    BY BoundTypes
  <2>4. pc \in [{"loop", "net", "cmd", "tun"} -> Labels]
    BY DEF Labels
  <2>5. staged \in Seq(SessionIds) /\ cHist \in Seq(SessionIds) /\ sHist \in Seq(SessionIds)
    OBVIOUS
  <2>6. cache \in [1 .. CacheSize -> Sessions]
    BY DEF Sessions
  <2>7. sent \in [{Up, Down} -> [SessionIds -> 0 .. MaxSeq]]
    BY BoundTypes
  <2>8. taken \in [{Up, Down} -> [SessionIds \X (1 .. MaxSeq) -> Nat]]
    OBVIOUS
  <2> QED BY <2>1, <2>2, <2>3, <2>4, <2>5, <2>6, <2>7, <2>8 DEF Types
<1>2. \A s \in SessionIds : ~Answer(s)
  BY SessionTypes DEF Answer
<1>3. Fresh
  BY <1>2 DEF Fresh, Unsent, Nil, Ephemerals
<1>4. ClientOrder /\ ServerOrder
  BY <1>2 DEF ClientOrder, ServerOrder, Nil
<1>5. Known /\ Ring
  BY <1>2 DEF Known, Ring, Installed
<1>6. TakenUp /\ TakenDown
  BY SessionTypes DEF TakenUp, TakenDown
<1> QED BY <1>1, <1>3, <1>4, <1>5, <1>6 DEF IInv

----------------------------------------------------------------------------
(* Steps that draw, install, stage, promote and deliver nothing.           *)

\* They send again what was sent, and frames of an installed session.
Quiet ==
  /\ Types'
  /\ UNCHANGED <<eph, nextI, rp, cHist, sSession, sRp, staged, cache, cacheNext, nextR, sHist,
                 gone, taken>>
  /\ ci' \in {ci, Nil} /\ session' \in {session, NoSession}
  /\ \A g \in {"loop", "cmd"} : pc'[g] = "store" => pc[g] = "store"
  /\ pc'["net"] = "install" => pc["net"] = "install" /\ got' = got
  /\ (ci' # Nil /\ pc'["net"] # "wipe") => pc["net"] # "wipe"
  /\ \A s \in SessionIds : Answer(s)' => Answer(s)
  /\ \A m \in net' : \/ m \in net
                     \/ m.t = "init" /\ m.i = ci
                     \/ m.t = "resp" \/ m.t = Down
                     \/ m.t = Up /\ Installed(m.s)

\* They keep the invariant.
LEMMA QuietInvariant == ASSUME IInv, Quiet PROVE IInv'
<1> USE DEF IInv, Quiet
<1>1. Fresh'
  <2>1. ASSUME NEW i \in Ephemerals, Unsent(i) PROVE Unsent(i)'
    <3>1. ci' # i
      BY <2>1, BoundTypes DEF Unsent, Nil, Ephemerals
    <3>2. InitMsg(i) \notin net'
      <4> SUFFICES ASSUME InitMsg(i) \in net' PROVE FALSE
        OBVIOUS
      <4>1. InitMsg(i).t = "init" /\ InitMsg(i).i = i /\ InitMsg(i).t # Up /\ InitMsg(i).t # Down
        BY DEF InitMsg, Up, Down
      <4> QED BY <2>1, <4>1 DEF Unsent
    <3> QED BY <2>1, <3>1, <3>2 DEF Unsent
  <2> QED BY <2>1 DEF Fresh
<1>2. ClientOrder'
  BY DEF ClientOrder, Newest
<1>3. ServerOrder'
  BY DEF ServerOrder, Installed, Up, Down
<1>4. Known'
  BY DEF Known, Kept, Installed
<1>5. Ring' /\ TakenUp'
  BY DEF Ring, Age, TakenUp
<1>6. TakenDown'
  <2>1. \A s \in SessionIds : s = session' => s = session
    BY SessionTypes
  <2> QED BY <2>1 DEF TakenDown, Installed
<1> QED BY <1>1, <1>2, <1>3, <1>4, <1>5, <1>6

\* Without a new answer on the network or in the cache there is none.
LEMMA NoNewAnswer ==
  ASSUME UNCHANGED cache, \A m \in net' : m \in net \/ m.t # "resp"
  PROVE  \A s \in SessionIds : Answer(s)' => Answer(s)
BY DEF Answer, RespMsg

\* The client's frame is one of its session, which it installed.
LEMMA FrameOutSent ==
  ASSUME IInv, FrameOut
  PROVE  /\ net' \subseteq Inits \union Resps \union Frames
         /\ sent' \in [{Up, Down} -> [SessionIds -> 0 .. MaxSeq]]
         /\ \A m \in net' : m \in net \/ (m.t = Up /\ Installed(m.s))
<1> USE DEF IInv, Types
<1>1. CASE session # NoSession /\ sent[Up][session] < MaxSeq
           /\ sent' = [sent EXCEPT ![Up][session] = @ + 1]
           /\ net' = net \union {Frame(Up, session, sent[Up][session] + 1)}
  <2>1. session \in SessionIds /\ Installed(session)
    BY <1>1 DEF Sessions, ClientOrder, Installed
  <2>2. sent[Up] \in [SessionIds -> 0 .. MaxSeq] /\ sent[Up][session] \in 0 .. MaxSeq
    BY <2>1
  <2>3. sent[Up][session] + 1 \in 1 .. MaxSeq
    BY <1>1, <2>2, BoundTypes
  <2>4. [sent[Up] EXCEPT ![session] = @ + 1] \in [SessionIds -> 0 .. MaxSeq]
    BY <2>1, <2>2, <2>3
  <2>5. sent' \in [{Up, Down} -> [SessionIds -> 0 .. MaxSeq]]
    BY <1>1, <2>4
  <2> DEFINE f == Frame(Up, session, sent[Up][session] + 1)
  <2>6. f \in Frames /\ f.t = Up /\ f.s = session
    BY <2>1, <2>3, MessageTypes DEF Frame
  <2> HIDE DEF f
  <2> QED BY <1>1, <2>1, <2>5, <2>6 DEF f
<1>2. CASE UNCHANGED <<sent, net>>
  BY <1>2
<1> QED BY <1>1, <1>2 DEF FrameOut

\* The server's frame.
LEMMA DownSent ==
  ASSUME Types, NEW s \in SessionIds, sent[Down][s] < MaxSeq,
         sent' = [sent EXCEPT ![Down][s] = @ + 1],
         net' = net \union {Frame(Down, s, sent[Down][s] + 1)}
  PROVE  /\ net' \subseteq Inits \union Resps \union Frames
         /\ sent' \in [{Up, Down} -> [SessionIds -> 0 .. MaxSeq]]
         /\ \A m \in net' : m \in net \/ m.t = Down
<1> USE DEF Types
<1>1. sent[Down] \in [SessionIds -> 0 .. MaxSeq] /\ sent[Down][s] \in 0 .. MaxSeq
  OBVIOUS
<1>2. sent[Down][s] + 1 \in 1 .. MaxSeq
  BY <1>1, BoundTypes
<1>3. [sent[Down] EXCEPT ![s] = @ + 1] \in [SessionIds -> 0 .. MaxSeq]
  BY <1>1, <1>2
<1>4. sent' \in [{Up, Down} -> [SessionIds -> 0 .. MaxSeq]]
  BY <1>3
<1> DEFINE f == Frame(Down, s, sent[Down][s] + 1)
<1>5. f \in Frames /\ f.t = Down
  BY <1>2, MessageTypes DEF Frame
<1> HIDE DEF f
<1> QED BY <1>4, <1>5 DEF f

\* clientLoop without its handshake.
LEMMA LoopQuiet ==
  ASSUME IInv, LoopAsk \/ LoopAskCi \/ LoopAskHeard \/ LoopPing \/ LoopFrame
  PROVE  Quiet
<1> USE DEF IInv, LoopAsk, LoopAskCi, LoopAskHeard, LoopPing, LoopFrame, LoopOnly, Go,
            shared, sendVars, netVars, serverVars
<1>1. CASE LoopAsk \/ LoopAskCi \/ LoopAskHeard \/ LoopPing
  <2>1. Types'
    BY <1>1 DEF Types, wire, Labels
  <2>2. UNCHANGED <<net, cache, pc["net"], pc["cmd"]>> /\ pc'["loop"] # "store"
    BY <1>1 DEF Types, wire
  <2>3. \A s \in SessionIds : Answer(s)' => Answer(s)
    BY <2>2, NoNewAnswer
  <2> QED BY <1>1, <2>1, <2>2, <2>3 DEF Quiet
<1>2. CASE LoopFrame
  <2>1. UNCHANGED <<pc["net"], pc["cmd"]>> /\ pc'["loop"] # "store"
    BY <1>2 DEF Types
  <2>2. \A m \in net' : m \in net \/ (m.t = Up /\ Installed(m.s))
    BY <1>2, FrameOutSent
  <2>3. Types'
    BY <1>2, FrameOutSent DEF Types, Labels
  <2>4. \A s \in SessionIds : Answer(s)' => Answer(s)
    BY <1>2, <2>2, NoNewAnswer DEF Up
  <2> QED BY <1>2, <2>1, <2>2, <2>3, <2>4 DEF Quiet
<1> QED BY <1>1, <1>2

\* tunToNet.
LEMMA TunQuiet == ASSUME IInv, TunCheck \/ TunFrame PROVE Quiet
<1> USE DEF IInv, TunCheck, TunFrame, Go, shared, sendVars, netVars, serverVars
<1>1. UNCHANGED <<pc["net"], pc["cmd"], pc["loop"]>>
  BY DEF Types
<1>2. CASE TunCheck
  <2>1. Types'
    BY <1>2 DEF Types, wire, Labels
  <2>2. UNCHANGED net
    BY <1>2 DEF wire
  <2>3. \A s \in SessionIds : Answer(s)' => Answer(s)
    BY <1>2, <2>2, NoNewAnswer
  <2> QED BY <1>1, <1>2, <2>1, <2>2, <2>3 DEF Quiet
<1>3. CASE TunFrame
  <2>1. \A m \in net' : m \in net \/ (m.t = Up /\ Installed(m.s))
    BY <1>3, FrameOutSent
  <2>2. pc' \in [{"loop", "net", "cmd", "tun"} -> Labels]
    BY <1>3 DEF Types, Labels
  <2>3. Types'
    BY <1>3, <2>2, FrameOutSent DEF Types
  <2>4. \A s \in SessionIds : Answer(s)' => Answer(s)
    BY <1>3, <2>1, NoNewAnswer DEF Up
  <2> QED BY <1>1, <1>3, <2>1, <2>3, <2>4 DEF Quiet
<1> QED BY <1>2, <1>3

\* cmdPollLoop without its handshake: ci or the session is dropped.
LEMMA CmdQuiet ==
  ASSUME IInv, Rehandshake \/ UsePort \/ UsePortCi \/ LandPeerHard \/ LandPeerCi
  PROVE  Quiet
<1> USE DEF IInv, CmdRest, sendVars, netVars, wire, serverVars
<1>1. /\ UNCHANGED <<eph, nextI, rp, got, cHist, net, sent, sSession, sRp, staged, cache,
                     cacheNext, nextR, sHist, gone, taken>>
      /\ ci' \in {ci, Nil} /\ session' \in {session, NoSession}
  BY DEF Rehandshake, UsePort, UsePortCi, LandPeerHard, LandPeerCi
<1>2. \E l \in {"idle", "init", "drop", "tuple", "land"} : pc' = [pc EXCEPT !["cmd"] = l]
  BY DEF Rehandshake, UsePort, UsePortCi, LandPeerHard, LandPeerCi, Go
<1>3. /\ pc' \in [{"loop", "net", "cmd", "tun"} -> Labels]
      /\ UNCHANGED <<pc["net"], pc["loop"]>> /\ pc'["cmd"] # "store"
  BY <1>2 DEF Types, Labels
<1>4. Types'
  BY <1>1, <1>3, BoundTypes DEF Types, Sessions, Nil
<1>5. \A s \in SessionIds : Answer(s)' => Answer(s)
  BY <1>1, NoNewAnswer
<1> QED BY <1>1, <1>3, <1>4, <1>5 DEF Quiet

\* netToTun at the end of a datagram: ci and unanswered are cleared.
LEMMA NetQuiet == ASSUME IInv, NetSettle \/ NetWipe \/ NetHeard PROVE Quiet
<1> USE DEF IInv, NetRest, shared, netVars, sendVars, wire, serverVars
<1>1. /\ UNCHANGED <<session, eph, nextI, rp, got, cHist, net, sent, sSession, sRp, staged,
                     cache, cacheNext, nextR, sHist, gone, taken>>
      /\ ci' \in {ci, Nil}
  BY DEF NetSettle, NetWipe, NetHeard
<1>2. \E l \in {"idle", "heard", "wipe"} : pc' = [pc EXCEPT !["net"] = l]
  BY DEF NetSettle, NetWipe, NetHeard, Go, NetDone
<1>3. /\ pc' \in [{"loop", "net", "cmd", "tun"} -> Labels]
      /\ UNCHANGED <<pc["cmd"], pc["loop"]>> /\ pc'["net"] # "install"
  BY <1>2 DEF Types, Labels
<1>4. ci' # Nil => pc["net"] # "wipe"
  BY DEF NetSettle, NetWipe, NetHeard
<1>5. Types'
  BY <1>1, <1>3, BoundTypes DEF Types, Sessions, Nil
<1>6. \A s \in SessionIds : Answer(s)' => Answer(s)
  BY <1>1, NoNewAnswer
<1> QED BY <1>1, <1>3, <1>4, <1>5, <1>6 DEF Quiet

\* The server's tunToNet, and a loss.
LEMMA WireQuiet ==
  ASSUME IInv, SrvTun \/ \E m \in net : Lose(m)
  PROVE  Quiet
<1> USE DEF IInv, clientVars, shared, netVars, sendVars, serverVars
<1>1. UNCHANGED <<session, ci, eph, nextI, pc, rp, got, cHist, sSession, sRp, staged,
                  cache, cacheNext, nextR, sHist, gone, taken>>
  BY DEF SrvTun, Lose
<1>2. /\ net' \subseteq Inits \union Resps \union Frames
      /\ sent' \in [{Up, Down} -> [SessionIds -> 0 .. MaxSeq]]
      /\ \A m \in net' : m \in net \/ m.t = Down
  <2>1. CASE SrvTun
    BY <2>1, DownSent DEF SrvTun, Types, Sessions
  <2>2. ASSUME NEW m \in net, Lose(m) PROVE UNCHANGED sent /\ net' \subseteq net
    BY <2>2 DEF Lose
  <2> QED BY <2>1, <2>2 DEF Types
<1>3. Types'
  BY <1>1, <1>2 DEF Types
<1>4. \A s \in SessionIds : Answer(s)' => Answer(s)
  BY <1>1, <1>2, NoNewAnswer DEF Down
<1> QED BY <1>1, <1>2, <1>3, <1>4 DEF Quiet

\* initCache.get finds an answer that was put there.
LEMMA CacheGetCached ==
  ASSUME Types, NEW i \in Ephemerals, Cached(i) # {}
  PROVE  \E k \in 1 .. CacheSize : /\ CacheGet(i) = cache[k] /\ cache[k] \in SessionIds
                                   /\ cache[k] = <<i, CacheGet(i)[2]>>
<1>1. Cached(i) \subseteq Nat
  BY BoundTypes DEF Cached
<1>2. \E k \in Cached(i) : \A j \in Cached(i) : k <= j
  BY <1>1, LeastNatural
<1> DEFINE k == CHOOSE k \in Cached(i) : \A j \in Cached(i) : k <= j
<1>3. k \in Cached(i) /\ CacheGet(i) = cache[k]
  BY <1>2 DEF CacheGet
<1> HIDE DEF k
<1>4. k \in 1 .. CacheSize /\ cache[k][1] = i /\ cache[k] \in Sessions
  BY <1>3 DEF Cached, Types
<1>5. cache[k] # NoSession
  BY <1>4, SessionTypes, BoundTypes DEF Ephemerals
<1>6. cache[k] \in SessionIds
  BY <1>4, <1>5 DEF Sessions
<1>7. cache[k] = <<cache[k][1], cache[k][2]>>
  BY <1>6, SessionTypes
<1> QED BY <1>3, <1>4, <1>6, <1>7

\* An Init that is answered from the cache brings no new answer.
LEMMA AgainQuiet == ASSUME IInv, NEW m \in net, SrvInitAgain(m) PROVE Quiet
<1> USE DEF IInv, SrvInitAgain, clientVars, shared, netVars, sendVars, serverVars
<1>1. m.i \in Ephemerals
  BY MessageKinds
<1>2. PICK k \in 1 .. CacheSize :
         CacheGet(m.i) = cache[k] /\ cache[k] \in SessionIds /\ cache[k] = <<m.i, CacheGet(m.i)[2]>>
  BY <1>1, CacheGetCached
<1> DEFINE r == CacheGet(m.i)[2]
<1>3. r \in Answers /\ RespMsg(m.i, r) \in Resps /\ RespMsg(m.i, r).t = "resp"
  BY <1>1, <1>2, SessionTypes, MessageTypes DEF RespMsg
<1>4. net' = net \union {RespMsg(m.i, r)} /\ UNCHANGED cache
  OBVIOUS
<1>5. cache[k] = <<m.i, r>>
  BY <1>2
<1> HIDE DEF r
<1>6. Types'
  BY <1>3, <1>4 DEF Types
<1>7. ASSUME NEW s \in SessionIds, Answer(s)' PROVE Answer(s)
  <2>1. CASE RespMsg(s[1], s[2]) = RespMsg(m.i, r)
    <3>1. s[1] = m.i /\ s[2] = r
      BY <2>1 DEF RespMsg
    <3>2. s = cache[k]
      BY <1>5, <3>1, SessionTypes
    <3> QED BY <3>2 DEF Answer
  <2>2. CASE RespMsg(s[1], s[2]) # RespMsg(m.i, r)
    BY <1>4, <1>7, <2>2 DEF Answer
  <2> QED BY <2>1, <2>2
<1> QED BY <1>3, <1>4, <1>6, <1>7 DEF Quiet

----------------------------------------------------------------------------
(* sendInit.                                                               *)

\* It sends the handshake in flight again, or draws an ephemeral nobody has seen.
LEMMA LoadInvariant ==
  ASSUME IInv, NEW g \in {"loop", "cmd"}, NEW done \in {"ping", "idle"}, SendInitLoad(g, done),
         UNCHANGED <<shared, netVars, serverVars, sent, taken>>
  PROVE  IInv'
<1> USE DEF IInv, SendInitLoad, Go, shared, netVars, serverVars
<1>1. CASE UNCHANGED <<eph, nextI>> /\ pc' = [pc EXCEPT ![g] = done]
           /\ (net' = net \/ (ci # Nil /\ net' = net \union {InitMsg(ci)}))
  <2>1. ci # Nil => InitMsg(ci) \in Inits
    BY MessageTypes, BoundTypes DEF Types, Ephemerals, Nil
  <2>2. InitMsg(ci).t = "init" /\ InitMsg(ci).i = ci
    BY DEF InitMsg
  <2>3. \A m \in net' : m \in net \/ (m.t = "init" /\ m.i = ci)
    BY <1>1, <2>2
  <2>4. /\ pc' \in [{"loop", "net", "cmd", "tun"} -> Labels] /\ UNCHANGED pc["net"]
        /\ \A h \in {"loop", "cmd"} : pc'[h] = "store" => pc[h] = "store"
    BY <1>1 DEF Types, Labels
  <2>5. Types'
    BY <1>1, <2>1, <2>4 DEF Types
  <2>6. \A s \in SessionIds : Answer(s)' => Answer(s)
    BY <2>3, NoNewAnswer
  <2>7. Quiet
    BY <1>1, <2>3, <2>4, <2>5, <2>6 DEF Quiet
  <2> QED BY <2>7, QuietInvariant
<1>2. CASE /\ nextI <= MaxInit /\ eph' = [eph EXCEPT ![g] = nextI] /\ nextI' = nextI + 1
           /\ pc' = [pc EXCEPT ![g] = "store"] /\ UNCHANGED net
  <2>1. /\ pc' \in [{"loop", "net", "cmd", "tun"} -> Labels] /\ UNCHANGED pc["net"]
    BY <1>2 DEF Types, Labels
  <2>2. nextI \in 1 .. MaxInit /\ nextI' \in 1 .. MaxInit + 1
        /\ eph' \in [{"loop", "cmd"} -> 0 .. MaxInit]
    BY <1>2, BoundTypes DEF Types
  <2>3. Types'
    BY <1>2, <2>1, <2>2 DEF Types
  <2>4. \A s \in SessionIds : Answer(s)' <=> Answer(s)
    BY <1>2 DEF Answer
  <2>5. \A i \in Ephemerals : Unsent(i) => Unsent(i)'
    BY <1>2, <2>4 DEF Unsent
  <2>6. Fresh'
    <3>1. /\ \A h \in {"loop", "cmd"} : eph'[h] < nextI' /\ (pc'[h] = "store" => eph'[h] # Nil)
          /\ eph'["loop"] # Nil => eph'["loop"] # eph'["cmd"]
      BY <1>2, <2>2, BoundTypes DEF Fresh, Types, Nil
    <3>2. ASSUME NEW i \in Ephemerals, i >= nextI' \/ \E h \in {"loop", "cmd"} : eph'[h] = i
          PROVE  i >= nextI \/ \E h \in {"loop", "cmd"} : eph[h] = i
      BY <1>2, <2>2, <3>2, BoundTypes DEF Types, Ephemerals
    <3> QED BY <2>5, <3>1, <3>2 DEF Fresh
  <2>7. ClientOrder' /\ ServerOrder'
    BY <1>2, <2>1, <2>4 DEF ClientOrder, ServerOrder, Newest, Installed
  <2>8. Known' /\ Ring' /\ TakenUp' /\ TakenDown'
    BY <1>2, <2>1, <2>4 DEF Known, Ring, TakenUp, TakenDown, Kept, Installed, Age
  <2> QED BY <2>3, <2>6, <2>7, <2>8
<1> QED BY <1>1, <1>2

\* It stores that ephemeral and sends it: nothing answers it yet.
LEMMA StoreInvariant ==
  ASSUME IInv, NEW g \in {"loop", "cmd"}, NEW done \in {"ping", "idle"}, SendInitStore(g, done),
         UNCHANGED <<session, nextI, netVars, serverVars, sent, taken>>
  PROVE  IInv'
<1> USE DEF IInv, SendInitStore, Go, netVars, serverVars
<1>1. /\ pc' \in [{"loop", "net", "cmd", "tun"} -> Labels] /\ UNCHANGED pc["net"]
      /\ \A h \in {"loop", "cmd"} : pc'[h] = "store" => h # g /\ pc[h] = "store"
  BY DEF Types, Labels
<1> DEFINE e == eph[g]
<1>2. e \in Ephemerals /\ e < nextI /\ Unsent(e)
  <2>1. e # Nil /\ e < nextI /\ e \in 0 .. MaxInit
    BY DEF Fresh, Types
  <2>2. e \in Ephemerals
    BY <2>1, BoundTypes DEF Nil, Ephemerals
  <2> QED BY <2>1, <2>2 DEF Fresh
<1>3. /\ ci' = e /\ net' = net \union {InitMsg(e)} /\ eph' \in [{"loop", "cmd"} -> 0 .. MaxInit]
      /\ eph'[g] = Nil /\ \A h \in {"loop", "cmd"} : h # g => eph'[h] = eph[h]
  BY BoundTypes DEF Types, Nil
<1> HIDE DEF e
<1>4. InitMsg(e) \in Inits /\ InitMsg(e).t = "init" /\ InitMsg(e).t # Up
      /\ \A i \in Ephemerals : InitMsg(i) = InitMsg(e) => i = e
  BY <1>2, MessageTypes DEF InitMsg, Up
<1>5. Types'
  BY <1>1, <1>2, <1>3, <1>4, BoundTypes DEF Types, Ephemerals
<1>6. \A s \in SessionIds : Answer(s)' <=> Answer(s)
  BY <1>3, <1>4 DEF Answer, RespMsg
<1>7. Fresh'
  <2>1. ASSUME NEW i \in Ephemerals, i >= nextI \/ \E h \in {"loop", "cmd"} : eph'[h] = i
        PROVE  (i >= nextI \/ \E h \in {"loop", "cmd"} : eph[h] = i) /\ i # e
    <3>1. CASE i >= nextI
      BY <1>2, <3>1 DEF Ephemerals, Types
    <3>2. ASSUME NEW h \in {"loop", "cmd"}, eph'[h] = i
          PROVE  eph[h] = i /\ i # e
      <4>1. h # g
        BY <1>3, <3>2 DEF Nil, Ephemerals
      <4>2. eph[h] = i /\ i # Nil
        BY <1>3, <3>2, <4>1 DEF Nil, Ephemerals
      <4> QED BY <4>1, <4>2 DEF Fresh, e
    <3> QED BY <2>1, <3>1, <3>2
  <2>2. ASSUME NEW i \in Ephemerals, Unsent(i), i # e PROVE Unsent(i)'
    BY <1>3, <1>4, <1>6, <2>2 DEF Unsent
  <2>3. \A h \in {"loop", "cmd"} : eph'[h] < nextI /\ (pc'[h] = "store" => eph'[h] # Nil)
    BY <1>1, <1>3 DEF Fresh, Types, Nil
  <2>4. eph'["loop"] # Nil => eph'["loop"] # eph'["cmd"]
    BY <1>3 DEF Fresh, Nil
  <2> QED BY <2>1, <2>2, <2>3, <2>4 DEF Fresh
<1>8. ClientOrder'
  <2>1. \A s \in SessionIds : Answer(s)' => s[1] # ci'
    BY <1>2, <1>3, <1>6 DEF Unsent
  <2> QED BY <1>1, <1>6, <2>1 DEF ClientOrder, Newest
<1>9. ServerOrder'
  BY <1>3, <1>4 DEF ServerOrder, Installed
<1>10. Known' /\ Ring' /\ TakenUp' /\ TakenDown'
  BY <1>1, <1>6 DEF Known, Ring, TakenUp, TakenDown, Kept, Installed, Age
<1> QED BY <1>5, <1>7, <1>8, <1>9, <1>10

----------------------------------------------------------------------------
(* netToTun.                                                               *)

\* A delivery counts one frame of one direction.
LEMMA TakeCounts ==
  ASSUME Types, NEW m \in Frames, Take(m)
  PROVE  /\ taken' \in [{Up, Down} -> [SessionIds \X (1 .. MaxSeq) -> Nat]]
         /\ taken'[m.t][<<m.s, m.n>>] = taken[m.t][<<m.s, m.n>>] + 1
         /\ \A s \in SessionIds, n \in 1 .. MaxSeq :
              ~(s = m.s /\ n = m.n) => taken'[m.t][<<s, n>>] = taken[m.t][<<s, n>>]
         /\ \A d \in {Up, Down} : d # m.t => taken'[d] = taken[d]
<1>1. m.t \in {Up, Down} /\ m.s \in SessionIds /\ m.n \in 1 .. MaxSeq
  BY DEF Frames
<1> DEFINE K == SessionIds \X (1 .. MaxSeq)
           f == taken[m.t]
           x == <<m.s, m.n>>
<1>2. x \in K /\ f \in [K -> Nat] /\ taken \in [{Up, Down} -> [K -> Nat]]
  BY <1>1 DEF Types
<1>3. taken' = [taken EXCEPT ![m.t] = [f EXCEPT ![x] = @ + 1]]
  BY DEF Take
<1>4. \A s \in SessionIds, n \in 1 .. MaxSeq : <<s, n>> \in K /\ (<<s, n>> = x => s = m.s /\ n = m.n)
  OBVIOUS
<1> HIDE DEF K, f, x
<1>5. [f EXCEPT ![x] = @ + 1] \in [K -> Nat] /\ [f EXCEPT ![x] = @ + 1][x] = f[x] + 1
      /\ \A y \in K : y # x => [f EXCEPT ![x] = @ + 1][y] = f[y]
  BY <1>2
<1>6. /\ taken' \in [{Up, Down} -> [K -> Nat]] /\ taken'[m.t] = [f EXCEPT ![x] = @ + 1]
      /\ \A d \in {Up, Down} : d # m.t => taken'[d] = taken[d]
  BY <1>1, <1>2, <1>3, <1>5
<1> QED BY <1>4, <1>5, <1>6 DEF K, f, x

\* A frame of the session that the guard has not seen.
LEMMA NetOpenInvariant == ASSUME IInv, NEW m \in net, NetOpen(m) PROVE IInv'
<1> USE DEF IInv, NetOpen, NetRest, Go, shared, sendVars, wire, serverVars
<1>1. m \in Frames /\ m.s \in SessionIds /\ m.n \in 1 .. MaxSeq
  BY MessageKinds
<1>2. /\ taken' \in [{Up, Down} -> [SessionIds \X (1 .. MaxSeq) -> Nat]]
      /\ taken'[Down][<<m.s, m.n>>] = taken[Down][<<m.s, m.n>>] + 1
      /\ \A s \in SessionIds, n \in 1 .. MaxSeq :
           ~(s = m.s /\ n = m.n) => taken'[Down][<<s, n>>] = taken[Down][<<s, n>>]
      /\ taken'[Up] = taken[Up]
  <2>1. Types /\ Take(m) /\ m.t = Down
    OBVIOUS
  <2>2. Up # Down
    BY DEF Up, Down
  <2>3. /\ taken' \in [{Up, Down} -> [SessionIds \X (1 .. MaxSeq) -> Nat]]
        /\ taken'[m.t][<<m.s, m.n>>] = taken[m.t][<<m.s, m.n>>] + 1
        /\ \A s \in SessionIds, n \in 1 .. MaxSeq :
             ~(s = m.s /\ n = m.n) => taken'[m.t][<<s, n>>] = taken[m.t][<<s, n>>]
        /\ \A d \in {Up, Down} : d # m.t => taken'[d] = taken[d]
    BY ONLY <1>1, <2>1, TakeCounts
  <2> QED BY ONLY <2>1, <2>2, <2>3
<1>3. /\ pc' \in [{"loop", "net", "cmd", "tun"} -> Labels]
      /\ UNCHANGED <<pc["loop"], pc["cmd"]>> /\ pc["net"] = "idle" /\ pc'["net"] = "settle"
  BY DEF Types, Labels
<1>4. Types'
  BY <1>2, <1>3 DEF Types
<1>5. \A s \in SessionIds : Answer(s)' <=> Answer(s)
  BY DEF Answer
<1>6. Fresh' /\ ClientOrder' /\ ServerOrder'
  BY <1>3, <1>5 DEF Fresh, Unsent, ClientOrder, ServerOrder, Newest, Installed
<1>7. Known' /\ Ring' /\ TakenUp'
  BY <1>2, <1>3, <1>5 DEF Known, Ring, TakenUp, Kept, Installed, Age
<1>8. TakenDown'
  <2> SUFFICES ASSUME NEW s \in SessionIds, NEW n \in 1 .. MaxSeq
               PROVE  /\ taken'[Down][<<s, n>>] <= 1
                      /\ s = session => (taken'[Down][<<s, n>>] = 1 <=> n \in rp')
                      /\ ~Installed(s) => taken'[Down][<<s, n>>] = 0
    BY DEF TakenDown, Installed
  <2>1. Installed(session)
    BY <1>1, SessionTypes DEF ClientOrder, Installed, Types
  <2>2. CASE s = m.s /\ n = m.n
    <3>1. taken[Down][<<s, n>>] \in Nat /\ taken[Down][<<s, n>>] <= 1 /\ taken[Down][<<s, n>>] # 1
      BY <1>1, <2>2 DEF TakenDown, Types
    <3>2. taken'[Down][<<s, n>>] = taken[Down][<<s, n>>] + 1
      BY ONLY <1>2, <2>2
    <3>3. taken'[Down][<<s, n>>] = 1
      BY ONLY <3>1, <3>2
    <3> QED BY <2>1, <2>2, <3>3
  <2>3. CASE ~(s = m.s /\ n = m.n)
    BY <1>2, <2>3 DEF TakenDown
  <2> QED BY <2>2, <2>3
<1> QED BY <1>4, <1>6, <1>7, <1>8

\* An answer to the handshake in flight is newer than what is installed.
LEMMA NetRespInvariant == ASSUME IInv, NEW m \in net, NetResp(m) PROVE IInv'
<1> USE DEF IInv, NetResp, NetRest, Go, shared, sendVars, wire, serverVars
<1>1. m.i \in Ephemerals /\ m.r \in Answers /\ m = RespMsg(m.i, m.r)
  BY MessageKinds
<1>2. got' = <<m.i, m.r>> /\ got' \in SessionIds /\ got'[1] = m.i /\ got'[2] = m.r
  BY <1>1, SessionTypes
<1>3. Answer(got')
  BY <1>1, <1>2 DEF Answer
<1>4. ci # Nil /\ pc["net"] # "wipe"
  BY <1>1 DEF Nil, Ephemerals
<1>5. got'[2] < nextR /\ Newest(got') /\ Kept(got')
  BY <1>2, <1>3, <1>4 DEF ClientOrder, Known
<1>6. /\ pc' \in [{"loop", "net", "cmd", "tun"} -> Labels]
      /\ UNCHANGED <<pc["loop"], pc["cmd"]>> /\ pc["net"] = "idle" /\ pc'["net"] = "install"
  BY DEF Types, Labels
<1>7. Types'
  BY <1>2, <1>6 DEF Types, Sessions
<1>8. \A s \in SessionIds : Answer(s)' <=> Answer(s)
  BY DEF Answer
<1>9. UNCHANGED <<cHist, gone, sSession, staged, nextR, ci, session>>
  OBVIOUS
<1>10. Fresh' /\ ServerOrder'
  BY <1>6, <1>8 DEF Fresh, Unsent, ServerOrder, Installed
<1>11. ClientOrder'
  BY <1>2, <1>5, <1>6, <1>8, <1>9 DEF ClientOrder, Newest
<1>12. Known'
  BY <1>5, <1>8, <1>9 DEF Known, Kept, Installed
<1>13. Ring' /\ TakenUp' /\ TakenDown'
  BY DEF Ring, Age, TakenUp, TakenDown, Installed
<1> QED BY <1>7, <1>10, <1>11, <1>12, <1>13

\* The session is installed: a new one, with an empty guard.
LEMMA NetInstallInvariant == ASSUME IInv, NetInstall PROVE IInv'
<1> USE DEF IInv, NetInstall, NetRest, Go, shared, sendVars, wire, serverVars
<1>1. /\ pc["net"] = "install" /\ got \in SessionIds /\ got[2] < nextR /\ Newest(got) /\ Kept(got)
  BY DEF ClientOrder, Known
<1>2. /\ cHist' \in Seq(SessionIds) /\ Len(cHist') = Len(cHist) + 1 /\ Len(cHist) \in Nat
      /\ DOMAIN cHist = 1 .. Len(cHist) /\ DOMAIN cHist' = 1 .. Len(cHist) + 1
      /\ \A k \in DOMAIN cHist : cHist'[k] = cHist[k]
      /\ cHist'[Len(cHist) + 1] = got
  <2>1. cHist' = Append(cHist, got) /\ cHist \in Seq(SessionIds)
    BY DEF Types
  <2> QED BY ONLY <1>1, <2>1, AppendProperties, LenProperties
<1>3. \A k \in DOMAIN cHist' : k \in DOMAIN cHist \/ k = Len(cHist) + 1
  BY <1>2
<1>4. /\ pc' \in [{"loop", "net", "cmd", "tun"} -> Labels]
      /\ UNCHANGED <<pc["loop"], pc["cmd"]>> /\ pc'["net"] = "wipe"
  BY DEF Types, Labels
<1>5. Types'
  BY <1>1, <1>2, <1>4 DEF Types, Sessions
<1>6. \A s \in SessionIds : Answer(s)' <=> Answer(s)
  BY DEF Answer
<1>7. \A s \in SessionIds : Installed(s)' <=> Installed(s) \/ s = got
  BY <1>2, <1>3 DEF Installed
<1>8. session' = got /\ UNCHANGED <<gone, sSession, staged, nextR, net, sHist, taken>>
  OBVIOUS
<1>9. Fresh'
  BY <1>4, <1>6 DEF Fresh, Unsent
<1>10. ClientOrder'
  <2>1. ASSUME NEW j \in DOMAIN cHist', NEW k \in DOMAIN cHist', j < k
        PROVE  cHist'[j][2] < cHist'[k][2]
    <3>1. j \in DOMAIN cHist
      BY <1>2, <2>1
    <3>2. CASE k \in DOMAIN cHist
      BY <1>2, <2>1, <3>1, <3>2 DEF ClientOrder
    <3>3. CASE k = Len(cHist) + 1
      BY <1>1, <1>2, <3>1, <3>3 DEF Newest
    <3> QED BY <1>3, <3>2, <3>3
  <2>2. \A k \in DOMAIN cHist' : cHist'[k][2] < nextR'
    BY <1>1, <1>2, <1>3, <1>8 DEF ClientOrder
  <2>3. cHist' # <<>> /\ session' = cHist'[Len(cHist')]
    BY <1>2, <1>8
  <2>4. \A s \in SessionIds : Answer(s)' => s[2] < nextR'
    BY <1>6, <1>8 DEF ClientOrder
  <2> QED BY <1>4, <2>1, <2>2, <2>3, <2>4 DEF ClientOrder
<1>11. ServerOrder'
  <2>1. \A k \in DOMAIN sHist : Installed(sHist[k])'
    BY <1>7 DEF ServerOrder, Types
  <2>2. \A m \in net : m.t = Up => Installed(m.s)'
    BY <1>7, MessageKinds DEF ServerOrder
  <2> QED BY <1>8, <2>1, <2>2 DEF ServerOrder
<1>12. Known'
  BY <1>1, <1>4, <1>6, <1>7, <1>8 DEF Known, Kept
<1>13. Ring' /\ TakenUp'
  BY DEF Ring, Age, TakenUp
<1>14. TakenDown'
  <2>1. ~Installed(got)
    BY <1>1, SessionTypes DEF Installed, Newest, Answers
  <2>2. rp' = {}
    OBVIOUS
  <2>3. \A n \in 1 .. MaxSeq : taken[Down][<<got, n>>] = 0
    BY <1>1, <2>1 DEF TakenDown
  <2> SUFFICES ASSUME NEW s \in SessionIds, NEW n \in 1 .. MaxSeq
               PROVE  /\ taken[Down][<<s, n>>] <= 1
                      /\ s = got => (taken[Down][<<s, n>>] = 1 <=> n \in rp')
                      /\ ~Installed(s)' => taken[Down][<<s, n>>] = 0
    BY <1>8 DEF TakenDown
  <2> QED BY <1>7, <2>2, <2>3 DEF TakenDown
<1> QED BY <1>5, <1>9, <1>10, <1>11, <1>12, <1>13, <1>14

----------------------------------------------------------------------------
(* The server.                                                             *)

\* A frame of the session that the guard has not seen.
LEMMA SrvOpenTaken ==
  ASSUME IInv, NEW m \in net, SrvOpen(m)
  PROVE  /\ m \in Frames /\ sSession \in SessionIds
         /\ taken' \in [{Up, Down} -> [SessionIds \X (1 .. MaxSeq) -> Nat]]
         /\ taken'[Down] = taken[Down]
         /\ nextR' = nextR => TakenUp'
<1> USE DEF SrvOpen
<1>1. Types /\ Take(m) /\ m.t = Up /\ Up # Down
  BY DEF IInv, Up, Down
<1>2. m \in Frames /\ m.s \in SessionIds /\ m.n \in 1 .. MaxSeq /\ m.s = sSession
  BY <1>1, MessageKinds
<1>3. /\ taken' \in [{Up, Down} -> [SessionIds \X (1 .. MaxSeq) -> Nat]]
      /\ taken'[m.t][<<m.s, m.n>>] = taken[m.t][<<m.s, m.n>>] + 1
      /\ \A s \in SessionIds, n \in 1 .. MaxSeq :
           ~(s = m.s /\ n = m.n) => taken'[m.t][<<s, n>>] = taken[m.t][<<s, n>>]
      /\ \A d \in {Up, Down} : d # m.t => taken'[d] = taken[d]
  BY ONLY <1>1, <1>2, TakeCounts
<1>4. ASSUME nextR' = nextR PROVE TakenUp'
  <2> SUFFICES ASSUME NEW s \in SessionIds, NEW n \in 1 .. MaxSeq
               PROVE  /\ taken'[Up][<<s, n>>] <= 1
                      /\ s = sSession => (taken'[Up][<<s, n>>] = 1 <=> n \in sRp')
                      /\ (s[2] >= nextR \/ \E k \in DOMAIN staged : staged[k] = s)
                           => taken'[Up][<<s, n>>] = 0
    BY <1>4 DEF TakenUp
  <2>1. /\ taken[Up][<<s, n>>] <= 1
        /\ s = sSession => (taken[Up][<<s, n>>] = 1 <=> n \in sRp)
        /\ (s[2] >= nextR \/ \E k \in DOMAIN staged : staged[k] = s) => taken[Up][<<s, n>>] = 0
    BY DEF IInv, TakenUp
  <2>2. CASE s = m.s /\ n = m.n
    <3>1. taken[Up][<<s, n>>] \in Nat /\ taken[Up][<<s, n>>] # 1
      BY <1>1, <1>2, <2>1, <2>2 DEF Types
    <3>2. taken'[Up][<<s, n>>] = taken[Up][<<s, n>>] + 1
      BY ONLY <1>1, <1>3, <2>2
    <3>3. taken'[Up][<<s, n>>] = 1
      BY ONLY <2>1, <3>1, <3>2
    <3>4. s[2] < nextR /\ ~\E k \in DOMAIN staged : staged[k] = s
      <4>1. PICK j \in DOMAIN sHist : sHist[j] = s
        BY <1>2, <2>2, SessionTypes DEF IInv, ServerOrder
      <4>2. Installed(s) /\ \A k \in DOMAIN staged : s[2] < staged[k][2]
        BY <4>1 DEF IInv, ServerOrder
      <4>3. s[2] < nextR
        BY <4>2 DEF IInv, ClientOrder, Installed
      <4> QED BY <4>2, <4>3, SessionTypes DEF Answers
    <3>5. ~(s[2] >= nextR)
      BY <1>1, <3>4, SessionTypes, BoundTypes DEF Types, Answers
    <3> QED BY <2>2, <3>3, <3>4, <3>5
  <2>3. CASE ~(s = m.s /\ n = m.n)
    BY <1>1, <1>2, <1>3, <2>1, <2>3
  <2> QED BY <2>2, <2>3
<1> QED BY <1>1, <1>2, <1>3, <1>4

\* dispatch may answer with a pong under the session: nothing else changes.
LEMMA PongSent ==
  ASSUME IInv, NEW m \in net, SrvFrame(m), sSession' \in SessionIds
  PROVE  /\ net' \subseteq Inits \union Resps \union Frames
         /\ sent' \in [{Up, Down} -> [SessionIds -> 0 .. MaxSeq]]
         /\ \A o \in net' : o \in net \/ o.t = Down
         /\ net \subseteq net'
         /\ UNCHANGED <<session, ci, eph, nextI, pc, rp, got, cHist, cache, cacheNext, nextR, gone>>
<1>1. Types
  BY DEF IInv
<1>2. UNCHANGED <<session, ci, eph, nextI, pc, rp, got, cHist, cache, cacheNext, nextR, gone>>
  BY DEF SrvFrame, clientVars, shared, sendVars, netVars
<1>3. CASE UNCHANGED <<net, sent>>
  BY <1>1, <1>2, <1>3 DEF Types
<1>4. CASE /\ sent[Down][sSession'] < MaxSeq
           /\ sent' = [sent EXCEPT ![Down][sSession'] = @ + 1]
           /\ net' = net \union {Frame(Down, sSession', sent[Down][sSession'] + 1)}
  BY <1>1, <1>2, <1>4, DownSent
<1> QED BY <1>3, <1>4 DEF SrvFrame

\* What such a step keeps, apart from the server's sessions.
LEMMA PongInvariant ==
  ASSUME IInv, NEW m \in net, SrvFrame(m), sSession' \in SessionIds,
         staged' \in Seq(SessionIds), sHist' \in Seq(SessionIds),
         taken' \in [{Up, Down} -> [SessionIds \X (1 .. MaxSeq) -> Nat]],
         taken'[Down] = taken[Down]
  PROVE  Types' /\ Fresh' /\ ClientOrder' /\ Ring' /\ TakenDown'
         /\ \A s \in SessionIds : Answer(s)' <=> Answer(s)
<1> USE PongSent
<1>1. Types'
  BY DEF IInv, Types, Sessions
<1>2. \A s \in SessionIds : Answer(s)' <=> Answer(s)
  BY DEF Answer, RespMsg, Down
<1>3. Fresh'
  <2>1. \A i \in Ephemerals : Unsent(i) => Unsent(i)'
    BY <1>2 DEF Unsent, InitMsg, Down
  <2> QED BY <2>1 DEF IInv, Fresh
<1>4. ClientOrder'
  BY <1>2 DEF IInv, ClientOrder, Newest
<1>5. Ring' /\ TakenDown'
  BY DEF IInv, Ring, Age, TakenDown, Installed
<1> QED BY <1>1, <1>2, <1>3, <1>4, <1>5

\* A frame of the session.
LEMMA OpenInvariant == ASSUME IInv, NEW m \in net, SrvFrame(m), SrvOpen(m) PROVE IInv'
<1>1. UNCHANGED <<sSession, staged, sHist>> /\ sSession \in SessionIds
  BY SrvOpenTaken DEF SrvOpen
<1>2. /\ Types' /\ Fresh' /\ ClientOrder' /\ Ring' /\ TakenDown'
      /\ \A s \in SessionIds : Answer(s)' <=> Answer(s)
  BY <1>1, PongInvariant, SrvOpenTaken DEF IInv, Types
<1>3. UNCHANGED <<cHist, nextR, gone, pc, got>> /\ \A o \in net' : o \in net \/ o.t = Down
  BY <1>1, PongSent
<1>4. ServerOrder'
  BY <1>1, <1>3 DEF IInv, ServerOrder, Installed, Up, Down
<1>5. Known'
  BY <1>1, <1>2, <1>3 DEF IInv, Known, Kept, Installed
<1>6. TakenUp'
  BY <1>3, SrvOpenTaken
<1> QED BY <1>2, <1>4, <1>5, <1>6 DEF IInv

\* A frame of a staged session: the sessions the server leaves behind are older.
LEMMA PromoteInvariant == ASSUME IInv, NEW m \in net, SrvFrame(m), SrvPromote(m) PROVE IInv'
<1>1. Types /\ Take(m) /\ m.t = Up /\ Up # Down
  BY DEF IInv, SrvPromote, Up, Down
<1>2. m \in Frames /\ m.s \in SessionIds /\ m.n \in 1 .. MaxSeq
  BY <1>1, MessageKinds
<1>3. PICK k \in DOMAIN staged : staged[k] = m.s /\ Promote(k, m.n)
  BY DEF SrvPromote
<1>4. sSession' = m.s /\ sRp' = {m.n} /\ staged' = SubSeq(staged, k + 1, Len(staged))
  BY <1>3 DEF Promote
<1> DEFINE L == Len(staged)
<1>5. /\ staged \in Seq(SessionIds) /\ L \in Nat /\ DOMAIN staged = 1 .. L /\ k \in 1 .. L
  BY <1>1, <1>3, LenProperties DEF Types
<1>6. /\ staged' \in Seq(SessionIds) /\ Len(staged') = L - k /\ DOMAIN staged' = 1 .. L - k
      /\ \A j \in 1 .. L - k : staged'[j] = staged[j + k]
  <2>1. \A i \in k + 1 .. L : staged[i] \in SessionIds
    BY <1>5, ElementOfSeq
  <2>2. /\ staged' \in Seq(SessionIds)
        /\ Len(staged') = IF k + 1 <= L THEN L - (k + 1) + 1 ELSE 0
        /\ \A j \in 1 .. L - (k + 1) + 1 : staged'[j] = staged[(k + 1) + j - 1]
    BY <1>4, <1>5, <2>1, SubSeqProperties
  <2>3. Len(staged') = L - k /\ L - (k + 1) + 1 = L - k
    BY <1>5, <2>2
  <2>4. \A j \in 1 .. L - k : (k + 1) + j - 1 = j + k
    BY <1>5
  <2>5. DOMAIN staged' = 1 .. Len(staged')
    BY <2>2, LenProperties
  <2> QED BY <2>2, <2>3, <2>4, <2>5
<1> HIDE DEF L
<1>7. \A j \in 1 .. L - k : j + k \in DOMAIN staged /\ k < j + k
  BY <1>5
<1>8. /\ sHist \in Seq(SessionIds) /\ sHist' = Append(sHist, m.s) /\ sHist' \in Seq(SessionIds)
      /\ Len(sHist) \in Nat /\ DOMAIN sHist = 1 .. Len(sHist)
      /\ DOMAIN sHist' = 1 .. Len(sHist) + 1 /\ sHist'[Len(sHist) + 1] = m.s
      /\ \A j \in DOMAIN sHist : sHist'[j] = sHist[j]
  <2>1. sHist \in Seq(SessionIds) /\ sHist' = Append(sHist, m.s)
    BY <1>1 DEF Types, SrvPromote
  <2> QED BY ONLY <1>2, <2>1, AppendProperties, LenProperties
<1>9. /\ taken' \in [{Up, Down} -> [SessionIds \X (1 .. MaxSeq) -> Nat]]
      /\ taken'[m.t][<<m.s, m.n>>] = taken[m.t][<<m.s, m.n>>] + 1
      /\ \A s \in SessionIds, n \in 1 .. MaxSeq :
           ~(s = m.s /\ n = m.n) => taken'[m.t][<<s, n>>] = taken[m.t][<<s, n>>]
      /\ \A d \in {Up, Down} : d # m.t => taken'[d] = taken[d]
  BY ONLY <1>1, <1>2, TakeCounts
<1>10. /\ Types' /\ Fresh' /\ ClientOrder' /\ Ring' /\ TakenDown'
       /\ \A s \in SessionIds : Answer(s)' <=> Answer(s)
  BY <1>1, <1>2, <1>4, <1>6, <1>8, <1>9, PongInvariant
<1>11. UNCHANGED <<cHist, nextR, gone, pc, got>> /\ \A o \in net' : o \in net \/ o.t = Down
  BY <1>2, <1>4, PongSent
<1>12. \A s \in SessionIds : s[2] \in Nat
  BY SessionTypes DEF Answers
<1>13. nextR \in Nat
  BY <1>1, BoundTypes DEF Types
<1>14. \A j \in DOMAIN staged : staged[j] \in SessionIds
  BY <1>5
<1>15. \A j \in DOMAIN sHist : sHist[j] \in SessionIds
  BY <1>8
<1>16. ServerOrder'
  <2>1. \A i, j \in DOMAIN staged' : i < j => staged'[i][2] < staged'[j][2]
    BY <1>5, <1>6, <1>7 DEF IInv, ServerOrder
  <2>2. ASSUME NEW j \in DOMAIN staged' PROVE staged'[j][2] + Len(staged') - j < nextR'
    <3>1. staged[j + k][2] + L - (j + k) < nextR /\ staged'[j] = staged[j + k] /\ j \in 1 .. L - k
      BY <1>5, <1>6, <1>7 DEF IInv, ServerOrder, L
    <3>2. staged[j + k][2] \in Nat
      BY <1>6, <1>7, <1>12, <1>14, <3>1
    <3> QED BY <1>5, <1>6, <1>11, <1>13, <3>1, <3>2
  <2>3. ASSUME NEW i \in DOMAIN sHist', NEW j \in DOMAIN sHist', i < j
        PROVE  sHist'[i][2] < sHist'[j][2]
    <3>1. i \in DOMAIN sHist
      BY <1>8, <2>3
    <3>2. CASE j \in DOMAIN sHist
      BY <1>8, <2>3, <3>1, <3>2 DEF IInv, ServerOrder
    <3>3. CASE j = Len(sHist) + 1
      BY <1>3, <1>8, <3>1, <3>3 DEF IInv, ServerOrder
    <3> QED BY <1>8, <3>2, <3>3
  <2>4. ASSUME NEW i \in DOMAIN sHist', NEW j \in DOMAIN staged'
        PROVE  sHist'[i][2] < staged'[j][2]
    <3>1. CASE i \in DOMAIN sHist
      BY <1>6, <1>7, <1>8, <3>1 DEF IInv, ServerOrder
    <3>2. CASE i = Len(sHist) + 1
      BY <1>3, <1>6, <1>7, <1>8, <3>2 DEF IInv, ServerOrder
    <3> QED BY <1>8, <3>1, <3>2
  <2>5. (\A j \in DOMAIN sHist : Installed(sHist[j]))'
    <3>1. Installed(m.s)
      BY <1>1 DEF IInv, ServerOrder
    <3>2. \A j \in DOMAIN sHist' : Installed(sHist'[j])
      BY <1>8, <3>1 DEF IInv, ServerOrder
    <3> QED BY <1>11, <3>2 DEF Installed
  <2>6. \E j \in DOMAIN sHist' : sHist'[j] = sSession'
    <3>1. Len(sHist) + 1 \in DOMAIN sHist'
      BY <1>8
    <3> QED BY <1>4, <1>8, <3>1
  <2>7. \A o \in net' : o.t = Up => Installed(o.s)'
    BY <1>1, <1>11 DEF IInv, ServerOrder, Installed
  <2> QED BY <2>1, <2>2, <2>3, <2>4, <2>5, <2>6, <2>7 DEF ServerOrder
<1>17. ASSUME NEW s \in SessionIds, Kept(s) PROVE Kept(s)'
  <2>1. sSession # NoSession => sSession \in SessionIds /\ sSession[2] < m.s[2]
    <3>1. sSession # NoSession => \E j \in DOMAIN sHist : sHist[j] = sSession
      BY DEF IInv, ServerOrder
    <3>2. \A j \in DOMAIN sHist : sHist[j][2] < m.s[2]
      BY <1>3 DEF IInv, ServerOrder
    <3> QED BY <1>15, <3>1, <3>2
  <2>2. CASE s[2] \in gone
    BY <1>11, <2>2 DEF Kept
  <2>3. CASE s = sSession
    BY <1>4, <2>1, <2>3, SessionTypes DEF Kept
  <2>4. ASSUME NEW j \in DOMAIN staged, staged[j] = s PROVE Kept(s)'
    <3>1. CASE j < k
      BY <1>3, <1>4, <2>4, <3>1 DEF Kept, IInv, ServerOrder
    <3>2. CASE j = k
      BY <1>3, <1>4, <2>4, <3>2 DEF Kept
    <3>3. CASE j > k
      <4>1. j - k \in DOMAIN staged' /\ (j - k) + k = j /\ j - k \in 1 .. L - k
        BY <1>5, <1>6, <3>3
      <4>2. staged'[j - k] = s
        BY <1>6, <2>4, <4>1
      <4> QED BY <4>1, <4>2 DEF Kept
    <3> QED BY <1>5, <3>1, <3>2, <3>3
  <2>5. CASE s[2] < sSession[2]
    <3>1. sSession # NoSession
      BY <1>12, <2>5, SessionTypes
    <3>2. s[2] < m.s[2]
      BY <1>2, <1>12, <2>1, <2>5, <3>1
    <3> QED BY <1>4, <3>2 DEF Kept
  <2> QED BY <1>17, <2>2, <2>3, <2>4, <2>5 DEF Kept
<1>18. Known'
  <2>1. \A s \in SessionIds : (Answer(s) \/ Installed(s))' => Kept(s)'
    BY <1>10, <1>11, <1>17 DEF IInv, Known, Installed
  <2>2. pc["net"] = "install" => got \in SessionIds /\ Kept(got)
    BY DEF IInv, ClientOrder, Known
  <2>3. ASSUME pc["net"] = "install" PROVE Kept(got)'
    <3>1. got \in SessionIds /\ Kept(got) /\ got' = got
      BY <1>11, <2>2, <2>3
    <3> QED BY <1>17, <3>1 DEF Kept
  <2> QED BY <1>11, <2>1, <2>3 DEF Known
<1>19. TakenUp'
  <2> SUFFICES ASSUME NEW s \in SessionIds, NEW n \in 1 .. MaxSeq
               PROVE  /\ taken'[Up][<<s, n>>] <= 1
                      /\ s = m.s => (taken'[Up][<<s, n>>] = 1 <=> n \in {m.n})
                      /\ (s[2] >= nextR \/ \E j \in DOMAIN staged' : staged'[j] = s)
                           => taken'[Up][<<s, n>>] = 0
    BY <1>4, <1>11 DEF TakenUp
  <2>1. /\ taken[Up][<<s, n>>] <= 1
        /\ (s[2] >= nextR \/ \E j \in DOMAIN staged : staged[j] = s) => taken[Up][<<s, n>>] = 0
    BY DEF IInv, TakenUp
  <2>2. CASE s = m.s
    <3>1. taken[Up][<<s, n>>] = 0
      BY <1>3, <2>1, <2>2
    <3>2. n = m.n => taken'[Up][<<s, n>>] = 1
      BY ONLY <1>1, <1>9, <2>2, <3>1
    <3>3. n # m.n => taken'[Up][<<s, n>>] = 0
      BY ONLY <1>1, <1>9, <2>2, <3>1
    <3>4. ~(s[2] >= nextR)
      <4>1. s[2] + L - k < nextR /\ s[2] \in Nat
        BY <1>3, <1>12, <2>2 DEF IInv, ServerOrder, L
      <4> QED BY <1>5, <1>13, <4>1
    <3>5. \A j \in DOMAIN staged' : staged'[j] # s
      <4>1. \A j \in DOMAIN staged' : s[2] < staged'[j][2]
        BY <1>3, <1>6, <1>7, <2>2 DEF IInv, ServerOrder
      <4> QED BY <1>12, <4>1
    <3> QED BY <2>2, <3>2, <3>3, <3>4, <3>5
  <2>3. CASE s # m.s
    <3>1. taken'[Up][<<s, n>>] = taken[Up][<<s, n>>]
      BY ONLY <1>1, <1>9, <2>3
    <3>2. (\E j \in DOMAIN staged' : staged'[j] = s) => \E j \in DOMAIN staged : staged[j] = s
      BY <1>6, <1>7
    <3> QED BY <2>1, <2>3, <3>1, <3>2
  <2> QED BY <2>2, <2>3
<1> QED BY <1>10, <1>16, <1>18, <1>19 DEF IInv

\* The ring's next slot.
LEMMA RingNext ==
  ASSUME NEW n \in Nat, n >= 1, NEW x \in 1 .. n
  PROVE  (x % n) + 1 = IF x = n THEN 1 ELSE x + 1
<1>1. CASE x = n
  <2>1. n % n = 0
    OBVIOUS
  <2> QED BY <1>1, <2>1
<1>2. CASE x # n
  <2>1. x \in 0 .. n - 1
    BY <1>2
  <2>2. x % n = x
    BY <2>1
  <2> QED BY <1>2, <2>2
<1> QED BY <1>1, <1>2

\* stageSession: the newest joins, and the oldest leaves when the set is full.
LEMMA StageShape ==
  ASSUME Types, NEW s \in SessionIds, StageSession(s)
  PROVE  \E h \in {0, 1} :
           /\ h <= Len(staged) /\ staged' \in Seq(SessionIds)
           /\ Len(staged') = Len(staged) - h + 1 /\ DOMAIN staged' = 1 .. Len(staged) - h + 1
           /\ \A j \in 1 .. Len(staged) - h : staged'[j] = staged[j + h]
           /\ staged'[Len(staged) - h + 1] = s
           /\ h = 0 => gone' = gone
           /\ h = 1 => Len(staged) >= MaxStaged /\ gone' = gone \union {staged[1][2]}
<1>1. staged \in Seq(SessionIds) /\ Len(staged) \in Nat /\ DOMAIN staged = 1 .. Len(staged)
  BY LenProperties DEF Types
<1>2. CASE Full
  <2>1. Len(staged) >= MaxStaged /\ staged # <<>>
    BY <1>1, <1>2, BoundTypes DEF Full
  <2> DEFINE w == Tail(staged)
  <2>2. /\ w \in Seq(SessionIds) /\ Len(w) = Len(staged) - 1
        /\ \A j \in 1 .. Len(staged) - 1 : w[j] = staged[j + 1]
    BY <1>1, <2>1, HeadTailProperties
  <2>3. staged' = Append(w, s) /\ gone' = gone \union {staged[1][2]}
    BY <1>2 DEF StageSession
  <2> HIDE DEF w
  <2>4. /\ staged' \in Seq(SessionIds) /\ Len(staged') = Len(w) + 1
        /\ \A j \in 1 .. Len(w) : staged'[j] = w[j]
        /\ staged'[Len(w) + 1] = s /\ DOMAIN staged' = 1 .. Len(staged')
    BY ONLY <2>2, <2>3, s \in SessionIds, AppendProperties, LenProperties
  <2>5. 1 <= Len(staged)
    BY <1>1, <2>1, BoundTypes
  <2> QED BY <2>1, <2>2, <2>3, <2>4, <2>5
<1>3. CASE ~Full
  <2>1. staged' = Append(staged, s) /\ gone' = gone
    BY <1>3 DEF StageSession
  <2>2. /\ staged' \in Seq(SessionIds) /\ Len(staged') = Len(staged) + 1
        /\ \A j \in 1 .. Len(staged) : staged'[j] = staged[j]
        /\ staged'[Len(staged) + 1] = s /\ DOMAIN staged' = 1 .. Len(staged')
    BY ONLY <1>1, <2>1, s \in SessionIds, AppendProperties, LenProperties
  <2>3. /\ Len(staged) - 0 = Len(staged) /\ \A j \in 1 .. Len(staged) : staged[j + 0] = staged[j]
        /\ 0 <= Len(staged)
    BY <1>1
  <2>4. \A j \in 1 .. Len(staged) - 0 : staged'[j] = staged[j + 0]
    BY <2>2, <2>3
  <2>5. DOMAIN staged' = 1 .. Len(staged) - 0 + 1 /\ Len(staged') = Len(staged) - 0 + 1
        /\ staged'[Len(staged) - 0 + 1] = s
    BY <2>2, <2>3
  <2> WITNESS 0 \in {0, 1}
  <2> QED BY <2>1, <2>2, <2>3, <2>4, <2>5
<1> QED BY <1>2, <1>3

\* A new session is staged and its answer cached and sent.
LEMMA InitNewInvariant == ASSUME IInv, NEW m \in net, SrvInitNew(m) PROVE IInv'
<1> DEFINE L == Len(staged)
<1>1. /\ Types /\ nextR \in Answers /\ nextR \in Nat /\ nextR' = nextR + 1
      /\ nextR' \in 1 .. MaxResp + 1
  BY BoundTypes DEF IInv, SrvInitNew, Types, Answers
<1>2. m.i \in Ephemerals /\ m = InitMsg(m.i)
  BY <1>1, MessageKinds DEF SrvInitNew
<1>0. PICK new \in SessionIds : new = <<m.i, nextR>>
  BY <1>1, <1>2, SessionTypes
<1>3. new \in SessionIds /\ new[1] = m.i /\ new[2] = nextR /\ RespMsg(m.i, nextR) \in Resps
  BY <1>0, <1>1, <1>2, SessionTypes, MessageTypes
<1>4. /\ StageSession(new) /\ CachePut(new) /\ net' = net \union {RespMsg(m.i, nextR)}
      /\ UNCHANGED <<session, ci, eph, nextI, pc, rp, got, cHist, sSession, sRp, sHist, sent, taken>>
  BY <1>0 DEF SrvInitNew, clientVars, shared, sendVars, netVars
<1>5. PICK h \in {0, 1} :
         /\ h <= L /\ staged' \in Seq(SessionIds)
         /\ Len(staged') = L - h + 1 /\ DOMAIN staged' = 1 .. L - h + 1
         /\ \A j \in 1 .. L - h : staged'[j] = staged[j + h]
         /\ staged'[L - h + 1] = new
         /\ h = 0 => gone' = gone
         /\ h = 1 => L >= MaxStaged /\ gone' = gone \union {staged[1][2]}
  BY <1>1, <1>3, <1>4, StageShape
<1>6. L \in Nat /\ DOMAIN staged = 1 .. L /\ \A j \in DOMAIN staged : staged[j] \in SessionIds
  BY <1>1, LenProperties DEF Types
<1> HIDE DEF L
<1>7. \A s \in SessionIds : s[2] \in Nat
  BY SessionTypes DEF Answers
<1>8. \A j \in 1 .. L - h : j + h \in DOMAIN staged /\ j \in DOMAIN staged'
  BY <1>5, <1>6
<1>9. \A j \in DOMAIN staged' : j \in 1 .. L - h \/ j = L - h + 1
  BY <1>5, <1>6
<1>10. \A j \in DOMAIN staged : staged[j][2] < nextR /\ staged[j][2] + L - j < nextR
  <2> SUFFICES ASSUME NEW j \in DOMAIN staged
               PROVE  staged[j][2] < nextR /\ staged[j][2] + L - j < nextR
    OBVIOUS
  <2>1. staged[j][2] + L - j < nextR
    BY DEF IInv, ServerOrder, L
  <2>2. staged[j][2] \in Nat /\ j \in 1 .. L
    BY <1>6, <1>7
  <2> QED BY <1>1, <1>6, <2>1, <2>2
<1>11. /\ cache' = [cache EXCEPT ![cacheNext] = new]
       /\ cacheNext' = (cacheNext % CacheSize) + 1
       /\ cacheNext \in 1 .. CacheSize /\ cache' \in [1 .. CacheSize -> Sessions]
  BY <1>1, <1>3, <1>4 DEF CachePut, Types, Sessions
<1>12. /\ cacheNext' = IF cacheNext = CacheSize THEN 1 ELSE cacheNext + 1
       /\ cacheNext' \in 1 .. CacheSize
  BY <1>11, RingNext, BoundTypes
<1>13. Types'
  BY <1>1, <1>3, <1>4, <1>5, <1>11, <1>12 DEF Types
<1>14. ASSUME NEW s \in SessionIds, Answer(s)' PROVE Answer(s) \/ s = new
  <2>1. CASE RespMsg(s[1], s[2]) = RespMsg(m.i, nextR)
    <3>1. s[1] = m.i /\ s[2] = nextR
      BY <2>1 DEF RespMsg
    <3> QED BY <1>0, <3>1, SessionTypes
  <2>2. CASE RespMsg(s[1], s[2]) \in net
    BY <2>2 DEF Answer
  <2>3. ASSUME NEW k \in 1 .. CacheSize, cache'[k] = s PROVE Answer(s) \/ s = new
    BY <1>1, <1>11, <2>3 DEF Answer, Types
  <2> QED BY <1>4, <1>14, <2>1, <2>2, <2>3 DEF Answer
<1>15. Fresh'
  <2>1. ASSUME NEW i \in Ephemerals, Unsent(i) PROVE Unsent(i)'
    <3>1. i # m.i
      BY <1>2, <2>1 DEF Unsent
    <3>2. InitMsg(i) \notin net'
      BY <1>4, <2>1 DEF Unsent, InitMsg, RespMsg
    <3>3. ci' # i
      BY <1>4, <2>1 DEF Unsent
    <3> QED BY <1>3, <1>14, <2>1, <3>1, <3>2, <3>3 DEF Unsent
  <2> QED BY <1>4, <2>1 DEF IInv, Fresh
<1>16. \A k \in DOMAIN cHist : cHist[k][2] < nextR /\ cHist[k][2] \in Nat
  BY <1>1, <1>7 DEF IInv, ClientOrder, Types
<1>17. ClientOrder'
  <2>1. Newest(new)
    BY <1>3, <1>16 DEF Newest
  <2>2. \A k \in DOMAIN cHist : cHist[k][2] < nextR + 1
    BY <1>1, <1>16
  <2>3. pc["net"] = "install" => got \in SessionIds /\ got[2] < nextR + 1 /\ Newest(got)
    BY <1>1, <1>7 DEF IInv, ClientOrder
  <2>4. \A s \in SessionIds : Answer(s)' => s[2] < nextR + 1
    BY <1>1, <1>3, <1>7, <1>14 DEF IInv, ClientOrder
  <2>5. (ci # Nil /\ pc["net"] # "wipe") =>
          \A s \in SessionIds : (Answer(s)' /\ s[1] = ci) => Newest(s)
    BY <1>14, <2>1 DEF IInv, ClientOrder
  <2>6. \A s : Newest(s)' <=> Newest(s)
    BY <1>4 DEF Newest
  <2>7. /\ \A j, k \in DOMAIN cHist : j < k => cHist[j][2] < cHist[k][2]
        /\ session # NoSession => cHist # <<>> /\ session = cHist[Len(cHist)]
    BY DEF IInv, ClientOrder
  <2>8. pc'["net"] = "install" => got' \in SessionIds /\ got'[2] < nextR' /\ Newest(got)'
    BY <1>1, <1>4, <2>3 DEF Newest
  <2> QED BY <1>1, <1>4, <2>2, <2>4, <2>5, <2>6, <2>7, <2>8 DEF ClientOrder
<1>18. ServerOrder'
  <2>1. ASSUME NEW i \in DOMAIN staged', NEW j \in DOMAIN staged', i < j
        PROVE  staged'[i][2] < staged'[j][2]
    <3>1. i \in 1 .. L - h /\ staged'[i] = staged[i + h] /\ i + h \in DOMAIN staged
      BY <1>5, <1>6, <1>8, <2>1
    <3>2. CASE j \in 1 .. L - h
      <4>1. staged'[j] = staged[j + h] /\ j + h \in DOMAIN staged /\ i + h < j + h
        <5>1. i + h < j + h
          BY <1>6, <2>1, <3>1, <3>2
        <5> QED BY <1>5, <1>8, <3>2, <5>1
      <4> QED BY <3>1, <4>1 DEF IInv, ServerOrder
    <3>3. CASE j = L - h + 1
      BY <1>3, <1>5, <1>10, <3>1, <3>3
    <3> QED BY <1>9, <3>2, <3>3
  <2>2. ASSUME NEW j \in DOMAIN staged' PROVE staged'[j][2] + Len(staged') - j < nextR'
    <3>1. CASE j \in 1 .. L - h
      <4>1. staged'[j] = staged[j + h] /\ staged[j + h][2] + L - (j + h) < nextR
        BY <1>5, <1>8, <1>10, <3>1
      <4>2. staged[j + h][2] \in Nat /\ Len(staged') = L - h + 1
        BY <1>5, <1>6, <1>7, <1>8, <3>1
      <4>3. nextR' = nextR + 1 /\ nextR \in Nat /\ L \in Nat /\ h \in {0, 1} /\ j \in Int
        BY <1>1, <1>5, <1>6, <3>1
      <4>4. \A x, l, g, i, r \in Int : x + l - (i + g) < r => x + (l - g + 1) - i < r + 1
        OBVIOUS
      <4>5. staged[j + h][2] + (L - h + 1) - j < nextR + 1
        BY <4>1, <4>2, <4>3, <4>4
      <4> QED BY <4>1, <4>2, <4>3, <4>5
    <3>2. CASE j = L - h + 1
      BY <1>1, <1>3, <1>5, <1>6, <3>2
    <3> QED BY <1>9, <3>1, <3>2
  <2>3. \A i \in DOMAIN sHist : sHist[i][2] < nextR
    <3>1. \A i \in DOMAIN sHist : Installed(sHist[i])
      BY DEF IInv, ServerOrder
    <3> QED BY <1>16, <3>1 DEF Installed
  <2>4. ASSUME NEW i \in DOMAIN sHist, NEW j \in DOMAIN staged'
        PROVE  sHist[i][2] < staged'[j][2]
    <3>1. CASE j \in 1 .. L - h
      BY <1>5, <1>8, <3>1 DEF IInv, ServerOrder
    <3>2. CASE j = L - h + 1
      BY <1>3, <1>5, <2>3, <3>2
    <3> QED BY <1>9, <3>1, <3>2
  <2>5. \A o \in net' : o.t = Up => Installed(o.s)'
    BY <1>4 DEF IInv, ServerOrder, Installed, RespMsg, Up
  <2>6. /\ \A j, k \in DOMAIN sHist : j < k => sHist[j][2] < sHist[k][2]
        /\ \A k \in DOMAIN sHist : Installed(sHist[k])
        /\ sSession # NoSession => \E k \in DOMAIN sHist : sHist[k] = sSession
    BY DEF IInv, ServerOrder
  <2>7. (\A k \in DOMAIN sHist : Installed(sHist[k]))'
    BY <1>4, <2>6 DEF Installed
  <2> QED BY <1>4, <2>1, <2>2, <2>4, <2>5, <2>6, <2>7 DEF ServerOrder
<1>19. ASSUME NEW s \in SessionIds, Kept(s) PROVE Kept(s)'
  <2>1. gone \subseteq gone' /\ sSession' = sSession
    BY <1>4, <1>5
  <2>2. ASSUME NEW j \in DOMAIN staged, staged[j] = s PROVE Kept(s)'
    <3>1. CASE j > h
      <4>1. j - h \in 1 .. L - h /\ (j - h) + h = j /\ j - h \in DOMAIN staged'
        BY <1>5, <1>6, <3>1
      <4>2. staged'[j - h] = s
        BY <1>5, <2>2, <4>1
      <4> QED BY <4>1, <4>2 DEF Kept
    <3>2. CASE j <= h
      <4>1. h = 1 /\ j = 1
        BY <1>6, <3>2
      <4>2. s[2] \in gone'
        BY <1>5, <2>2, <4>1
      <4> QED BY <4>2 DEF Kept
    <3> QED BY <1>6, <3>1, <3>2
  <2> QED BY <1>19, <2>1, <2>2 DEF Kept
<1>20. Known'
  <2>1. Kept(new)'
    <3>1. L - h + 1 \in DOMAIN staged'
      BY <1>5, <1>6
    <3>2. \E k \in DOMAIN staged' : staged'[k] = new
      BY <1>5, <3>1
    <3> QED BY <3>2 DEF Kept
  <2>2. ASSUME NEW s \in SessionIds, (Answer(s) \/ Installed(s))' PROVE Kept(s)'
    <3>1. Answer(s) \/ Installed(s) \/ s = new
      BY <1>4, <1>14, <2>2 DEF Installed
    <3>2. CASE s = new
      BY <2>1, <3>2
    <3>3. CASE Answer(s) \/ Installed(s)
      BY <1>19, <3>3 DEF IInv, Known
    <3> QED BY <3>1, <3>2, <3>3
  <2>3. ASSUME pc'["net"] = "install" PROVE Kept(got)'
    <3>1. got \in SessionIds /\ Kept(got) /\ got' = got
      BY <1>4, <2>3 DEF IInv, ClientOrder, Known
    <3> QED BY <1>19, <3>1 DEF Kept
  <2> QED BY <2>2, <2>3 DEF Known
<1>21. Ring'
  <2>1. gone' \subseteq 1 .. nextR' - 1
    <3>1. gone \subseteq 1 .. nextR - 1
      BY DEF IInv, Ring
    <3>2. h = 1 => 1 \in DOMAIN staged
      BY <1>5, <1>6
    <3>3. h = 1 => staged[1][2] \in 1 .. nextR
      BY <1>1, <1>6, <1>10, <3>2, SessionTypes DEF Answers
    <3>4. gone' \subseteq 1 .. nextR
      <4>1. gone \subseteq 1 .. nextR
        BY <1>1, <3>1
      <4> QED BY <1>5, <3>3, <4>1
    <3> QED BY <1>1, <3>4
  <2>2. nextR \notin gone'
    <3>1. nextR \notin gone
      BY <1>1 DEF IInv, Ring
    <3>2. h = 1 => staged[1][2] < nextR /\ staged[1][2] \in Nat
      BY <1>5, <1>6, <1>7, <1>10
    <3> QED BY <1>1, <1>5, <3>1, <3>2
  <2> SUFFICES ASSUME NEW k \in 1 .. CacheSize, cache'[k] # NoSession
               PROVE  cache'[k][2] = nextR' - Age(k)' /\ cache'[k][2] \notin gone'
    BY <2>1 DEF Ring
  <2>3. CASE k = cacheNext
    <3>1. cache'[k] = new
      BY <1>1, <1>11, <2>3 DEF Types
    <3>2. Age(k)' = 1
      BY <1>11, <1>12, <2>3, BoundTypes DEF Age
    <3> QED BY <1>1, <1>3, <2>2, <3>1, <3>2
  <2>4. CASE k # cacheNext
    <3>1. cache'[k] = cache[k]
      BY <1>1, <1>11, <2>4 DEF Types
    <3>2. Age(k)' = Age(k) + 1 /\ Age(k) \in 1 .. CacheSize - 1
      BY <1>11, <1>12, <2>4, BoundTypes DEF Age
    <3>3. cache[k][2] = nextR - Age(k) /\ cache[k][2] \notin gone
      BY <2>4, <3>1 DEF IInv, Ring
    <3>4. h = 1 => cache[k][2] # staged[1][2]
      <4> SUFFICES ASSUME h = 1 PROVE cache[k][2] # staged[1][2]
        OBVIOUS
      <4>1. L >= MaxStaged /\ 1 \in DOMAIN staged
        BY <1>5, <1>6
      <4>2. staged[1][2] + L - 1 < nextR /\ staged[1][2] \in Nat
        BY <1>6, <1>7, <1>10, <4>1
      <4> QED BY <1>1, <1>6, <3>2, <3>3, <4>1, <4>2, BoundTypes, CacheAssumption
    <3>5. cache'[k][2] = nextR' - Age(k)'
      BY <1>1, <3>1, <3>2, <3>3, BoundTypes
    <3> QED BY <1>5, <3>1, <3>3, <3>4, <3>5
  <2> QED BY <2>3, <2>4
<1>22. TakenUp'
  <2> SUFFICES ASSUME NEW s \in SessionIds, NEW n \in 1 .. MaxSeq
               PROVE  /\ taken[Up][<<s, n>>] <= 1
                      /\ s = sSession => (taken[Up][<<s, n>>] = 1 <=> n \in sRp)
                      /\ (s[2] >= nextR' \/ \E k \in DOMAIN staged' : staged'[k] = s)
                           => taken[Up][<<s, n>>] = 0
    BY <1>4 DEF TakenUp
  <2>1. /\ taken[Up][<<s, n>>] <= 1
        /\ s = sSession => (taken[Up][<<s, n>>] = 1 <=> n \in sRp)
        /\ (s[2] >= nextR \/ \E k \in DOMAIN staged : staged[k] = s) => taken[Up][<<s, n>>] = 0
    BY DEF IInv, TakenUp
  <2>2. s[2] >= nextR' => s[2] >= nextR
    BY <1>1, <1>7
  <2>3. ASSUME NEW k \in DOMAIN staged', staged'[k] = s
        PROVE  s[2] >= nextR \/ \E j \in DOMAIN staged : staged[j] = s
    BY <1>1, <1>3, <1>5, <1>8, <1>9, <2>3
  <2> QED BY <2>1, <2>2, <2>3
<1>23. TakenDown'
  BY <1>4 DEF IInv, TakenDown, Installed
<1> QED BY <1>13, <1>15, <1>17, <1>18, <1>20, <1>21, <1>22, <1>23 DEF IInv

\* The server comes back with nothing: whatever it had answered with is gone.
LEMMA RestartInvariant == ASSUME IInv, SrvRestart PROVE IInv'
<1>1. Types /\ nextR \in Nat
  BY BoundTypes DEF IInv, Types
<1>2. /\ UNCHANGED <<session, ci, eph, nextI, pc, rp, got, cHist, nextR, sHist, net, sent, taken>>
      /\ sSession' = NoSession /\ staged' = <<>> /\ cacheNext' = 1
      /\ cache' = [k \in 1 .. CacheSize |-> NoSession] /\ gone' = gone \union (1 .. nextR - 1)
  BY DEF SrvRestart, clientVars, shared, sendVars, netVars
<1>3. /\ staged' \in Seq(SessionIds) /\ DOMAIN staged' = {}
      /\ cache' \in [1 .. CacheSize -> Sessions] /\ cacheNext' \in 1 .. CacheSize
      /\ \A k \in 1 .. CacheSize : cache'[k] = NoSession
  BY <1>2, BoundTypes DEF Sessions
<1>4. Types'
  BY <1>1, <1>2, <1>3 DEF Types, Sessions
<1>5. \A s \in SessionIds : Answer(s)' => Answer(s)
  BY <1>2, <1>3, SessionTypes DEF Answer
<1>6. Fresh'
  <2>1. \A i \in Ephemerals : Unsent(i) => Unsent(i)'
    BY <1>2, <1>5 DEF Unsent
  <2> QED BY <1>2, <2>1 DEF IInv, Fresh
<1>7. ClientOrder'
  BY <1>2, <1>5 DEF IInv, ClientOrder, Newest
<1>8. ServerOrder'
  BY <1>2, <1>3 DEF IInv, ServerOrder, Installed
<1>9. Known'
  <2>1. ASSUME NEW s \in SessionIds, s[2] < nextR PROVE Kept(s)'
    <3>1. s[2] \in 1 .. nextR - 1
      BY <1>1, <2>1, SessionTypes DEF Answers
    <3> QED BY <1>2, <3>1 DEF Kept
  <2>2. \A s \in SessionIds : (Answer(s) \/ Installed(s)) => s[2] < nextR
    BY DEF IInv, ClientOrder, Installed
  <2>3. \A s \in SessionIds : (Answer(s) \/ Installed(s))' => Kept(s)'
    BY <1>2, <1>5, <2>1, <2>2 DEF Installed
  <2>4. ASSUME pc'["net"] = "install" PROVE Kept(got)'
    <3>1. got \in SessionIds /\ got[2] < nextR /\ got' = got
      BY <1>2, <2>4 DEF IInv, ClientOrder
    <3> QED BY <2>1, <3>1 DEF Kept
  <2> QED BY <2>3, <2>4 DEF Known
<1>10. Ring'
  BY <1>2, <1>3 DEF IInv, Ring
<1>11. TakenUp'
  BY <1>2, <1>3, SessionTypes DEF IInv, TakenUp
<1>12. TakenDown'
  BY <1>2 DEF IInv, TakenDown, Installed
<1> QED BY <1>4, <1>6, <1>7, <1>8, <1>9, <1>10, <1>11, <1>12 DEF IInv

----------------------------------------------------------------------------
(* The invariant and what follows from it.                                 *)

\* Every step keeps the invariant.
LEMMA StepInvariant == IInv /\ [Next]_vars => IInv'
<1> SUFFICES ASSUME IInv, [Next]_vars PROVE IInv'
  OBVIOUS
<1>1. CASE UNCHANGED vars
  <2>1. UNCHANGED <<session, ci, eph, nextI, pc, rp, got, cHist, sSession, sRp, staged, cache,
                    cacheNext, nextR, sHist, gone, net, sent, taken>>
    BY <1>1 DEF vars, clientVars, shared, sendVars, netVars, serverVars
  <2>2. \A s \in SessionIds : Answer(s)' => Answer(s)
    BY <2>1, NoNewAnswer
  <2>3. Types'
    BY <2>1 DEF IInv, Types
  <2>4. Quiet
    BY <2>1, <2>2, <2>3 DEF Quiet
  <2> QED BY <2>4, QuietInvariant
<1>2. CASE LoopNext
  <2>1. CASE LoopInit
    BY <2>1, LoadInvariant DEF LoopInit
  <2>2. CASE LoopInitStore
    BY <2>2, StoreInvariant DEF LoopInitStore
  <2> QED BY <1>2, <2>1, <2>2, LoopQuiet, QuietInvariant DEF LoopNext
<1>3. CASE TunCheck \/ TunFrame
  BY <1>3, TunQuiet, QuietInvariant
<1>4. CASE Rehandshake \/ UsePort \/ LandPeerHard \/ CmdNext
  <2>1. CASE CmdInit
    BY <2>1, LoadInvariant DEF CmdInit
  <2>2. CASE CmdInitStore
    BY <2>2, StoreInvariant DEF CmdInitStore
  <2> QED BY <1>4, <2>1, <2>2, CmdQuiet, QuietInvariant DEF CmdNext
<1>5. CASE NetNext
  BY <1>5, NetQuiet, NetInstallInvariant, QuietInvariant DEF NetNext
<1>6. CASE SrvTun \/ SrvRestart
  BY <1>6, WireQuiet, RestartInvariant, QuietInvariant
<1>7. ASSUME NEW m \in net, \/ NetOpen(m) \/ NetResp(m)
                            \/ SrvFrame(m) \/ SrvInitAgain(m) \/ SrvInitNew(m)
                            \/ Lose(m)
      PROVE  IInv'
  <2>1. CASE NetOpen(m) \/ NetResp(m)
    BY <2>1, NetOpenInvariant, NetRespInvariant
  <2>2. CASE SrvFrame(m)
    <3>1. SrvOpen(m) \/ SrvPromote(m)
      BY <2>2 DEF SrvFrame
    <3> QED BY <2>2, <3>1, OpenInvariant, PromoteInvariant
  <2>3. CASE SrvInitAgain(m) \/ Lose(m)
    BY <2>3, AgainQuiet, WireQuiet, QuietInvariant
  <2>4. CASE SrvInitNew(m)
    BY <2>4, InitNewInvariant
  <2> QED BY <1>7, <2>1, <2>2, <2>3, <2>4
<1> QED BY <1>1, <1>2, <1>3, <1>4, <1>5, <1>6, <1>7 DEF Next

\* The invariant holds throughout.
LEMMA SessionInvariant == Spec => []IInv
BY InitInvariant, StepInvariant, PTL DEF Spec

\* The guards' knowledge is exact, so nothing is delivered twice.
LEMMA IInvOnce == IInv => DeliveredOnce
<1> SUFFICES ASSUME IInv, NEW d \in {Up, Down}, NEW f \in DOMAIN taken[d]
             PROVE  taken[d][f] <= 1
  BY DEF DeliveredOnce
<1>1. f \in SessionIds \X (1 .. MaxSeq)
  BY DEF IInv, Types
<1>2. PICK s \in SessionIds, n \in 1 .. MaxSeq : f = <<s, n>>
  BY <1>1
<1> QED BY <1>2 DEF IInv, TakenUp, TakenDown

\* Both ends go through their sessions in the order of the server's ephemerals.
LEMMA IInvFollows == IInv => ServerFollowsClient
<1> SUFFICES ASSUME IInv PROVE ServerFollowsClient
  OBVIOUS
<1>1. /\ DOMAIN cHist = 1 .. Len(cHist) /\ Len(cHist) \in Nat
      /\ \A k \in DOMAIN cHist : cHist[k] \in SessionIds /\ cHist[k][2] \in Nat
  BY SessionTypes DEF IInv, Types, Answers
<1>2. \A j, k \in DOMAIN cHist : j < k => cHist[j][2] < cHist[k][2]
  BY DEF IInv, ClientOrder
<1>3. \A j, k \in DOMAIN cHist : cHist[j][2] < cHist[k][2] => j < k
  BY <1>1, <1>2
<1>4. Once(cHist)
  BY <1>1, <1>2 DEF Once
<1>5. \A k \in DOMAIN sHist : \E j \in DOMAIN cHist : cHist[j] = sHist[k]
  BY DEF IInv, ServerOrder, Installed
<1>6. \A k, l \in DOMAIN sHist : k < l => sHist[k][2] < sHist[l][2]
  BY DEF IInv, ServerOrder
<1> QED BY <1>3, <1>4, <1>5, <1>6 DEF ServerFollowsClient

\* What the server has moved past is older than what the client has installed, and the
\* client's session is the newest of that.
LEMMA IInvHeld == IInv => ClientSessionHeld
<1> SUFFICES ASSUME IInv, session # NoSession, session[2] \notin gone PROVE Held
  BY DEF ClientSessionHeld
<1>1. session \in SessionIds /\ Installed(session) /\ session = cHist[Len(cHist)]
  BY DEF IInv, Types, Sessions, ClientOrder, Installed
<1>2. Kept(session)
  BY <1>1 DEF IInv, Known
<1>3. ~(session[2] < sSession[2])
  <2> SUFFICES ASSUME session[2] < sSession[2] PROVE FALSE
    OBVIOUS
  <2>1. session[2] \in Nat
    BY <1>1, SessionTypes DEF Answers
  <2>2. sSession # NoSession
    BY <2>1, SessionTypes
  <2>3. PICK k \in DOMAIN cHist : cHist[k] = sSession
    BY <2>2 DEF IInv, ServerOrder, Installed
  <2>4. Len(cHist) \in DOMAIN cHist /\ Len(cHist) \in Nat /\ k \in 1 .. Len(cHist)
    <3>1. cHist \in Seq(SessionIds)
      BY DEF IInv, Types
    <3>2. DOMAIN cHist = 1 .. Len(cHist) /\ Len(cHist) \in Nat
      BY <3>1, LenProperties
    <3> QED BY <2>3, <3>2
  <2>5. CASE k = Len(cHist)
    BY <1>1, <2>1, <2>3, <2>5
  <2>6. CASE k < Len(cHist)
    <3>1. cHist[k][2] < cHist[Len(cHist)][2]
      BY <2>4, <2>6 DEF IInv, ClientOrder
    <3>2. sSession[2] \in Nat
      BY <2>2, SessionTypes DEF IInv, Types, Sessions, Answers
    <3> QED BY <1>1, <2>1, <2>3, <3>1, <3>2
  <2> QED BY <2>4, <2>5, <2>6
<1> QED BY <1>2, <1>3 DEF Kept, Held

\* An answer to the handshake in flight is newer than what the server promoted, and the
\* cache has let go of it when a restart or the limit takes its session.
LEMMA IInvUsable == IInv => CachedAnswerUsable
<1> SUFFICES ASSUME IInv, ci # Nil, pc["net"] # "wipe", staged # <<>>, Cached(ci) # {}
             PROVE  \E k \in DOMAIN staged : staged[k] = CacheGet(ci)
  BY DEF CachedAnswerUsable
<1>1. ci \in Ephemerals
  BY BoundTypes DEF IInv, Types, Nil, Ephemerals
<1>2. PICK k \in 1 .. CacheSize : /\ CacheGet(ci) = cache[k] /\ cache[k] \in SessionIds
                                  /\ cache[k] = <<ci, CacheGet(ci)[2]>>
  BY <1>1, CacheGetCached DEF IInv
<1> DEFINE s == cache[k]
<1>3. s \in SessionIds /\ s[1] = ci /\ s # NoSession /\ s[2] \in Nat
  BY <1>2, SessionTypes DEF Answers
<1>4. Answer(s)
  BY DEF Answer
<1>5. Kept(s) /\ s[2] \notin gone /\ Newest(s)
  BY <1>3, <1>4 DEF IInv, Known, Ring, ClientOrder
<1>6. sSession # NoSession => sSession[2] < s[2] /\ sSession[2] \in Nat
  <2>1. sSession # NoSession => Installed(sSession)
    BY DEF IInv, ServerOrder
  <2>2. sSession # NoSession => sSession \in SessionIds
    BY DEF IInv, Types, Sessions
  <2>3. Installed(sSession) => sSession[2] < s[2]
    BY <1>5 DEF Installed, Newest
  <2>4. sSession # NoSession => sSession[2] \in Nat
    BY <2>2, SessionTypes DEF Answers
  <2> QED BY <2>1, <2>3, <2>4
<1>7. s # sSession /\ ~(s[2] < sSession[2])
  BY <1>3, <1>6, SessionTypes
<1> QED BY <1>2, <1>5, <1>7 DEF Kept

\* No frame is delivered twice at either end (replayGuard and the sessions it is renewed
\* with, udp.go and raw_linux.go: handleCrypto, tryHandshake), however the network loses,
\* repeats and reorders, for either carrier and any number of handshakes and frames.
THEOREM FramesOnce == Spec => []DeliveredOnce
BY SessionInvariant, IInvOnce, PTL

\* The server only moves to sessions the client installed, and in the client's order
\* (handleCrypto promoting a staged session, udp.go and raw_linux.go).
THEOREM ServerFollows == Spec => []ServerFollowsClient
BY SessionInvariant, IInvFollows, PTL

\* The session the client seals under is the server's or staged there, unless a restart or a
\* full staged set lost it (stageSession, udp.go).
THEOREM ClientHeld == Spec => []ClientSessionHeld
BY SessionInvariant, IInvHeld, PTL

\* While the client waits, an answer that initCache (initcache.go) would give again is for
\* a session that is still staged.
THEOREM CacheUsable == Spec => []CachedAnswerUsable
BY SessionInvariant, IInvUsable, PTL

\* The four together, as the run of the raw carrier checks them.
THEOREM SessionsStaySound == Spec => []SessionsSound
<1>1. IInv => SessionsSound
  BY IInvOnce, IInvFollows, IInvHeld, IInvUsable DEF SessionsSound
<1> QED BY <1>1, SessionInvariant, PTL
=============================================================================
