---------------------------- MODULE SessionLayer ----------------------------
(***************************************************************************)
(* The session layer of the two datagram carriers with encryption on: UDP  *)
(* (internal/packet/udp.go) and raw (internal/packet/raw_linux.go), which   *)
(* run the same handshake, with initcache.go on the server side.  One      *)
(* client, one server, and a network that loses, duplicates and reorders   *)
(* datagrams.                                                              *)
(*                                                                         *)
(* The client is four goroutines that share the atomic pointers session and *)
(* ci (the ephemeral of the handshake in flight) and, on raw, the flag      *)
(* unanswered: clientLoop, netToTun, cmdPollLoop and tunToNet.  Each action *)
(* makes at most one access to a variable another goroutine writes, so the *)
(* goroutines interleave as the Go memory model allows.  The server handles *)
(* one datagram at a time (rxMu on UDP, the one receive loop on raw), so    *)
(* its handler is one action; its session is never taken back, which makes *)
(* its own tunToNet a single step too.                                     *)
(*                                                                         *)
(* A session is the pair <<i, r>> of the client's and the server's         *)
(* ephemerals that SessionSealer derives its keys from, and only the two   *)
(* holders of the pair can open its frames.  Handshake messages are their  *)
(* ephemerals: InitMsg is a function of the ephemeral, so a retransmission  *)
(* is byte for byte the same datagram and hits the server's cache.  A       *)
(* replay guard is the set of numbers it accepted, which ReplayGuard shows  *)
(* it to be while a session's frames stay within one window.               *)
(***************************************************************************)
EXTENDS Integers, Sequences, FiniteSets

CONSTANTS Carrier,     \* "udp" or "raw"
          MaxInit,     \* bound on the client's ephemerals; past it GenerateEphemeral fails
          MaxResp,     \* bound on the server's ephemerals
          MaxSeq,      \* bound on the frames each end sends in one session
          MaxStaged,   \* maxStaged
          CacheSize,   \* initCacheSize
          Disturbances \* bounds, of which a behaviour has one: how many datagrams the
                       \* network may lose, how often the server process may restart, the
                       \* client land on another address or port, and a fail verdict come
                       \* while the path is alive

ASSUME CarrierAssumption == Carrier \in {"udp", "raw"}
ASSUME BoundsAssumption ==
  /\ {MaxInit, MaxResp, MaxSeq, MaxStaged, CacheSize} \subseteq Nat \ {0}
  /\ Disturbances \subseteq [loss : Nat, restart : Nat, land : Nat, verdict : Nat]
ASSUME CacheAssumption == CacheSize <= MaxStaged    \* the two are equal in the code

VARIABLES session, ci, rp,        \* the client's UDP.session, UDP.ci and UDP.rp
          unanswered,             \* Raw.unanswered: nothing came back on the new tuple yet
          pc,                     \* where each goroutine of the client is
          eph,                    \* the ephemeral a goroutine generated and not yet stored
          got,                    \* the session netToTun is about to install
          sSession, sRp, staged,  \* the server's UDP.session, UDP.rp and UDP.staged
          cache, cacheNext,       \* the server's initCache
          net,                    \* datagrams that may still arrive, any number of times
          sent,                   \* frames sealed so far: per session and direction
          nextI, nextR,           \* the next ephemeral each end draws
          left,                   \* what remains of the bounded disturbances
          cHist, sHist,           \* history: the sessions each end installed, in order
          taken,                  \* history: how often each frame was delivered, per direction
          gone,                   \* history: server ephemerals lost to a restart or an eviction
          bare                    \* history: a frame was built without a sealer

shared == <<session, ci, unanswered>>       \* what the goroutines share
sendVars == <<eph, nextI>>                   \* what sendInit touches besides ci
netVars == <<rp, got, cHist>>                \* what only netToTun touches
clientVars == <<shared, sendVars, netVars, pc, bare>>
serverVars == <<sSession, sRp, staged, cache, cacheNext, nextR, sHist, gone>>
wire == <<net, sent, bare>>                  \* what sending a frame touches
vars == <<clientVars, serverVars, net, sent, left, taken>>

Nil == 0                        \* a nil ci
NoSession == <<0, 0>>           \* a nil session
Ephemerals == 1 .. MaxInit
Answers == 1 .. MaxResp
SessionIds == Ephemerals \X Answers
Up == "up"                      \* client to server
Down == "down"                  \* server to client

InitMsg(i) == [t |-> "init", i |-> i]
RespMsg(i, r) == [t |-> "resp", i |-> i, r |-> r]
Frame(dir, s, n) == [t |-> dir, s |-> s, n |-> n]

Go(g, label) == pc' = [pc EXCEPT ![g] = label]

----------------------------------------------------------------------------
Init ==
  /\ session = NoSession /\ ci = Nil /\ rp = {} /\ unanswered = FALSE
  /\ pc = [g \in {"loop", "net", "cmd", "tun"} |-> "idle"]
  /\ eph = [g \in {"loop", "cmd"} |-> Nil]
  /\ got = NoSession
  /\ sSession = NoSession /\ sRp = {} /\ staged = <<>>
  /\ cache = [k \in 1 .. CacheSize |-> NoSession] /\ cacheNext = 1
  /\ net = {}
  /\ sent = [d \in {Up, Down} |-> [s \in SessionIds |-> 0]]
  /\ nextI = 1 /\ nextR = 1
  /\ left \in Disturbances
  /\ cHist = <<>> /\ sHist = <<>>
  /\ taken = [d \in {Up, Down} |-> [f \in SessionIds \X (1 .. MaxSeq) |-> 0]]
  /\ gone = {}
  /\ bare = FALSE

\* writeOwned, or the ping and pong that dispatch consumes.
Take(m) == taken' = [taken EXCEPT ![m.t][<<m.s, m.n>>] = @ + 1]

Spend(what) == left[what] > 0 /\ left' = [left EXCEPT ![what] = @ - 1]

----------------------------------------------------------------------------
(* Sealing.  frame loads the session again and seals under it; without one *)
(* it builds the frame in the clear (or, with obfuscation, calls a nil     *)
(* sealer).  The other end drops a frame in the clear.                     *)

FrameOut ==
  \/ /\ session # NoSession
     /\ sent[Up][session] < MaxSeq
     /\ sent' = [sent EXCEPT ![Up][session] = @ + 1]
     /\ net' = net \union {Frame(Up, session, sent[Up][session] + 1)}
     /\ UNCHANGED bare
  \/ /\ session # NoSession
     /\ sent[Up][session] = MaxSeq      \* the bound
     /\ UNCHANGED <<sent, net, bare>>
  \/ /\ session = NoSession
     /\ bare' = TRUE
     /\ UNCHANGED <<sent, net>>

----------------------------------------------------------------------------
(* sendInit, run by clientLoop and by rehandshake on cmdPollLoop.  Storing *)
(* the ephemeral and sending it is one action: the datagram is in the      *)
(* network from then on, and no other goroutine reads what is sent.        *)

SendInitLoad(g, done) ==
  \/ /\ ci # Nil
     /\ net' = net \union {InitMsg(ci)}
     /\ Go(g, done)
     /\ UNCHANGED <<eph, nextI>>
  \/ /\ ci = Nil
     /\ nextI <= MaxInit
     /\ eph' = [eph EXCEPT ![g] = nextI]
     /\ nextI' = nextI + 1
     /\ Go(g, "store")
     /\ UNCHANGED net
  \/ /\ ci = Nil
     /\ nextI > MaxInit                 \* GenerateEphemeral fails
     /\ Go(g, done)
     /\ UNCHANGED <<eph, nextI, net>>

SendInitStore(g, done) ==
  /\ pc[g] = "store"
  /\ ci' = eph[g]
  /\ net' = net \union {InitMsg(eph[g])}
  /\ eph' = [eph EXCEPT ![g] = Nil]
  /\ Go(g, done)

----------------------------------------------------------------------------
(* clientLoop.  The wait at the end of a round is a timer, so the next     *)
(* round may start at any time.                                            *)

LoopOnly == UNCHANGED <<shared, sendVars, netVars, wire, serverVars, left, taken>>

\* Mutant of LoopAsk: a handshake in flight is not asked for again while the old
\* session is still there.
LoopAskOnce ==
  /\ pc["loop"] = "idle"
  /\ Go("loop", IF session = NoSession THEN "init" ELSE "ping")
  /\ LoopOnly

\* handshakeOutstanding, its first half: is there a session?
LoopAsk ==
  /\ pc["loop"] = "idle"
  /\ Go("loop", IF session = NoSession THEN "init" ELSE "ask")
  /\ LoopOnly

\* handshakeOutstanding, its second half: is there a handshake in flight?
LoopAskCi ==
  /\ pc["loop"] = "ask"
  /\ Go("loop", IF ci # Nil THEN "init" ELSE IF Carrier = "raw" THEN "heard" ELSE "ping")
  /\ LoopOnly

\* Mutant of LoopAskHeard: a silent new tuple is not a reason to knock.
LoopAskNever ==
  /\ pc["loop"] = "heard"
  /\ Go("loop", "ping")
  /\ LoopOnly

\* mustKnock on raw asks one thing more.
LoopAskHeard ==
  /\ pc["loop"] = "heard"
  /\ Go("loop", IF unanswered THEN "init" ELSE "ping")
  /\ LoopOnly

LoopInit ==
  /\ pc["loop"] = "init"
  /\ SendInitLoad("loop", "ping")
  /\ UNCHANGED <<shared, netVars, bare, serverVars, sent, left, taken>>

LoopInitStore ==
  /\ SendInitStore("loop", "ping")
  /\ UNCHANGED <<session, unanswered, nextI, netVars, bare, serverVars, sent, left, taken>>

\* The guard before the ping: no session, no ping.
LoopPing ==
  /\ pc["loop"] = "ping"
  /\ Go("loop", IF session = NoSession THEN "idle" ELSE "frame")
  /\ LoopOnly

LoopFrame ==
  /\ pc["loop"] = "frame"
  /\ FrameOut
  /\ Go("loop", "idle")
  /\ UNCHANGED <<shared, sendVars, netVars, serverVars, left, taken>>

----------------------------------------------------------------------------
(* tunToNet: one packet checks for a session and is framed; the packets    *)
(* batched behind it are framed without another check.                     *)

TunCheck ==
  /\ pc["tun"] = "idle"
  /\ session # NoSession
  /\ Carrier = "raw" => ~unanswered
  /\ Go("tun", "frame")
  /\ UNCHANGED <<shared, sendVars, netVars, wire, serverVars, left, taken>>

TunFrame ==
  /\ pc["tun"] = "frame"
  /\ FrameOut
  /\ \E next \in {"idle", "frame"} : Go("tun", next)
  /\ UNCHANGED <<shared, sendVars, netVars, serverVars, left, taken>>

----------------------------------------------------------------------------
(* cmdPollLoop: a fail verdict asks for a new handshake (rehandshake); a    *)
(* move to another address or port lands there, and drops the session when *)
(* the move is a hard one.                                                 *)

\* Both ends are on one session.
PathAlive == session # NoSession /\ session = sSession

\* The server can open what the client seals.
Held == session # NoSession
          /\ (session = sSession \/ \E k \in DOMAIN staged : staged[k] = session)

CmdRest == UNCHANGED <<sendVars, netVars, wire, serverVars, taken>>

\* A verdict comes because the path carries nothing, or (left.verdict times) because
\* the prober is wrong.
Rehandshake ==
  /\ pc["cmd"] = "idle"
  /\ \/ session # NoSession /\ ci = Nil /\ ~Held /\ UNCHANGED left
     \/ Spend("verdict")
  /\ ci' = Nil
  /\ Go("cmd", "init")
  /\ CmdRest /\ UNCHANGED <<session, unanswered>>

CmdInit ==
  /\ pc["cmd"] = "init"
  /\ SendInitLoad("cmd", "idle")
  /\ UNCHANGED <<shared, netVars, bare, serverVars, sent, left, taken>>

CmdInitStore ==
  /\ SendInitStore("cmd", "idle")
  /\ UNCHANGED <<session, unanswered, nextI, netVars, bare, serverVars, sent, left, taken>>

\* usePort on raw: a new tuple, on which nothing was heard yet ...
UsePort ==
  /\ Carrier = "raw"
  /\ pc["cmd"] = "idle"
  /\ Spend("land")
  /\ unanswered' = TRUE
  /\ Go("cmd", "tuple")
  /\ CmdRest /\ UNCHANGED <<session, ci>>

\* ... and no handshake in flight.  freshTuple of a soft move ends here, rollSourcePort
\* goes on to sendInit, landPeerRaw goes on to drop the session when hard.
UsePortCi ==
  /\ pc["cmd"] = "tuple"
  /\ ci' = Nil
  /\ \E next \in {"idle", "init", "drop"} : Go("cmd", next)
  /\ CmdRest /\ UNCHANGED <<session, unanswered, left>>

\* landPeerUDP and landPeerRaw, hard: the session is dropped, then the handshake.
LandPeerHard ==
  /\ \/ Carrier = "udp" /\ pc["cmd"] = "idle" /\ Spend("land")
     \/ pc["cmd"] = "drop" /\ UNCHANGED left
  /\ session' = NoSession
  /\ Go("cmd", "land")
  /\ CmdRest /\ UNCHANGED <<ci, unanswered>>

LandPeerCi ==
  /\ pc["cmd"] = "land"
  /\ ci' = Nil
  /\ Go("cmd", "idle")
  /\ CmdRest /\ UNCHANGED <<session, unanswered, left>>

----------------------------------------------------------------------------
(* netToTun: one datagram.  A frame of the session that the guard accepts  *)
(* settles the handshake and is delivered; an answer to the handshake in   *)
(* flight installs its session; anything else is dropped.                  *)

NetRest == UNCHANGED <<sendVars, wire, serverVars, left>>
NetDone == IF Carrier = "raw" THEN "heard" ELSE "idle"

NetOpen(m) ==
  /\ pc["net"] = "idle"
  /\ m.t = Down
  /\ m.s = session
  /\ m.n \notin rp
  /\ rp' = rp \union {m.n}
  /\ Take(m)
  /\ Go("net", "settle")
  /\ NetRest /\ UNCHANGED <<shared, got, cHist>>

\* settleHandshake: load, then store only over something.
NetSettle ==
  /\ pc["net"] = "settle"
  /\ Go("net", IF ci = Nil THEN NetDone ELSE "wipe")
  /\ NetRest /\ UNCHANGED <<shared, netVars, taken>>

\* tryHandshake, client: the answer must be to the ephemeral in ci.
NetResp(m) ==
  /\ pc["net"] = "idle"
  /\ m.t = "resp"
  /\ m.i = ci
  /\ got' = <<m.i, m.r>>
  /\ Go("net", "install")
  /\ NetRest /\ UNCHANGED <<shared, rp, cHist, taken>>

\* The new session comes with an empty replay guard.
NetInstall ==
  /\ pc["net"] = "install"
  /\ rp' = {}
  /\ session' = got
  /\ got' = NoSession
  /\ cHist' = Append(cHist, got)
  /\ Go("net", "wipe")
  /\ NetRest /\ UNCHANGED <<ci, unanswered, taken>>

\* ci.Store(nil), at the end of settleHandshake and of tryHandshake.
NetWipe ==
  /\ pc["net"] = "wipe"
  /\ ci' = Nil
  /\ Go("net", NetDone)
  /\ NetRest /\ UNCHANGED <<session, unanswered, netVars, taken>>

\* Raw: something came back on this tuple.
NetHeard ==
  /\ pc["net"] = "heard"
  /\ unanswered' = FALSE
  /\ Go("net", "idle")
  /\ NetRest /\ UNCHANGED <<session, ci, netVars, taken>>

----------------------------------------------------------------------------
(* The server: handleCrypto under rxMu.                                    *)

\* A frame of the session, number not seen before.
SrvOpen(m) ==
  /\ m.t = Up
  /\ m.s = sSession
  /\ m.n \notin sRp
  /\ sRp' = sRp \union {m.n}
  /\ Take(m)
  /\ UNCHANGED <<sSession, staged, sHist>>

\* Mutants of Promote: the sessions staged before the promoted one stay; all staged
\* ones go; the staged guard is not taken over.
PromoteKeepsOlder(k, n) ==
  /\ sSession' = staged[k]
  /\ sRp' = {n}
  /\ staged' = SubSeq(staged, 1, k - 1) \o SubSeq(staged, k + 1, Len(staged))
PromoteClears(k, n) ==
  /\ sSession' = staged[k]
  /\ sRp' = {n}
  /\ staged' = <<>>
PromoteForgetsGuard(k, n) ==
  /\ sSession' = staged[k]
  /\ sRp' = {}
  /\ staged' = SubSeq(staged, k + 1, Len(staged))

\* A staged session whose frame arrives becomes the session, with its own guard,
\* and takes the ones staged before it away.  A staged guard is empty until then,
\* since the first frame it accepts is the one that promotes it.
Promote(k, n) ==
  /\ sSession' = staged[k]
  /\ sRp' = {n}
  /\ staged' = SubSeq(staged, k + 1, Len(staged))

SrvPromote(m) ==
  /\ m.t = Up
  /\ ~(m.s = sSession /\ m.n \notin sRp)
  /\ \E k \in DOMAIN staged :
       /\ staged[k] = m.s
       /\ \A j \in 1 .. k - 1 : staged[j] # m.s
       /\ Promote(k, m.n)
  /\ Take(m)
  /\ sHist' = Append(sHist, m.s)

\* dispatch: a ping is answered with a pong under the session, data goes to the
\* TUN device.  Which of the two a frame is, is left open.
SrvFrame(m) ==
  /\ SrvOpen(m) \/ SrvPromote(m)
  /\ \/ UNCHANGED <<net, sent>>
     \/ /\ sent[Down][sSession'] < MaxSeq
        /\ sent' = [sent EXCEPT ![Down][sSession'] = @ + 1]
        /\ net' = net \union {Frame(Down, sSession', sent[Down][sSession'] + 1)}
  /\ UNCHANGED <<clientVars, cache, cacheNext, nextR, gone, left>>

\* The server's tunToNet.
SrvTun ==
  /\ sSession # NoSession
  /\ sent[Down][sSession] < MaxSeq
  /\ sent' = [sent EXCEPT ![Down][sSession] = @ + 1]
  /\ net' = net \union {Frame(Down, sSession, sent[Down][sSession] + 1)}
  /\ UNCHANGED <<clientVars, serverVars, left, taken>>

\* initCache.get: the first slot that holds this Init.
Cached(i) == {k \in 1 .. CacheSize : cache[k][1] = i}
CacheGet(i) == cache[CHOOSE k \in Cached(i) : \A j \in Cached(i) : k <= j]

\* tryHandshake, server: a cached Init is answered again while anything is staged.
SrvInitAgain(m) ==
  /\ m.t = "init"
  /\ staged # <<>>
  /\ Cached(m.i) # {}
  /\ net' = net \union {RespMsg(m.i, CacheGet(m.i)[2])}
  /\ UNCHANGED <<clientVars, serverVars, sent, left, taken>>

\* Mutant of Full: the staged set is one entry smaller than the cache.
FullEarly == Len(staged) >= MaxStaged - 1

\* stageSession: len(box) >= maxStaged.
Full == Len(staged) >= MaxStaged

\* stageSession: the oldest of a full set is dropped.
StageSession(s) ==
  /\ staged' = Append(IF Full THEN Tail(staged) ELSE staged, s)
  /\ gone' = IF Full THEN gone \union {staged[1][2]} ELSE gone

\* initCache.put: the slots are a ring.
CachePut(s) ==
  /\ cache' = [cache EXCEPT ![cacheNext] = s]
  /\ cacheNext' = (cacheNext % CacheSize) + 1

\* tryHandshake, server: a new session is staged, its answer cached and sent.
SrvInitNew(m) ==
  /\ m.t = "init"
  /\ ~(staged # <<>> /\ Cached(m.i) # {})
  /\ nextR <= MaxResp                   \* the bound
  /\ StageSession(<<m.i, nextR>>)
  /\ CachePut(<<m.i, nextR>>)
  /\ nextR' = nextR + 1
  /\ net' = net \union {RespMsg(m.i, nextR)}
  /\ UNCHANGED <<clientVars, sSession, sRp, sHist, sent, left, taken>>

\* The server process dies and comes back with nothing.
SrvRestart ==
  /\ Spend("restart")
  /\ sSession' = NoSession
  /\ sRp' = {}
  /\ staged' = <<>>
  /\ cache' = [k \in 1 .. CacheSize |-> NoSession]
  /\ cacheNext' = 1
  /\ gone' = gone \union (1 .. nextR - 1)
  /\ UNCHANGED <<clientVars, nextR, sHist, net, sent, taken>>

\* A datagram is lost: it arrives no more unless it is sent again.  A frame is
\* lost only while its sender, who pings for ever, is within the bound.
Lose(m) ==
  /\ Spend("loss")
  /\ m.t \in {Up, Down} => sent[m.t][m.s] < MaxSeq
  /\ net' = net \ {m}
  /\ UNCHANGED <<clientVars, serverVars, sent, taken>>

----------------------------------------------------------------------------
LoopNext == LoopAsk \/ LoopAskCi \/ LoopAskHeard \/ LoopInit \/ LoopInitStore \/ LoopPing \/ LoopFrame
CmdNext == CmdInit \/ CmdInitStore \/ UsePortCi \/ LandPeerCi \/ (pc["cmd"] = "drop" /\ LandPeerHard)
NetNext == NetSettle \/ NetInstall \/ NetWipe \/ NetHeard

Next ==
  \/ LoopNext
  \/ TunCheck \/ TunFrame
  \/ Rehandshake \/ UsePort \/ LandPeerHard \/ CmdNext
  \/ NetNext
  \/ SrvTun \/ SrvRestart
  \/ \E m \in net : \/ NetOpen(m) \/ NetResp(m)
                    \/ SrvFrame(m) \/ SrvInitAgain(m) \/ SrvInitNew(m)
                    \/ Lose(m)

Spec == Init /\ [][Next]_vars

\* Goroutines are scheduled; the Init the client keeps sending arrives, and so do
\* an answer to it and a frame of its session; the prober notices a path that
\* carries nothing and asks for a new handshake.
Fairness ==
  /\ WF_vars(LoopNext) /\ WF_vars(CmdNext) /\ WF_vars(NetNext)
  /\ WF_vars(Rehandshake)
  /\ SF_vars(\E m \in net : m = InitMsg(ci) /\ (SrvInitAgain(m) \/ SrvInitNew(m)))
  /\ SF_vars(\E m \in net : NetResp(m))
  /\ SF_vars(\E m \in net : m.t = Up /\ m.s = session /\ SrvFrame(m))

FairSpec == Spec /\ Fairness

----------------------------------------------------------------------------
(* Properties.                                                             *)

Once(h) == \A j, k \in DOMAIN h : h[j] = h[k] => j = k

\* No frame is delivered twice, at either end, however the network repeats it and
\* however sessions come and go.
DeliveredOnce == \A d \in {Up, Down} : \A f \in DOMAIN taken[d] : taken[d][f] <= 1

\* The server only ever moves to a session the client installed, and to later ones:
\* a delayed frame of a session the client has left never takes the server back.
ServerFollowsClient ==
  /\ Once(cHist)
  /\ \A k \in DOMAIN sHist : \E j \in DOMAIN cHist : cHist[j] = sHist[k]
  /\ \A k, l \in DOMAIN sHist : \A i, j \in DOMAIN cHist :
       (k < l /\ cHist[i] = sHist[k] /\ cHist[j] = sHist[l]) => i < j

\* The session the client seals under is one the server can still open: it is the
\* server's session or staged there, unless a restart or a full staged set lost it.
ClientSessionHeld ==
  (session # NoSession /\ session[2] \notin gone) => Held

\* While the client waits for an answer, the cache never holds one for a session
\* the server has let go: what is resent can still be used.
CachedAnswerUsable ==
  (ci # Nil /\ pc["net"] # "wipe" /\ staged # <<>> /\ Cached(ci) # {})
    => \E k \in DOMAIN staged : staged[k] = CacheGet(ci)

\* The four together: frames, sessions and answers stay sound while a new tuple, a wrong
\* verdict and a loss fall into one another.
SessionsSound == DeliveredOnce /\ ServerFollowsClient /\ ClientSessionHeld /\ CachedAnswerUsable

\* A handshake is needed and a bound of the model, not the code, forbids it: the
\* client has no ephemeral left to ask with, or the server none to answer with.
Exhausted ==
  \/ /\ nextI > MaxInit /\ ci = Nil /\ got = NoSession /\ (~Held \/ unanswered)
     /\ \A g \in {"loop", "cmd"} : eph[g] = Nil
  \/ /\ nextR > MaxResp /\ ci # Nil
     /\ staged = <<>> \/ Cached(ci) = {}

\* However the losses, restarts, landings and verdicts fall, both ends are on the
\* same session again and again, unless a bound on ephemerals stopped them.
Reconverges == []<>(PathAlive \/ Exhausted)

\* After a move to a new tuple the raw client's data flows again: unanswered, which
\* stops tunToNet, is always cleared by what the knocking brings back.
DataResumes == []<>((PathAlive /\ ~unanswered) \/ Exhausted)

\* With encryption on no frame is ever built without a sealer: the guards of
\* tunToNet and send are there to see to it.
AlwaysSealed == ~bare
=============================================================================
