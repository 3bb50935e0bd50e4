------------------------------ MODULE Rotation ------------------------------
(***************************************************************************)
(* The rotation controller of a datagram carrier with a destination pool   *)
(* (low axis) and a source pool (high axis): rotationController, walkPolicy,*)
(* odometer, the port and session rungs and the revive clock (peer_pool.go, *)
(* odometer.go, portrung.go, revive.go), with the landing functions of the  *)
(* UDP carrier (udp.go), the path epoch (pathstate.go, core_status.go) and  *)
(* the node that probes the tunnel and leaves verdicts in a mailbox.        *)
(*                                                                         *)
(* proactive and poll run on one goroutine and all their calls that change  *)
(* the pools or the ladder are made from it, so each is one action; what    *)
(* runs beside it (the status writer, the path tracker, a new session       *)
(* arriving, the node, the operator) are actions of their own.              *)
(*                                                                         *)
(* Epochs only grow, so all that matters of the epoch in a status file or a *)
(* verdict is whether it is still the current one: fresh.  dirty says that  *)
(* the path changed since the tracker last sampled it; the next sample      *)
(* begins a new epoch, and what was fresh is not any more.  The history old *)
(* says that the path really changed since the status was written.          *)
(***************************************************************************)
EXTENDS PeerPool

CONSTANTS Sizes,          \* the sizes <<low, high>> of the pools that are explored
          PortTries,      \* portTries
          Revive,         \* ladderRevive, in ticks
          SessionRung,    \* whether rehandshake can act (encryption on)
          PortMayFail,    \* whether a port redraw may fail to bind
          BindMayFail,    \* whether a source may fail to bind
          MaxOutside,     \* timed rotations and operator's commands that are explored
          Good,           \* the pairs <<low, high>> that carry traffic
          MayMisjudge,    \* whether the node's verdicts may be wrong
          MaxTicks        \* ticks between two walks at most

ASSUME SizesAssumption == Sizes \subseteq (Nat \ {0}) \X (Nat \ {0})
ASSUME LadderAssumption ==
  /\ PortTries \in Nat \ {0}
  /\ Revive \in Seq(Nat \ {0}) /\ Revive # <<>>
ASSUME SwitchesAssumption ==
  {SessionRung, PortMayFail, BindMayFail, MayMisjudge} \subseteq BOOLEAN
ASSUME BoundsAssumption == {MaxOutside, MaxTicks} \subseteq Nat
ASSUME GoodAssumption == Good \subseteq Nat \X Nat

VARIABLES low, high,       \* the two pools
          od,              \* odometer [rot, want, tick]
          port, session,   \* rung.spent of the two rungs
          revive,          \* reviveClock [armed, wait, step]
          accused,         \* the pair the ladder climbs for, or NoPair
          claim,           \* rollTries > 0
          asked,           \* an Init is out, whose answer begins a session
          dirty,           \* the path is not the one the tracker last saw
          draft,           \* the pair a status writer has read, the epoch still to come
          snap,            \* the status the node has read
          mail,            \* the verdict in the mailbox
          bound,           \* the source the socket is bound to
          active,          \* the destination the carrier landed on (st.setActive)
          lost,            \* no source bound at the last landing, the socket kept its own
          ticks,           \* ticks since the last walk
          outside,         \* timed rotations and operator's commands so far
          spentFor         \* history: the pairs rungs were spent on since the last refill

walkVars == <<low, high, od, bound, active, lost, ticks>>
pathVars == <<dirty, draft, snap>>
ladder == <<od, port, session, revive, accused, spentFor>>
vars == <<low, high, ladder, claim, asked, pathVars, mail, bound, active, lost, ticks, outside>>

NoPair == <<-1, -1>>
Nothing == [low |-> -1, high |-> -1, fresh |-> FALSE, old |-> FALSE]
NoMail == [cmd |-> "none", about |-> Nothing]
AtRest == [armed |-> FALSE, wait |-> 0, step |-> 0]

Live == <<low.cur, high.cur>>

\* The sources of pool p that let themselves be bound at this moment.
Bindable(p) == IF BindMayFail THEN SUBSET DOMAIN p.rec ELSE {DOMAIN p.rec}

\* The start: SetSourcePool lands on the first source that binds.
Init ==
  \E n \in Sizes :
  /\ low = NewPool(n[1])
  /\ \E b \in Bindable(NewPool(n[2])) : LET landed == LandSource(NewPool(n[2]), b) IN
       /\ high = landed.pool
       /\ bound = IF landed.bound THEN landed.pool.live ELSE NoEntry
       /\ lost = ~landed.bound
  /\ od = [rot |-> 0, want |-> 0, tick |-> 0]
  /\ port = 0 /\ session = 0 /\ spentFor = {}
  /\ revive = AtRest
  /\ accused = NoPair
  /\ claim = FALSE /\ asked = TRUE
  /\ dirty = TRUE
  /\ draft = NoPair /\ snap = Nothing /\ mail = NoMail
  /\ active = 0
  /\ ticks = 0 /\ outside = 0

\* What a step does to what was read before it: changes says that the path changed,
\* samples that the tracker sampled it after that.
Aged(r, changes, samples) ==
  IF r = Nothing THEN r
  ELSE [r EXCEPT !.fresh = @ /\ ~(samples /\ (dirty \/ changes)), !.old = @ \/ changes]

Path(changes, samples) ==
  /\ dirty' = (~samples /\ (dirty \/ changes))
  /\ UNCHANGED draft
  /\ snap' = Aged(snap, changes, samples)

Mail(changes, samples) == mail' = [mail EXCEPT !.about = Aged(@, changes, samples)]

----------------------------------------------------------------------------
(* Beside the controller.                                                  *)

\* write: sample the path, then, holding writeMu, read the live pair, which asks both
\* pools for their current entry ...
WritePair ==
  /\ draft = NoPair
  /\ low' = Current(low) /\ high' = Current(high)
  /\ dirty' = FALSE
  /\ draft' = <<low'.cur, high'.cur>>
  /\ snap' = Aged(snap, FALSE, TRUE)
  /\ Mail(FALSE, TRUE)
  /\ UNCHANGED <<ladder, claim, asked, bound, active, lost, ticks, outside>>

\* ... and only then the epoch, which is current whatever happened in between (the
\* controller may have moved and sampled; that its own write then waits for writeMu is
\* not modelled, it may go on).  The node reads the file.
WriteEpoch ==
  /\ draft # NoPair
  /\ snap' = [low |-> draft[1], high |-> draft[2], fresh |-> TRUE, old |-> FALSE]
  /\ draft' = NoPair
  /\ UNCHANGED <<low, high, ladder, claim, asked, dirty, mail, bound, active, lost, ticks, outside>>

\* The tracker's own tick samples the path.
TrackerTick ==
  /\ dirty
  /\ Path(FALSE, TRUE) /\ Mail(FALSE, TRUE)
  /\ UNCHANGED <<low, high, ladder, claim, asked, bound, active, lost, ticks, outside>>

\* newSession: freshen makes the tracker forget the path, so the next sample counts.
NewSession ==
  /\ asked
  /\ asked' = FALSE
  /\ dirty' = TRUE
  /\ UNCHANGED <<low, high, ladder, claim, draft, snap, mail, bound, active, lost, ticks, outside>>

\* The node's probe of the pair it read about ends in a verdict.  A verdict that is
\* still unread is overwritten.
NodeVerdict ==
  /\ snap # Nothing
  /\ \E cmd \in {"ok", "fail"} :
       /\ MayMisjudge \/ (cmd = "ok" <=> <<snap.low, snap.high>> \in Good)
       /\ mail' = [cmd |-> cmd, about |-> snap]
  /\ UNCHANGED <<low, high, ladder, claim, asked, pathVars, bound, active, lost, ticks, outside>>

Tick ==
  /\ ticks < MaxTicks
  /\ ticks' = ticks + 1
  /\ low' = Elapse(low) /\ high' = Elapse(high)
  /\ revive' = [revive EXCEPT !.wait = IF @ = 0 THEN 0 ELSE @ - 1]
  /\ UNCHANGED <<od, port, session, spentFor, accused, claim, asked, pathVars, mail,
                 bound, active, lost, outside>>

----------------------------------------------------------------------------
(* Landing.                                                                *)

\* rotatePeerUDP: when the pool moved, the carrier lands on the new destination, and
\* asks for a session there unless the move was a timed one.
LandLow(p, hard) == IF p.cur # low.cur
                    THEN active' = p.live /\ asked' = (asked \/ hard)
                    ELSE UNCHANGED <<active, asked>>

\* Mutant of RotateHigh: a source that does not bind stays the pool's choice.
RotateHighUnchecked(p) ==
  \/ p.cur # high.cur /\ high' = p /\ bound' = p.live /\ lost' = FALSE
  \/ p.cur # high.cur /\ BindMayFail /\ high' = p /\ UNCHANGED <<bound, lost>>
  \/ p.cur = high.cur /\ high' = p /\ UNCHANGED <<bound, lost>>

\* rotateSourceUDP: the pool moves first; when the socket does not follow, the
\* candidate is rejected and the cursor goes back.
RotateHigh(p) ==
  \/ p.cur # high.cur /\ high' = p /\ bound' = p.live /\ lost' = FALSE
  \/ /\ p.cur # high.cur /\ BindMayFail
     /\ high' = RejectCandidate(p, high.cur) /\ UNCHANGED <<bound, lost>>
  \/ p.cur = high.cur /\ high' = p /\ UNCHANGED <<bound, lost>>

----------------------------------------------------------------------------
(* The ladder.                                                             *)

\* refill, and the odometer's restart that restart adds.
Refilled == port' = 0 /\ session' = 0 /\ spentFor' = {}
OdRestarted == od' = [od EXCEPT !.rot = 0, !.want = 0]

\* success: an answer is what the ladder is for.
Success == accused' = NoPair /\ revive' = AtRest /\ OdRestarted /\ Refilled

\* Mutant of ReviveIfDue: the clock is armed again and again, and never runs out.
ReviveRearmed ==
  /\ revive' = [armed |-> TRUE, wait |-> Revive[1], step |-> 1]
  /\ UNCHANGED <<port, session, spentFor>>

\* reviveClock.try: the clock still runs, or it is armed for the next step.
Running == revive.armed /\ revive.wait > 0
Rearmed == LET step == IF revive.step < Len(Revive) THEN revive.step + 1 ELSE revive.step
           IN  [armed |-> TRUE, wait |-> Revive[step], step |-> step]

\* reviveIfDue, once nothing is left to spend: the first call arms the clock, a
\* later one that finds it run out fills the rungs again.
ReviveIfDue ==
  \/ Running /\ UNCHANGED <<revive, port, session, spentFor>>
  \/ /\ ~Running
     /\ revive' = Rearmed
     /\ IF revive.armed THEN Refilled ELSE UNCHANGED <<port, session, spentFor>>

\* odometer.failed: the count, and whether a lap of the destinations is over.
OdWant == IF od.rot = 0 THEN EligibleCount(low) ELSE od.want
Lap == od.rot + 1 >= OdWant
OdFailed == od' = [od EXCEPT !.rot = IF Lap THEN 0 ELSE @ + 1, !.want = OdWant]

\* Mutant of Walk: the source is left alone after a lap.
WalkLowOnly ==
  LET p == Fail(low) IN
  /\ OdFailed
  /\ low' = p /\ LandLow(p, TRUE)
  /\ UNCHANGED <<high, bound, lost>>
  /\ IF p.cur # low.cur THEN Refilled /\ revive' = AtRest ELSE ReviveIfDue
  /\ Path(p.cur # low.cur, TRUE)

\* walk: fail the destination; after a lap fail the source too, and start a lap of
\* healthy destinations when the source moved.  fail: a move refills the ladder.
Walk ==
  LET p == Fail(low) IN
  /\ OdFailed
  /\ LandLow(p, TRUE)
  /\ IF Lap THEN RotateHigh(Fail(high)) ELSE UNCHANGED <<high, bound, lost>>
  /\ low' = IF high'.cur # high.cur THEN RestoreAll(p) ELSE p
  /\ IF p.cur # low.cur \/ high'.cur # high.cur
     THEN Refilled /\ revive' = AtRest
     ELSE ReviveIfDue
  /\ Path(p.cur # low.cur \/ bound' # bound, TRUE)

\* rollSourcePort: the socket is bound again to its own source, on another port; only
\* portRedrawn notes it, the path changes unseen.
RollSourcePort == claim' = TRUE /\ Path(TRUE, FALSE)

\* The port rung: a redraw that works is spent.
SpendPort ==
  /\ port < PortTries
  /\ port' = port + 1
  /\ spentFor' = spentFor \union {Live}
  /\ RollSourcePort
  /\ UNCHANGED <<walkVars, session, revive, asked>>

\* The port rung is spent, or its redraw failed; the claim is dropped.
PortGone == (port >= PortTries \/ PortMayFail) /\ claim' = FALSE

\* The session rung: rehandshake, whose event samples the path.
SpendSession ==
  /\ PortGone
  /\ SessionRung /\ session < 1
  /\ session' = session + 1
  /\ spentFor' = spentFor \union {Live}
  /\ asked' = TRUE
  /\ Path(FALSE, TRUE)
  /\ UNCHANGED <<walkVars, port, revive>>

SpendWalk ==
  /\ PortGone
  /\ ~(SessionRung /\ session < 1)
  /\ Walk
  /\ ticks' = 0

----------------------------------------------------------------------------
(* poll: one verdict is taken from the mailbox and judged.                 *)

Taken == mail' = NoMail

\* Mutant of Stale: the epoch is not compared.
StaleNever == FALSE

\* staleVerdict.
Stale == mail.cmd = "fail" /\ ~mail.about.fresh

JudgeStale ==
  /\ Stale
  /\ Taken
  /\ UNCHANGED <<low, high, ladder, claim, asked, pathVars, bound, active, lost, ticks, outside>>

\* carrying: a redraw is credited with the answer, and the path sampled for it.
Carrying == claim' = FALSE
CarryingSamples == claim

\* An answer clears both entries, and a record that is cleared is published.
JudgeOk ==
  /\ mail.cmd = "ok"
  /\ Success
  /\ low' = Clear(low, mail.about.low) /\ high' = Clear(high, mail.about.high)
  /\ Carrying
  /\ Path(FALSE, CarryingSamples \/ low' # low \/ high' # high)
  /\ Taken
  /\ UNCHANGED <<asked, bound, active, lost, ticks, outside>>

\* judge settles both pools first, through livePair: a no-op by ReadsNeverMove.  For a
\* datagram carrier the live pair is the pools' own, so keepCursorOn finds the cursor
\* there and the condemned entry of another pair is never the one that failed.
LowGone == mail.about.low # low.cur
HighGone == mail.about.high # high.cur
Blamed == mail.cmd = "fail" /\ ~Stale

\* The pool has moved since: burn what was measured, stay put.
JudgeGone ==
  /\ Blamed
  /\ LowGone \/ HighGone
  /\ IF HighGone /\ ~LowGone
     THEN high' = MarkSuspect(high, mail.about.high) /\ UNCHANGED low
     ELSE low' = MarkSuspect(low, mail.about.low) /\ UNCHANGED high
  /\ Path(FALSE, TRUE)
  /\ Taken
  /\ UNCHANGED <<ladder, claim, asked, bound, active, lost, ticks, outside>>

\* The ladder was climbing for another pair: start over for this one.
JudgeElsewhere ==
  /\ Blamed /\ ~LowGone /\ ~HighGone
  /\ accused # NoPair /\ accused # Live
  /\ OdRestarted /\ Refilled
  /\ accused' = Live
  /\ Taken
  /\ UNCHANGED <<low, high, revive, claim, asked, pathVars, bound, active, lost, ticks, outside>>

\* Mutant of Charged: the ladder is charged to whatever pair is live.
ChargedBlindly == Blamed /\ ~LowGone /\ ~HighGone

\* The verdict is about the live pair and the ladder is, or becomes, this pair's.
Charged == /\ Blamed /\ ~LowGone /\ ~HighGone
           /\ accused \in {NoPair, Live}

JudgeClimb ==
  /\ Charged
  /\ accused' = Live
  /\ SpendPort \/ SpendSession \/ SpendWalk
  /\ Taken
  /\ UNCHANGED outside

----------------------------------------------------------------------------
(* The timer and the operator.                                             *)

Intervene == outside < MaxOutside /\ outside' = outside + 1      \* the bound

\* odometer.beat, once the destinations are p: is a lap of them over?
LapBy(p) == p.cur = low.cur \/ od.tick + 1 >= EligibleCount(p)
OdBeat(p) == od' = IF LapBy(p) THEN [rot |-> 0, want |-> 0, tick |-> 0] ELSE [od EXCEPT !.tick = @ + 1]

\* proactive: the next eligible destination; after a lap of them the next source.
Rotate ==
  /\ Intervene
  /\ LET p == RotateOnce(low)
     IN /\ low' = p /\ LandLow(p, FALSE)
        /\ OdBeat(p)
        /\ IF LapBy(p) THEN RotateHigh(RotateOnce(high)) ELSE UNCHANGED <<high, bound, lost>>
  /\ LET changes == low'.cur # low.cur \/ bound' # bound
         samples == low' # low \/ high' # high
     IN Path(changes, samples) /\ Mail(changes, samples)
  /\ UNCHANGED <<port, session, revive, accused, spentFor, claim, ticks>>

\* A command that retests an entry.
OpRetest ==
  /\ Intervene
  /\ \/ \E i \in DOMAIN low.rec : low.rec[i] # NoRec /\ low' = RetestNow(low, i) /\ UNCHANGED high
     \/ \E i \in DOMAIN high.rec : high.rec[i] # NoRec /\ high' = RetestNow(high, i) /\ UNCHANGED low
  /\ Path(FALSE, TRUE) /\ Mail(FALSE, TRUE)
  /\ UNCHANGED <<ladder, claim, asked, bound, active, lost, ticks>>

\* A command that selects a destination: jumped and adoptPeerUDP when it moves.
OpSelectLow ==
  /\ Intervene
  /\ \E i \in DOMAIN low.rec :
       /\ low' = SelectEntry(low, i)
       /\ LandLow(low', TRUE)
       /\ IF i # low.cur THEN Success ELSE UNCHANGED ladder
       /\ Path(i # low.cur, TRUE) /\ Mail(i # low.cur, TRUE)
  /\ UNCHANGED <<high, claim, bound, lost, ticks>>

\* A command that selects a source: selectEntry publishes, then jumped and landSource
\* when it moves, whose last rebind is not published.
OpSelectHigh ==
  /\ Intervene
  /\ \E i \in DOMAIN high.rec, b \in Bindable(high) :
       LET landed == LandSource(SelectEntry(high, i), b)
       IN IF i = high.cur
          THEN /\ high' = SelectEntry(high, i)
               /\ Path(FALSE, TRUE) /\ Mail(FALSE, TRUE)
               /\ UNCHANGED <<ladder, bound, lost>>
          ELSE /\ high' = landed.pool
               /\ bound' = IF landed.bound THEN high'.live ELSE bound
               /\ lost' = ~landed.bound
               /\ Success
               /\ LET aged(r) == [Aged(r, FALSE, TRUE) EXCEPT !.old = @ \/ (landed.bound /\ r # Nothing)]
                  IN /\ dirty' = landed.bound
                     /\ UNCHANGED draft /\ snap' = aged(snap)
                     /\ mail' = [mail EXCEPT !.about = aged(@)]
  /\ UNCHANGED <<low, claim, asked, active, ticks>>

----------------------------------------------------------------------------
Judge == JudgeStale \/ JudgeOk \/ JudgeGone \/ JudgeElsewhere \/ JudgeClimb

Next == \/ WritePair \/ WriteEpoch \/ TrackerTick \/ NewSession \/ NodeVerdict \/ Tick
        \/ Judge
        \/ Rotate \/ OpRetest \/ OpSelectLow \/ OpSelectHigh

Spec == Init /\ [][Next]_vars

\* The poll goroutine runs, the status is written, the node probes on and on, and
\* time passes.
Fairness == /\ WF_vars(Judge) /\ WF_vars(WritePair) /\ WF_vars(WriteEpoch)
            /\ WF_vars(NodeVerdict) /\ WF_vars(Tick)
FairSpec == Spec /\ Fairness

----------------------------------------------------------------------------
(* Properties.                                                             *)

NLow == Cardinality(DOMAIN low.rec)
NHigh == Cardinality(DOMAIN high.rec)
About == [low : -1 .. NLow - 1, high : -1 .. NHigh - 1, fresh : BOOLEAN, old : BOOLEAN]
Pairs == (0 .. NLow - 1) \X (0 .. NHigh - 1)

\* The variables have their types: in particular the rungs stay within their budgets
\* and a suspect entry still has a step of the backoff before it, so that
\* retestBackoff never reads past suspectBackoff.
TypeOK ==
  /\ PoolType(low, NLow) /\ PoolType(high, NHigh)
  /\ od \in [rot : 0 .. NLow, want : 0 .. NLow, tick : 0 .. NLow]
  /\ port \in 0 .. PortTries /\ session \in {0, 1}
  /\ revive.armed \in BOOLEAN /\ revive.wait \in Nat /\ revive.step \in 0 .. Len(Revive)
  /\ accused \in Pairs \union {NoPair} /\ spentFor \subseteq Pairs
  /\ {claim, asked, dirty, lost} \subseteq BOOLEAN
  /\ draft \in Pairs \union {NoPair} /\ snap \in About
  /\ mail.cmd \in {"none", "ok", "fail"} /\ mail.about \in About
  /\ bound \in -1 .. NHigh - 1 /\ active \in 0 .. NLow - 1
  /\ ticks \in 0 .. MaxTicks /\ outside \in 0 .. MaxOutside

\* Reading a pool never moves it: although currentLocked can put the cursor elsewhere,
\* the status writer that asks for the live pair at any moment, on any goroutine, gets
\* the entry the carrier is on, and no destination changes without a landing.
ReadsNeverMove == Current(low) = low /\ Current(high) = high

\* The carrier is where its pools say: it landed on the destination the low cursor is
\* on, and its socket is bound to the source the high cursor is on, unless no source
\* bound when it last landed; a source that refused to bind never stays current.
LandedWhereThePoolsSay ==
  /\ active = low.live /\ low.live = low.cur
  /\ high.live = high.cur
  /\ lost \/ bound = high.live

\* A verdict charges the live pair: it spends a rung, or walks.
Charges == /\ mail.cmd = "fail" /\ mail' = NoMail
           /\ \/ port' > port \/ session' > session
              \/ low'.rec[low.cur] # low.rec[low.cur] /\ accused' = Live
              \/ Live # <<low'.cur, high'.cur>>

Walks == Charges /\ ~(port' > port \/ session' > session)

\* Every rung that was spent before the controller walks off a pair was spent on that
\* very pair: no address is burned on redraws made while another one was in use.
WalksOnItsOwnRungs == [][Walks => spentFor \subseteq {Live}]_vars

\* A verdict charges the ladder only if the path is still the one of the status the
\* node read, or changed so recently that the tracker has not seen it: neither a verdict
\* that was under way during a move nor a status written across one is held against the
\* pair that is live now.
ChargesTheMeasuredPath ==
  [][Charges => /\ mail.about.old => dirty
                /\ <<mail.about.low, mail.about.high>> = <<active, high.cur>>]_vars

\* As long as some pair carries traffic and verdicts are right, the controller ends on
\* a pair that does, whichever of the two axes has to move - unless a status that was
\* written across a move blames, again and again, an entry that was not tried.
FindsGood == (Pairs \cap Good # {}) => ([]<><<JudgeGone>>_vars \/ <>[](Live \in Good))

\* While nothing carries and there is nowhere to go, the rungs are filled again and again.
LadderRevives ==
  (Pairs \cap Good = {} /\ Cardinality(Pairs) = 1)
    => ([]<>(port + session = 0) /\ []<>(port + session > 0))
=============================================================================
