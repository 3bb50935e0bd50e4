------------------------------ MODULE AntiLeak ------------------------------
(***************************************************************************)
(* The firewall rules that keep the kernel from answering a raw carrier's  *)
(* packets: antiLeaker (internal/packet/antileak_linux.go), the rules of   *)
(* one address (addRawDrop in raw_linux.go, runRule in ruleowner_linux.go)  *)
(* and the calls that scope them to the peer (landPeerRaw, learnPeer,       *)
(* SetPeerSources).                                                        *)
(*                                                                         *)
(* The peer's address moves; the rules of the address it leaves linger for *)
(* a while and are taken back when it returns.  Installing may fail, as a  *)
(* whole or in part, and is tried again by a timer.  A server with a list  *)
(* of known sources keeps rules for all of them.  apply, the timers'        *)
(* callbacks and teardown hold mu, so each is one action; a callback that   *)
(* has fired waits for mu, and what it finds may have changed.  want and    *)
(* the carrier's destination are read and stored without mu.               *)
(*                                                                         *)
(* An address has the rules Parts.  A holder is what will remove an         *)
(* address's rules: the entry of a known source, cur, or a lingering entry. *)
(***************************************************************************)
EXTENDS Integers, FiniteSets, FiniteSetsExt

CONSTANTS Addrs,       \* the peer's addresses
          None,        \* no address
          Parts,       \* the rules of an address (rawDropMatches)
          MaxLinger,   \* antiLeakMaxLinger
          Lists,       \* the lists of known sources that are explored
          MaxMoves,    \* bound on the moves of the peer
          MaxFails     \* bound on the installations that fail

ASSUME AddrsAssumption == Addrs # {} /\ None \notin Addrs /\ Lists \subseteq SUBSET Addrs
ASSUME PartsAssumption == IsFiniteSet(Parts) /\ Parts # {}
ASSUME BoundsAssumption == MaxLinger \in Nat \ {0} /\ {MaxMoves, MaxFails} \subseteq Nat

VARIABLES rules,       \* the rules in the kernel's OUTPUT chain
          known,       \* antiLeaker.known
          static,      \* the domain of antiLeaker.static
          curIP,       \* antiLeaker.curIP
          pending,     \* antiLeaker.pending: entries [ip, id], the older the smaller its id
          expired,     \* the lingering entries whose timer has fired
          want,        \* antiLeaker.want
          retry,       \* antiLeaker.retry is set
          fired,       \* its callback has been started and waits for mu
          asked,       \* calls of apply that wait for mu
          dst,         \* the carrier's destination
          landing,     \* the destination is set or moved (landPeerRaw) and not scoped yet
          heard,       \* the destination learnPeer has read and not scoped yet
          life,        \* the carrier: setup, up, closing (closeCh is closed), down
          moves, fails,
          twice        \* history: addresses that were claimed while another holder had them

table == <<known, static, curIP, pending>>
timers == <<expired, retry, fired>>
carrier == <<dst, landing, heard, moves>>
vars == <<rules, table, timers, want, asked, carrier, life, fails, twice>>

\* A client knows its destination when it starts and scopes it (wireAntiLeak); a server
\* with known sources does not.
Init ==
  /\ rules = {} /\ known \in Lists /\ static = {} /\ curIP = None /\ pending = {}
  /\ expired = {} /\ retry = FALSE /\ fired = FALSE
  /\ want = None /\ asked = 0
  /\ dst = IF known = {} THEN CHOOSE a \in Addrs : TRUE ELSE None
  /\ landing = (known = {}) /\ heard = None
  /\ life = "setup" /\ moves = 0 /\ fails = 0 /\ twice = {}

Closed == life \in {"closing", "down"}
Lingering == {e.ip : e \in pending}
Held == static \union Lingering \union ({curIP} \ {None})
All(S) == S \X Parts

----------------------------------------------------------------------------
(* Claiming rules, under mu.                                               *)

\* takeLingeringLocked
Without(S) == {e \in pending : e.ip \notin S}

\* claimLocked, for each address of S: rules that linger are taken back, others installed.
\* ok are those that succeed.  Of the others some parts went in or were in, and are removed
\* again, but not all; the retry is armed.
Claim(S, ok, armed) ==
  LET failed == S \ ok
  IN /\ S \intersect Lingering \subseteq ok
     /\ fails' = fails + Cardinality(failed)
     /\ fails' <= MaxFails                  \* the bound
     /\ \E wiped \in SUBSET All(failed) :
          /\ \A a \in failed : ~(All({a}) \subseteq wiped)
          /\ rules' = (rules \ wiped) \union All(ok \ Lingering)
     /\ twice' = twice \union (S \intersect (Held \ Lingering))
     /\ retry' = (armed \/ failed # {})

----------------------------------------------------------------------------
(* The antiLeaker.                                                         *)

\* applyKnownLocked
ApplyKnown(armed) ==
  IF Closed THEN retry' = armed /\ UNCHANGED <<rules, static, pending, fails, twice>>
  ELSE \E ok \in SUBSET (known \ static) :
         /\ Claim(known \ static, ok, armed)
         /\ static' = static \union ok
         /\ pending' = Without(ok)

\* scopeAll, from SetPeerSources before the carrier runs.
ScopeAll ==
  /\ life = "setup"
  /\ life' = "up"
  /\ ApplyKnown(retry)
  /\ UNCHANGED <<known, curIP, expired, fired, want, asked, carrier>>

\* wants, and the apply that follows it, at once or in a goroutine.
Scope(a) ==
  IF want = a THEN UNCHANGED <<want, asked>> ELSE want' = a /\ asked' = asked + 1

\* Mutant of Blocked: a call that waited for mu does not look whether the carrier was closed.
BlockedNever == FALSE

\* The first lines of apply.
Blocked == Closed

\* A new entry for cur; its id is beyond those of the entries that are there and of cur's
\* earlier stays.
Entry == [ip |-> curIP, id |-> 1 + Max({0} \union {e.id : e \in expired \union pending})]

\* lingerLocked: cur's rules linger, and the oldest entry of p makes room.
Linger(p, added) ==
  \/ /\ Cardinality(p) < MaxLinger
     /\ pending' = p \union {Entry}
     /\ rules' = rules \union added
  \/ /\ Cardinality(p) >= MaxLinger
     /\ \E o \in p : /\ \A e \in p : o.id <= e.id
                     /\ pending' = (p \ {o}) \union {Entry}
                     /\ rules' = (rules \union added) \ All({o.ip})

\* apply claims the rules of the wanted address and lets cur's linger.
Install ==
  LET left == Without({want})
      added == IF want \in Lingering THEN {} ELSE All({want})
  IN /\ curIP' = want
     /\ IF curIP = None THEN pending' = left /\ rules' = rules \union added
                        ELSE Linger(left, added)
     /\ UNCHANGED <<fails, retry, twice>>

Refused ==
  /\ Claim({want}, {}, retry)
  /\ UNCHANGED <<curIP, pending>>

Apply ==
  /\ asked > 0
  /\ asked' = asked - 1
  /\ IF Blocked \/ want = None \/ curIP = want \/ want \in static
     THEN UNCHANGED <<rules, curIP, pending, fails, twice, retry>>
     ELSE Install \/ Refused
  /\ UNCHANGED <<known, static, expired, fired, want, carrier, life>>

\* A lingering entry's timer fires ...
Expire(e) ==
  /\ e \notin expired
  /\ expired' = expired \union {e}
  /\ UNCHANGED <<rules, table, retry, fired, want, asked, carrier, life, fails, twice>>

\* Mutant of Lapse: the callback does not look whether the entry was taken back.
LapseBlindly(e) ==
  /\ e \in expired
  /\ expired' = expired \ {e}
  /\ rules' = rules \ All({e.ip})
  /\ pending' = pending \ {e}
  /\ UNCHANGED <<known, static, curIP, retry, fired, want, asked, carrier, life, fails, twice>>

\* ... and its callback removes the rules if the entry is still there.
Lapse(e) ==
  /\ e \in expired
  /\ expired' = expired \ {e}
  /\ rules' = IF e \in pending THEN rules \ All({e.ip}) ELSE rules
  /\ pending' = pending \ {e}
  /\ UNCHANGED <<known, static, curIP, retry, fired, want, asked, carrier, life, fails, twice>>

RetryFires ==
  /\ retry /\ ~fired
  /\ fired' = TRUE
  /\ UNCHANGED <<rules, table, expired, retry, want, asked, carrier, life, fails, twice>>

\* Mutant of Retry: only the known sources are tried again.
RetryKnownOnly ==
  /\ fired
  /\ fired' = FALSE
  /\ ApplyKnown(FALSE)
  /\ UNCHANGED <<known, curIP, expired, want, asked, carrier, life>>

\* armRetryLocked's callback: retry = nil, the known sources, and then apply, for which mu
\* is given up and taken again.
Retry ==
  /\ fired
  /\ fired' = FALSE /\ asked' = asked + 1
  /\ ApplyKnown(FALSE)
  /\ UNCHANGED <<known, curIP, expired, want, carrier, life>>

\* Close closes closeCh ...
Close ==
  /\ life = "up"
  /\ life' = "closing"
  /\ UNCHANGED <<rules, table, timers, want, asked, carrier, fails, twice>>

\* ... and tears the rules down, every holder its own.
Teardown ==
  /\ life = "closing"
  /\ life' = "down"
  /\ rules' = rules \ All(Held)
  /\ retry' = FALSE
  /\ pending' = {} /\ static' = {} /\ known' = {} /\ curIP' = None
  /\ UNCHANGED <<expired, fired, want, asked, carrier, fails, twice>>

----------------------------------------------------------------------------
(* The carrier.                                                            *)

\* landPeerRaw: the pool has moved the destination ...
Land ==
  /\ life = "up" /\ known = {} /\ ~landing
  /\ moves < MaxMoves                       \* the bound
  /\ moves' = moves + 1
  /\ \E a \in Addrs \ {dst} : dst' = a
  /\ landing' = TRUE
  /\ UNCHANGED <<rules, table, timers, want, asked, heard, life, fails, twice>>

\* ... and scope follows.
LandScope ==
  /\ landing
  /\ landing' = FALSE
  /\ Scope(dst)
  /\ UNCHANGED <<rules, table, timers, dst, heard, moves, life, fails, twice>>

\* learnPeer, for every frame that opens: a server's peer is where the frame came from;
\* a client reads its destination.
Hear ==
  /\ life = "up" /\ heard = None
  /\ \/ known = {} /\ heard' = dst /\ UNCHANGED <<dst, moves>>
     \/ /\ known # {}
        /\ \E a \in known :
             /\ moves' = IF a = dst THEN moves ELSE moves + 1
             /\ moves' <= MaxMoves          \* the bound
             /\ dst' = a /\ heard' = a
  /\ UNCHANGED <<rules, table, timers, want, asked, landing, life, fails, twice>>

HearScope ==
  /\ heard # None
  /\ heard' = None
  /\ Scope(heard)
  /\ UNCHANGED <<rules, table, timers, dst, landing, moves, life, fails, twice>>

----------------------------------------------------------------------------
Next == \/ ScopeAll \/ Apply \/ RetryFires \/ Retry
        \/ \E e \in pending : Expire(e)
        \/ \E e \in expired : Lapse(e)
        \/ Land \/ LandScope \/ Hear \/ HearScope
        \/ Close \/ Teardown

Spec == Init /\ [][Next]_vars

\* Goroutines get mu, timers fire, and frames go on arriving from the peer.
Fairness == /\ WF_vars(ScopeAll) /\ WF_vars(Apply) /\ WF_vars(RetryFires) /\ WF_vars(Retry)
            /\ WF_vars(LandScope) /\ WF_vars(Hear) /\ WF_vars(HearScope)
FairSpec == Spec /\ Fairness

----------------------------------------------------------------------------
(* Properties.                                                             *)

\* No rule is left that nobody will remove: every rule in the kernel has a holder, whatever
\* fails in part, lingers or is pushed out by a newer entry; and once teardown is over none
\* is left, although retries, lapses and applies that had already started come after it.
NoOrphans == {r[1] : r \in rules} \subseteq Held /\ (life = "down" => rules = {})

\* A holder's rules are really in: nothing that fired for an earlier stay of the peer, and
\* nothing that failed for another address, takes them away.  The exception is an address
\* that was claimed while another holder had it: the two removals then are for one rule.
HeldIsIn == ~(life = "down") => All(Held \ twice) \subseteq rules

\* As long as the carrier is up, the rules end up on the address it talks to, though the
\* destination is read and stored by two goroutines without a lock, and installations
\* fail now and then.
EndsCovered == <>[](Closed \/ dst = None \/ dst \in twice \/ All({dst}) \subseteq rules)
=============================================================================
