--------------------------- MODULE AntiLeakProofs ---------------------------
(***************************************************************************)
(* NoOrphans and HeldIsIn for any set of addresses and rules, any list of  *)
(* known sources and any limit on what lingers, with installations that    *)
(* fail as often as they like.                                             *)
(*                                                                         *)
(* Neither is inductive alone.  Removing what a holder holds is safe only  *)
(* because no other holder has the same address: cur's address does not    *)
(* linger, no address lingers twice, and a known source is somewhere else  *)
(* too only if it was claimed while another holder had it (OneHolder).     *)
(***************************************************************************)
EXTENDS AntiLeak, TLAPS

Types ==
  /\ known \subseteq Addrs /\ static \subseteq Addrs /\ Lingering \subseteq Addrs
  /\ {curIP, want, dst, heard} \subseteq Addrs \union {None}
  /\ rules \subseteq Addrs \X Parts
  /\ life \in {"setup", "up", "closing", "down"}

\* An address has one holder, unless it was claimed twice.
OneHolder ==
  /\ curIP \notin Lingering
  /\ \A e, f \in pending : e.ip = f.ip => e = f
  /\ static \intersect (Lingering \union {curIP}) \subseteq twice

\* Every rule in the kernel is of an address that somebody holds.
Owned == \A a \in Addrs : \A x \in Parts : <<a, x>> \in rules => a \in Held

\* And the rules of a holder are all there.
Present == life # "down" => \A a \in Held \ twice : \A x \in Parts : <<a, x>> \in rules

Empty == life = "down" => rules = {}

IInv == Types /\ OneHolder /\ Owned /\ Present /\ Empty

\* At the start nothing is held and no rule is in.
LEMMA InitIInv == Init => IInv
<1> SUFFICES ASSUME Init PROVE IInv
  OBVIOUS
<1>1. (CHOOSE a \in Addrs : TRUE) \in Addrs
  BY AddrsAssumption
<1>2. Lingering = {} /\ Held = {}
  BY DEF Init, Lingering, Held
<1>3. Types
  BY <1>1, <1>2, AddrsAssumption DEF Init, Types
<1> QED BY <1>2, <1>3 DEF Init, IInv, OneHolder, Owned, Present, Empty

----------------------------------------------------------------------------
(* Claiming.                                                               *)

\* What claimLocked does to the rules, for addresses S that are not known sources yet: it adds
\* rules of those that succeed only, and takes away none of a holder's, but for an address
\* that another holder has.
LEMMA ClaimRules ==
  ASSUME IInv, NEW T \in SUBSET Addrs, NEW ok \in SUBSET T, NEW armed, Claim(T, ok, armed)
  PROVE  /\ rules' \subseteq Addrs \X Parts
         /\ \A a \in Addrs : \A x \in Parts : <<a, x>> \in rules' => <<a, x>> \in rules \/ a \in ok
         /\ life # "down" =>
              \A a \in (Held \union ok) \ twice' : \A x \in Parts : <<a, x>> \in rules'
         /\ twice' = twice \union (T \intersect (Held \ Lingering))
<1>1. twice' = twice \union (T \intersect (Held \ Lingering)) /\ T \intersect Lingering \subseteq ok
  BY DEF Claim
<1>2. PICK wiped \in SUBSET All(T \ ok) : rules' = (rules \ wiped) \union All(ok \ Lingering)
  BY DEF Claim
<1>3. All(ok \ Lingering) \subseteq Addrs \X Parts
  BY DEF All
<1>4. ASSUME NEW a \in (Held \union ok) \ twice', NEW x \in Parts, life # "down"
      PROVE  <<a, x>> \in rules'
  <2>1. CASE a \in ok \ Lingering
    BY <1>2, <2>1 DEF All
  <2>2. CASE a \notin ok \ Lingering
    <3>1. a \in Held
      BY <1>4, <2>2 DEF Held
    <3>2. <<a, x>> \in rules
      BY <1>1, <1>4, <3>1 DEF IInv, Present
    <3>3. a \notin T \ ok
      BY <1>1, <1>4, <3>1
    <3> QED BY <1>2, <3>2, <3>3 DEF All
  <2> QED BY <2>1, <2>2
<1>5. \A a \in Addrs : \A x \in Parts : <<a, x>> \in rules' => <<a, x>> \in rules \/ a \in ok
  BY <1>2 DEF All
<1>6. rules' \subseteq Addrs \X Parts
  BY <1>2, <1>3 DEF IInv, Types
<1> QED BY <1>1, <1>4, <1>5, <1>6

\* The known sources: each of them that succeeds has an entry, and lingers no more.
LEMMA ApplyKnownKeeps ==
  ASSUME IInv, NEW armed, ApplyKnown(armed), UNCHANGED <<known, curIP, want, dst, heard>>,
         UNCHANGED life \/ (life = "setup" /\ life' = "up")
  PROVE  IInv'
<1>1. CASE Closed
  <2>1. UNCHANGED <<rules, static, pending, twice, life>>
    BY <1>1 DEF ApplyKnown, Closed
  <2> QED BY <2>1 DEF IInv, Types, OneHolder, Owned, Present, Empty, Held, Lingering
<1>2. CASE ~Closed
  <2> DEFINE T == known \ static
  <2>1. PICK ok \in SUBSET T : /\ Claim(T, ok, armed)
                               /\ static' = static \union ok
                               /\ pending' = Without(ok)
    BY <1>2 DEF ApplyKnown
  <2>2. T \in SUBSET Addrs
    BY DEF IInv, Types
  <2> HIDE DEF T
  <2>3. /\ rules' \subseteq Addrs \X Parts
        /\ \A a \in Addrs : \A x \in Parts : <<a, x>> \in rules' => <<a, x>> \in rules \/ a \in ok
        /\ life # "down" =>
              \A a \in (Held \union ok) \ twice' : \A x \in Parts : <<a, x>> \in rules'
        /\ twice' = twice \union (T \intersect (Held \ Lingering))
    BY <2>1, <2>2, ClaimRules
  <2>4. Lingering' = Lingering \ ok
    BY <2>1 DEF Lingering, Without
  <2>5. Held' = Held \union ok
    BY <2>1, <2>4 DEF Held
  <2>6. Types'
    BY <2>1, <2>2, <2>3, <2>4 DEF IInv, Types
  <2>7. OneHolder'
    <3>1. \A e, f \in pending' : e.ip = f.ip => e = f
      BY <2>1 DEF IInv, OneHolder, Without
    <3>2. curIP' \notin Lingering'
      BY <2>4 DEF IInv, OneHolder
    <3>3. curIP \in Held \ Lingering \/ curIP = None
      BY DEF IInv, OneHolder, Held
    <3>4. None \notin Addrs /\ static' \subseteq Addrs
      BY <2>6, AddrsAssumption DEF Types
    <3>5. static' \intersect (Lingering' \union {curIP'}) \subseteq twice'
      BY <2>1, <2>2, <2>3, <2>4, <3>3, <3>4 DEF IInv, OneHolder
    <3> QED BY <3>1, <3>2, <3>5 DEF OneHolder
  <2>8. Owned' /\ Present' /\ Empty'
    BY <1>2, <2>3, <2>5 DEF IInv, Owned, Present, Empty, Closed
  <2> QED BY <2>6, <2>7, <2>8 DEF IInv
<1> QED BY <1>1, <1>2

----------------------------------------------------------------------------
(* apply.                                                                  *)

\* A call that installs: the wanted address has no holder but a lingering one, which is
\* taken back; cur's address lingers, and one that has to make room goes with its rules.
LEMMA InstallKeeps ==
  ASSUME IInv, Install, want # None, curIP # want, want \notin static, ~Closed,
         UNCHANGED <<known, static, want, dst, heard, life>>
  PROVE  IInv'
<1> DEFINE left == Without({want})
           added == IF want \in Lingering THEN {} ELSE All({want})
           leftIPs == {e.ip : e \in left}
<1>1. want \in Addrs /\ curIP' = want /\ twice' = twice
  BY DEF Install, IInv, Types
<1>2. /\ leftIPs = Lingering \ {want}
      /\ left \subseteq pending
  BY DEF Without, Lingering
<1>3. All({want}) \subseteq Addrs \X Parts /\ \A r \in All({want}) : r[1] = want
  BY <1>1 DEF All
<1>4. added \subseteq All({want})
  OBVIOUS
<1>5. life # "down"
  BY DEF Closed
<1>6. \A x \in Parts : want \notin twice => <<want, x>> \in rules \union added
  BY <1>1, <1>5 DEF IInv, Present, Held, All
<1>7. CASE curIP = None
  <2>1. pending' = left /\ rules' = rules \union added
    BY <1>7 DEF Install
  <2>2. Lingering' = Lingering \ {want}
    BY <1>2, <2>1 DEF Lingering
  <2>3. Held' = Held \union {want}
    BY <1>1, <1>7, <2>2, AddrsAssumption DEF Held
  <2>4. Types'
    BY <1>1, <1>3, <1>4, <2>1, <2>2 DEF IInv, Types
  <2>5. OneHolder'
    BY <1>1, <1>2, <2>1, <2>2 DEF IInv, OneHolder
  <2>6. Owned' /\ Present' /\ Empty'
    BY <1>1, <1>3, <1>4, <1>5, <1>6, <2>1, <2>3 DEF IInv, Owned, Present, Empty
  <2> QED BY <2>4, <2>5, <2>6 DEF IInv
<1>8. ASSUME curIP # None, NEW gone \in SUBSET left,
             pending' = (left \ gone) \union {Entry},
             rules' = (rules \union added) \ All({e.ip : e \in gone})
      PROVE  IInv'
  <2> DEFINE goneIPs == {e.ip : e \in gone}
  <2>0. \A e, f \in left : e.ip = f.ip => e = f
    BY <1>2 DEF IInv, OneHolder
  <2>1. goneIPs \subseteq Lingering \ {want} /\ {e.ip : e \in left \ gone} = (Lingering \ {want}) \ goneIPs
    <3> HIDE DEF left
    <3>1. {e.ip : e \in left \ gone} = leftIPs \ goneIPs
      BY <2>0
    <3> QED BY <1>2, <3>1
  <2>2. Entry.ip = curIP /\ curIP \in Addrs
    BY <1>8 DEF Entry, IInv, Types
  <2>3. Lingering' = ((Lingering \ {want}) \ goneIPs) \union {curIP}
    BY <1>8, <2>1, <2>2 DEF Lingering
  <2>4. curIP \notin Lingering /\ curIP \notin goneIPs
    BY <2>1 DEF IInv, OneHolder
  <2>5. Held' = static \union (Lingering \ goneIPs) \union {curIP, want}
    BY <1>1, <2>1, <2>3, AddrsAssumption DEF Held
  <2>6. Types'
    BY <1>1, <1>3, <1>4, <1>8, <2>2, <2>3 DEF IInv, Types
  <2>7. OneHolder'
    <3>1. curIP' \notin Lingering'
      BY <1>1, <2>3
    <3>2. \A e \in left \ gone : e \in pending /\ e.ip # Entry.ip
      BY <1>2, <2>2, <2>4 DEF Lingering
    <3>3. \A e, f \in pending' : e.ip = f.ip => e = f
      BY <1>8, <3>2 DEF IInv, OneHolder
    <3>4. static' \intersect (Lingering' \union {curIP'}) \subseteq twice'
      BY <1>1, <2>3 DEF IInv, OneHolder
    <3> QED BY <3>1, <3>3, <3>4 DEF OneHolder
  <2>8. Owned'
    <3> SUFFICES ASSUME NEW a \in Addrs, NEW x \in Parts, <<a, x>> \in rules' PROVE a \in Held'
      BY DEF Owned
    <3>1. a \notin goneIPs /\ <<a, x>> \in rules \union added
      BY <1>8 DEF All
    <3>2. a \in Held \/ a = want
      BY <1>3, <1>4, <3>1 DEF IInv, Owned
    <3> QED BY <2>5, <3>1, <3>2 DEF Held
  <2>9. Present'
    <3> SUFFICES ASSUME NEW a \in Held' \ twice', NEW x \in Parts PROVE <<a, x>> \in rules'
      BY DEF Present
    <3>1. a \notin goneIPs
      BY <1>1, <2>1, <2>4, <2>5 DEF IInv, OneHolder
    <3>2. <<a, x>> \in rules \union added
      <4>1. CASE a = want
        BY <1>1, <1>6, <4>1
      <4>2. CASE a # want
        <5>1. a \in Held \ twice
          BY <1>1, <1>8, <2>5, <4>2 DEF Held
        <5> QED BY <1>5, <5>1 DEF IInv, Present
      <4> QED BY <4>1, <4>2
    <3> QED BY <1>8, <3>1, <3>2 DEF All
  <2> QED BY <1>5, <2>6, <2>7, <2>8, <2>9 DEF IInv, Empty
<1>9. CASE curIP # None
  <2>1. Linger(left, added)
    BY <1>9 DEF Install
  <2>2. CASE pending' = left \union {Entry} /\ rules' = rules \union added
    <3>1. {} \in SUBSET left /\ pending' = (left \ {}) \union {Entry}
          /\ rules' = (rules \union added) \ All({e.ip : e \in {}})
      BY <2>2 DEF All
    <3> QED BY <1>8, <1>9, <3>1
  <2>3. CASE \E o \in left : /\ pending' = (left \ {o}) \union {Entry}
                             /\ rules' = (rules \union added) \ All({o.ip})
    <3>1. PICK o \in left : /\ pending' = (left \ {o}) \union {Entry}
                            /\ rules' = (rules \union added) \ All({o.ip})
      BY <2>3
    <3>2. {o} \in SUBSET left /\ {e.ip : e \in {o}} = {o.ip}
      OBVIOUS
    <3> QED BY <1>8, <1>9, <3>1, <3>2
  <2> QED BY <2>1, <2>2, <2>3 DEF Linger
<1> QED BY <1>7, <1>9

\* A call that fails: the wanted address has no holder, so what is wiped is nobody's.
LEMMA RefusedKeeps ==
  ASSUME IInv, Refused, want # None, UNCHANGED <<known, static, want, dst, heard, life>>, ~Closed
  PROVE  IInv'
<1>1. {want} \in SUBSET Addrs
  BY DEF IInv, Types
<1>2. /\ rules' \subseteq Addrs \X Parts
      /\ \A a \in Addrs : \A x \in Parts : <<a, x>> \in rules' => <<a, x>> \in rules \/ a \in {}
      /\ life # "down" => \A a \in (Held \union {}) \ twice' : \A x \in Parts : <<a, x>> \in rules'
      /\ twice' = twice \union ({want} \intersect (Held \ Lingering))
  BY <1>1, ClaimRules DEF Refused
<1>3. Lingering' = Lingering /\ Held' = Held /\ UNCHANGED <<pending, curIP>>
  BY DEF Refused, Lingering, Held
<1> QED BY <1>2, <1>3 DEF IInv, Types, OneHolder, Owned, Present, Empty, Closed

\* Whatever leaves the rules and their holders alone.
LEMMA OtherKeeps ==
  ASSUME IInv, UNCHANGED <<rules, table, twice>>,
         {want', dst', heard'} \subseteq Addrs \union {None},
         UNCHANGED life \/ (life' = "closing" /\ life = "up")
  PROVE  IInv'
<1>1. Lingering' = Lingering /\ Held' = Held /\ UNCHANGED <<known, static, curIP, pending>>
  BY DEF Lingering, Held, table
<1> QED BY <1>1 DEF IInv, Types, OneHolder, Owned, Present, Empty

\* scope for one address: take it back from those that linger or install it, and let the
\* old one linger.
LEMMA ApplyKeeps ==
  ASSUME IInv, Apply
  PROVE  IInv'
<1>1. UNCHANGED <<known, static, want, dst, heard, life>>
  BY DEF Apply, carrier
<1>2. CASE Blocked \/ want = None \/ curIP = want \/ want \in static
  <2>1. UNCHANGED <<rules, table, twice>>
    BY <1>1, <1>2 DEF Apply, table
  <2> QED BY <1>1, <2>1, OtherKeeps DEF IInv, Types
<1>3. CASE ~(Blocked \/ want = None \/ curIP = want \/ want \in static)
  <2>1. Install \/ Refused
    BY <1>3 DEF Apply
  <2> QED BY <1>1, <1>3, <2>1, InstallKeeps, RefusedKeeps DEF Blocked
<1> QED BY <1>2, <1>3

----------------------------------------------------------------------------
(* The timer of a lingering entry, and the end.                            *)

\* A callback removes the rules of an entry that is still there; nobody else has them.
LEMMA LapseKeeps ==
  ASSUME IInv, NEW e, Lapse(e)
  PROVE  IInv'
<1>1. /\ pending' = pending \ {e}
      /\ rules' = IF e \in pending THEN rules \ All({e.ip}) ELSE rules
      /\ UNCHANGED <<known, static, curIP, want, dst, heard, life, twice>>
  BY DEF Lapse, carrier
<1>2. CASE e \notin pending
  BY <1>1, <1>2, OtherKeeps DEF IInv, Types, table
<1>3. CASE e \in pending
  <2>1. Lingering' = Lingering \ {e.ip}
    BY <1>1, <1>3 DEF Lingering, IInv, OneHolder
  <2>2. e.ip \in Lingering
    BY <1>3 DEF Lingering
  <2>3. Held' = static \union (Lingering \ {e.ip}) \union ({curIP} \ {None})
    BY <1>1, <2>1 DEF Held
  <2>4. Types' /\ OneHolder' /\ Empty'
    BY <1>1, <2>1 DEF IInv, Types, OneHolder, Empty
  <2>5. Owned'
    <3> SUFFICES ASSUME NEW a \in Addrs, NEW x \in Parts, <<a, x>> \in rules' PROVE a \in Held'
      BY DEF Owned
    <3>1. <<a, x>> \in rules /\ a # e.ip
      BY <1>1, <1>3 DEF All
    <3> QED BY <2>3, <3>1 DEF IInv, Owned, Held
  <2>6. Present'
    <3> SUFFICES ASSUME life # "down", NEW a \in Held' \ twice, NEW x \in Parts PROVE <<a, x>> \in rules'
      BY <1>1 DEF Present
    <3>1. a # e.ip
      BY <2>2, <2>3 DEF IInv, OneHolder
    <3>2. <<a, x>> \in rules
      BY <2>3 DEF IInv, Present, Held
    <3> QED BY <1>1, <1>3, <3>1, <3>2 DEF All
  <2> QED BY <2>4, <2>5, <2>6 DEF IInv
<1> QED BY <1>2, <1>3

\* teardown removes what is held, which is everything.
LEMMA TeardownKeeps ==
  ASSUME IInv, Teardown
  PROVE  IInv'
<1>1. /\ rules' = rules \ All(Held) /\ life' = "down"
      /\ pending' = {} /\ static' = {} /\ known' = {} /\ curIP' = None
      /\ UNCHANGED <<want, dst, heard, twice>>
  BY DEF Teardown, carrier
<1>2. rules' = {}
  BY <1>1 DEF IInv, Types, Owned, All
<1>3. Lingering' = {}
  BY <1>1 DEF Lingering
<1> QED BY <1>1, <1>2, <1>3 DEF IInv, Types, OneHolder, Owned, Present, Empty

\* Every step keeps the invariant.
LEMMA StepIInv == IInv /\ [Next]_vars => IInv'
<1> SUFFICES ASSUME IInv, [Next]_vars PROVE IInv'
  OBVIOUS
<1> USE DEF carrier
<1>1. CASE ScopeAll
  BY <1>1, ApplyKnownKeeps DEF ScopeAll
<1>2. CASE Retry
  BY <1>2, ApplyKnownKeeps DEF Retry
<1>3. CASE RetryFires
  BY <1>3, OtherKeeps DEF RetryFires, IInv, Types
<1>4. ASSUME NEW e \in pending, Expire(e) PROVE IInv'
  BY <1>4, OtherKeeps DEF Expire, IInv, Types
<1>5. ASSUME NEW e \in expired, Lapse(e) PROVE IInv'
  BY <1>5, LapseKeeps
<1>6. CASE Land
  BY <1>6, OtherKeeps DEF Land, IInv, Types
<1>7. CASE LandScope
  BY <1>7, OtherKeeps DEF LandScope, Scope, IInv, Types
<1>8. CASE Hear
  BY <1>8, OtherKeeps DEF Hear, IInv, Types
<1>9. CASE HearScope
  BY <1>9, OtherKeeps DEF HearScope, Scope, IInv, Types
<1>10. CASE Close
  BY <1>10, OtherKeeps DEF Close, IInv, Types
<1>11. CASE UNCHANGED vars
  BY <1>11, OtherKeeps DEF vars, IInv, Types
<1> QED BY <1>1, <1>2, <1>3, <1>4, <1>5, <1>6, <1>7, <1>8, <1>9, <1>10, <1>11,
           ApplyKeeps, TeardownKeeps DEF Next

----------------------------------------------------------------------------
(* The theorems.                                                           *)

LEMMA InvariantIInv == Spec => []IInv
BY InitIInv, StepIInv, PTL DEF Spec

\* For any addresses, rules, known sources and limit: whatever antiLeaker installs, in whole
\* or in part, somebody will remove, and nothing is left when teardown is over.
THEOREM RulesHaveOwners == Spec => []NoOrphans
<1>1. IInv => NoOrphans
  <2> SUFFICES ASSUME IInv PROVE {r[1] : r \in rules} \subseteq Held /\ (life = "down" => rules = {})
    BY DEF NoOrphans
  <2>1. \A r \in rules : r = <<r[1], r[2]>> /\ r[1] \in Addrs /\ r[2] \in Parts
    BY DEF IInv, Types
  <2>2. \A r \in rules : r[1] \in Held
    BY <2>1 DEF IInv, Owned
  <2> QED BY <2>2 DEF IInv, Empty
<1> QED BY <1>1, InvariantIInv, PTL

\* And what it has not removed is in: no timer of an earlier stay, no eviction and no failed
\* installation takes the rules of an address that is held, unless it was claimed twice.
THEOREM HeldRulesAreIn == Spec => []HeldIsIn
<1>1. IInv => HeldIsIn
  <2> SUFFICES ASSUME IInv, life # "down", NEW r \in All(Held \ twice) PROVE r \in rules
    BY DEF HeldIsIn
  <2>1. PICK a \in Held \ twice, x \in Parts : r = <<a, x>>
    BY DEF All
  <2> QED BY <2>1 DEF IInv, Present
<1> QED BY <1>1, InvariantIInv, PTL
=============================================================================
