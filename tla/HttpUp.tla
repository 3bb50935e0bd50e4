------------------------------- MODULE HttpUp -------------------------------
(***************************************************************************)
(* The upstream of an HTTP carrier session in POST mode, and the server's  *)
(* table of sessions: internal/packet/httpcarrier.go (httpcUp, httpcConn,   *)
(* httpcSession, httpcHandler) with the reseq of stripe.go.                *)
(*                                                                         *)
(* The client's writers put chunks on a channel; several workers cut the   *)
(* channel into numbered batches and post them, each waiting for its own   *)
(* answer only, so batches overtake each other.  The server finds the      *)
(* session by its id, which the client chose, and puts the batches back in *)
(* order.  A session is created by the GET that opens a down stream, never *)
(* by a POST; when the server drops it and the client's next GET creates    *)
(* it again under the same id, the posts under way meet a generation that  *)
(* has seen nothing of the stream.                                         *)
(*                                                                         *)
(* A chunk is [id, size], its place in the order of acceptance and its     *)
(* length.  Workers are alike, so they are the set of batches waiting for  *)
(* an answer.  The edge between the two ends may repeat a request.         *)
(***************************************************************************)
EXTENDS Integers, Sequences, FiniteSets, SequencesExt

CONSTANTS Workers,     \* upWorkers
          ChanLen,     \* the capacity of httpcUp.ch
          MaxBatch,    \* maxUpBatch
          PendMax,     \* maxPendBytes
          MaxChunks,   \* bound on the chunks that are accepted
          Sizes,       \* the sizes of chunks that are explored
          Repeats      \* bound on the requests the edge repeats

ASSUME CapacityAssumption == {Workers, ChanLen, MaxBatch, PendMax} \subseteq Nat \ {0}
ASSUME SizesAssumption == Sizes \subseteq 1 .. MaxBatch
ASSUME BoundsAssumption == {MaxChunks, Repeats} \subseteq Nat

Gens == 1 .. 2         \* generations of the session that are explored
None == 0              \* no session under the id

VARIABLES up,          \* the client's conn is open: its ctx is not done
          ch, carry,   \* httpcUp.ch; httpcUp.carry as a sequence of at most one chunk
          seq,         \* httpcUp.seq
          flying,      \* the batches whose worker waits for its answer
          reqs,        \* the POST requests on their way or in a handler
          answers,     \* the numbers of the batches answered, with the verdict
          get,         \* a GET is on its way
          repeats,     \* requests the edge has repeated
          table,       \* httpcSessions[sid]: a generation or None
          open,        \* the generations whose end has not been done
          made,        \* how many generations there have been
          started,     \* the generations whose conn was started
          next, pend,  \* reseq.next and reseq.pend of every generation
          accepted,    \* history: chunks accepted
          out          \* history: what the server's conn reads, per generation

client == <<up, ch, carry, seq, flying, accepted>>
wire == <<reqs, answers, get, repeats>>
server == <<table, open, made, started, next, pend, out>>
vars == <<client, wire, server>>

\* dialHTTPCPost: the workers start after the first GET was answered.
Init ==
  /\ up = TRUE /\ ch = <<>> /\ carry = <<>> /\ seq = 0 /\ flying = {} /\ accepted = 0
  /\ reqs = {} /\ answers = {} /\ get = FALSE /\ repeats = 0
  /\ table = 1 /\ open = {1} /\ made = 1 /\ started = {1}
  /\ next = [g \in Gens |-> 0] /\ pend = [g \in Gens |-> {}]
  /\ out = [g \in Gens |-> <<>>]

----------------------------------------------------------------------------
(* The client.                                                             *)

Full == Len(ch) >= ChanLen

\* write: the chunk goes on the channel, at once or when there is room.
Write ==
  /\ up /\ ~Full
  /\ accepted < MaxChunks               \* the bound
  /\ \E z \in Sizes : ch' = Append(ch, [id |-> accepted + 1, size |-> z])
  /\ accepted' = accepted + 1
  /\ UNCHANGED <<up, carry, seq, flying, wire, server>>

\* The ctx is done: workers end, what waits is abandoned, nobody waits for an answer.
Shut ==
  /\ up' = FALSE
  /\ ch' = <<>> /\ carry' = <<>> /\ flying' = {} /\ answers' = {}
  /\ UNCHANGED <<seq, accepted, reqs, get, repeats, server>>

\* Mutant of Close: a deadline that passed closes nothing.
CloseNot == FALSE /\ UNCHANGED vars

\* httpcConn.Close, by its owner or by a read or write deadline that passed.
Close == up /\ Shut

Size(q) == FoldSeq(LAMBDA c, n : c.size + n, 0, q)

\* Mutant of Waiting: the channel is read before the chunk that was set aside.
WaitingCarryLast == ch \o carry

\* The chunks next() reads, in order: the one set aside last time comes first.
Waiting == carry \o ch

\* The batch: the first chunk, and what fits behind it.
Fits(q, k) == k = 1 \/ Size(SubSeq(q, 1, k)) <= MaxBatch
Batch(q) == CHOOSE k \in DOMAIN q : Fits(q, k) /\ (k = Len(q) \/ ~Fits(q, k + 1))

\* next, by a worker that is free: a batch with its number; a chunk that was read and did
\* not fit is set aside.
Take ==
  /\ up /\ Cardinality(flying) < Workers
  /\ Waiting # <<>>
  /\ LET k == Batch(Waiting)
         b == [n |-> seq, ids |-> [j \in 1 .. k |-> Waiting[j].id], size |-> Size(SubSeq(Waiting, 1, k))]
         rest == SubSeq(Waiting, k + 1, Len(Waiting))
         aside == IF rest # <<>> /\ b.size < MaxBatch THEN 1 ELSE 0
     IN /\ flying' = flying \union {b}
        /\ reqs' = reqs \union {[b |-> b, gen |-> None, pooled |-> FALSE]}
        /\ carry' = SubSeq(rest, 1, aside)
        /\ ch' = SubSeq(rest, aside + 1, Len(rest))
  /\ seq' = seq + 1
  /\ UNCHANGED <<up, accepted, answers, get, repeats, server>>

\* worker: 200 or 204, and on to the next; any other answer closes the conn.
Answered(b) ==
  \E a \in answers :
    /\ a.n = b.n
    /\ \/ /\ a.ok
          /\ answers' = answers \ {a} /\ flying' = flying \ {b}
          /\ UNCHANGED <<up, ch, carry, seq, accepted, reqs, get, repeats, server>>
       \/ ~a.ok /\ Shut

\* post: no answer within writeTimeout, which closes the conn as well.
Unanswered(b) == b \in flying /\ Shut

\* runDownStream: a stream that ended is opened again.
SendGet ==
  /\ up /\ ~get
  /\ get' = TRUE
  /\ UNCHANGED <<client, reqs, answers, repeats, server>>

----------------------------------------------------------------------------
(* The network.                                                            *)

Lose(r) ==
  /\ r.gen = None
  /\ reqs' = reqs \ {r}
  /\ UNCHANGED <<client, answers, get, repeats, server>>

\* The edge sends a request on and keeps it, to send it again.
Kept(r) == IF repeats < Repeats THEN {{}, {r}} ELSE {{}}

----------------------------------------------------------------------------
(* The server.                                                             *)

Answer(r, ok) == answers' = IF up THEN answers \union {[n |-> r.b.n, ok |-> ok]} ELSE {}

\* Mutant of Find: a POST creates the session it does not find, and starts no conn.
FindCreates(r) ==
  /\ r.gen = None
  /\ IF table = None /\ made = 1
     THEN made' = 2 /\ open' = open \union {2} /\ table' = 2
     ELSE UNCHANGED <<made, open, table>>
  /\ reqs' = (reqs \ {r}) \union (IF table' = None THEN {} ELSE {[r EXCEPT !.gen = table']})
  /\ UNCHANGED <<client, answers, get, repeats, started, next, pend, out>>

\* Mutant of Find: the buffer is taken from the pool for the batch after the next one too.
FindPools(r) ==
  /\ r.gen = None /\ table # None
  /\ reqs' = (reqs \ {r}) \union {[r EXCEPT !.gen = table, !.pooled = r.b.n <= next[table] + 1]}
  /\ UNCHANGED <<client, answers, get, repeats, server>>

\* httpcHandler, POST: the session is looked up; the body is read into a buffer of the pool
\* if the batch is due at that time.
Find(r) ==
  /\ r.gen = None
  /\ \E keep \in Kept(r) :
       /\ repeats' = repeats + Cardinality(keep)
       /\ IF table = None
          THEN reqs' = (reqs \ {r}) \union keep /\ Answer(r, FALSE)
          ELSE /\ reqs' = (reqs \ {r}) \union keep
                            \union {[r EXCEPT !.gen = table, !.pooled = r.b.n = next[table]]}
               /\ UNCHANGED answers
  /\ UNCHANGED <<client, get, server>>

Held(g) == FoldSet(LAMBDA e, n : e.b.size + n, 0, pend[g])

\* The batches of p that are due in generation g, in order.
Due(g, p) ==
  LET numbers == {e.b.n : e \in p}
      last == CHOOSE k \in next[g] .. next[g] + Cardinality(p) :
                next[g] .. k - 1 \subseteq numbers /\ k \notin numbers
  IN  [j \in 1 .. last - next[g] |-> CHOOSE e \in p : e.b.n = next[g] + j - 1]

\* reseq.deliver, then the answer.  A batch that came before is dropped; one over the limit
\* is refused; else it is kept, and what is due goes to the conn.  The conn of a session
\* that has ended takes nothing: the first batch that is due fails.
Deliver(r) ==
  LET g == r.gen
      p == {e \in pend[g] : e.b.n # r.b.n} \union {[b |-> r.b, pooled |-> r.pooled]}
      due == Due(g, p)
      gone == IF g \in open THEN due ELSE SubSeq(due, 1, IF due = <<>> THEN 0 ELSE 1)
      late == r.b.n < next[g]
      over == Held(g) + r.b.size > PendMax
  IN /\ g # None
     /\ reqs' = reqs \ {r}
     /\ IF late \/ over
        THEN UNCHANGED <<pend, next, out>>
        ELSE /\ pend' = [pend EXCEPT ![g] = p \ {gone[j] : j \in DOMAIN gone}]
             /\ next' = [next EXCEPT ![g] = @ + Len(gone)]
             /\ out' = IF g \in open
                       THEN [out EXCEPT ![g] = @ \o FlattenSeq([j \in DOMAIN gone |-> gone[j].b.ids])]
                       ELSE out
     /\ Answer(r, late \/ (~over /\ (g \in open \/ due = <<>>)))
     /\ UNCHANGED <<client, get, repeats, table, open, made, started>>

\* httpcHandler, GET: the session under the id, or a new one, and its conn is started.
Get ==
  /\ get
  /\ get' = FALSE
  /\ \/ /\ table # None
        /\ started' = started \union {table}
        /\ UNCHANGED <<table, open, made>>
     \/ /\ table = None /\ made + 1 \in Gens
        /\ made' = made + 1 /\ table' = made + 1 /\ open' = open \union {made + 1}
        /\ started' = started \union {made + 1}
     \/ UNCHANGED <<table, open, made, started>>      \* the GET gets lost
  /\ UNCHANGED <<client, reqs, answers, repeats, next, pend, out>>

\* httpcSession.close, from the conn: the session is over ...
End(g) ==
  /\ g \in open /\ g \in started
  /\ open' = open \ {g}
  /\ UNCHANGED <<client, wire, table, made, started, next, pend, out>>

\* ... and leaves the table.
Unlist(g) ==
  /\ g \notin open /\ table = g
  /\ table' = None
  /\ UNCHANGED <<client, wire, open, made, started, next, pend, out>>

----------------------------------------------------------------------------
Next == \/ Write \/ Close \/ Take \/ SendGet \/ Get
        \/ \E b \in flying : Answered(b) \/ Unanswered(b)
        \/ \E r \in reqs : Lose(r) \/ Find(r) \/ Deliver(r)
        \/ \E g \in Gens : End(g) \/ Unlist(g)

Spec == Init /\ [][Next]_vars

\* A generation that has not got the beginning of the stream never answers, one that is
\* over neither: the client's read deadline passes.
Silent == \A g \in open : out[g] = <<>>

\* Nothing comes from the client, or it comes after a gap: the server's read deadline passes.
Starved(g) == ~up \/ Len(out[g]) < accepted

\* Every goroutine runs and every deadline passes: a worker takes what waits and gives up
\* on its post in the end, a handler finishes, a conn nothing comes from is closed.  A conn
\* is started for every session the GET handler creates, and only its deadline is sure to
\* end the session.
Fairness ==
  /\ WF_vars(Take) /\ WF_vars(Get)
  /\ WF_vars(\E b \in flying : Answered(b) \/ Unanswered(b))
  /\ WF_vars(\E r \in reqs : Find(r) \/ Deliver(r))
  /\ WF_vars(Silent /\ Close)
  /\ \A g \in Gens : WF_vars(Starved(g) /\ End(g)) /\ WF_vars(Unlist(g))
FairSpec == Spec /\ Fairness

----------------------------------------------------------------------------
(* Properties.                                                             *)

First == INSTANCE FifoPipe WITH out <- out[1]
Second == INSTANCE FifoPipe WITH out <- out[2]

\* Each generation's conn reads the client's stream from its beginning, in order, nothing
\* twice and nothing left out, however posts overtake each other, are repeated by the edge,
\* are cut into batches with a chunk set aside, or arrive at a later generation.
ImplementsPipe == First!Spec /\ Second!Spec

\* A buffer of the pool never waits behind a gap, where its next user would overwrite it:
\* the check that the batch is due, made before its body was read, still holds when the
\* batch is delivered.
PooledNeverWaits == \A g \in Gens : \A e \in pend[g] : ~e.pooled

\* A chunk that was accepted reaches the server, or the client learns that its session is
\* broken and closes: also when the server has dropped the session and a repeated GET has
\* created it again, so that posts are answered with 204 and lead nowhere.
Delivers == \A id \in 1 .. MaxChunks :
              (accepted >= id) ~> (~up \/ \E g \in Gens : Len(out[g]) >= id)

\* No session outlives its client: a POST or a GET that comes late leaves nothing in the
\* table that nobody would ever close.
SessionsEnd == ~up ~> (table = None /\ open = {})
=============================================================================
