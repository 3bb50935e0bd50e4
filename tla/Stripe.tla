------------------------------- MODULE Stripe -------------------------------
(***************************************************************************)
(* The HTTP carrier's striping: one direction of a session whose records   *)
(* travel over several HTTP streams and are put back in order at the other *)
(* end.  internal/packet/stripe.go (stripeTx, reseq), with the loops that   *)
(* keep the streams open in httpcarrier.go (runGrpcStream, serveHTTPCGrpc,  *)
(* runDownStream).                                                         *)
(*                                                                         *)
(* A record is [n, id]: the number stripeTx gives it and, to tell contents  *)
(* apart, its place in the order of acceptance.  A run is a sequence of     *)
(* records that one Write carries.  Records have size 1, so both limits of  *)
(* a reseq, on records and on bytes, are one.  A stream keeps what was      *)
(* written to it in order; when it breaks, a part of the end of it is lost, *)
(* and the Write under way may have put a part of its run on the stream.    *)
(* A stream is opened again after its reader ended; a new stream beside the *)
(* old reader behaves as one more stream.                                  *)
(***************************************************************************)
EXTENDS Integers, Sequences, FiniteSets, SequencesExt

CONSTANTS Kinds,        \* the kinds of session that are explored: gRPC (TRUE), POST (FALSE)
          Streams,      \* 1 .. carrierStreams
          QueueLen,     \* stripeQueue
          Batch,        \* stripeWriteBytes, in records
          Floor,        \* reseq.floor, in records
          PerStream,    \* perStreamPend, in records
          MaxRecords,   \* bound on the records that are accepted
          MaxBreaks     \* bound on the streams that break, per kind of session

ASSUME KindsAssumption == Kinds \subseteq BOOLEAN
ASSUME StreamsAssumption == Streams \in Nat \ {0}
ASSUME QueueAssumption == {QueueLen, Batch, Floor} \subseteq Nat \ {0} /\ PerStream \in Nat
ASSUME BoundsAssumption == MaxRecords \in Nat /\ MaxBreaks \in [BOOLEAN -> Nat]

VARIABLES grpc,       \* the session's kind: streams are counted and the last one ends it
          seq,        \* stripeTx.seq
          work,       \* stripeTx.work
          hand,       \* the run a stream's serve has taken from work
          st,         \* where each stream's serve is
          pipe,       \* what was written to a stream and not read yet
          reader,     \* a stream's readStripe: on, ended but still attached, off
          broken,     \* the stream's connection has died
          next, pend, \* reseq.next, reseq.pend
          closed,     \* done is closed, the session is over
          expired,    \* a write ran into its deadline, its caller will close
          breaks,     \* streams that broke so far
          accepted,   \* history: records accepted
          out,        \* history: what was written to the pipe behind the reseq
          lost        \* history: written to a stream without an error, never read

tx == <<seq, work, accepted, expired>>
rx == <<next, pend, out>>
stream == <<hand, st, pipe, reader, broken, breaks, lost>>
vars == <<grpc, tx, rx, stream, closed>>

S == 1 .. Streams

Init ==
  /\ grpc \in Kinds
  /\ seq = 0 /\ work = <<>> /\ accepted = 0 /\ expired = FALSE
  /\ next = 0 /\ pend = {} /\ out = <<>>
  /\ hand = [s \in S |-> <<>>]
  /\ st = [s \in S |-> IF s = 1 THEN "serve" ELSE "down"]
  /\ pipe = [s \in S |-> <<>>]
  /\ reader = [s \in S |-> IF s = 1 THEN "on" ELSE "off"]
  /\ broken = [s \in S |-> FALSE]
  /\ breaks = 0 /\ lost = {}
  /\ closed = FALSE

----------------------------------------------------------------------------
(* The sender: stripeTx.                                                   *)

Full == Len(work) >= QueueLen

\* write: number the record and offer it, under mu; the number is used up when the
\* offer is taken.  A write that waits for room is one that happens later.
Write ==
  /\ ~closed
  /\ accepted < MaxRecords              \* the bound
  /\ ~Full
  /\ work' = Append(work, <<[n |-> seq, id |-> accepted + 1]>>)
  /\ seq' = seq + 1
  /\ accepted' = accepted + 1
  /\ UNCHANGED <<grpc, expired, rx, stream, closed>>

\* Mutant of Expire: a write waits for room without a deadline.
ExpireNever == FALSE /\ UNCHANGED vars

\* offer: no room until the deadline.  The caller gets an error, and drops the carrier.
Expire ==
  /\ ~closed /\ Full /\ ~expired
  /\ expired' = TRUE
  /\ UNCHANGED <<grpc, seq, work, accepted, rx, stream, closed>>

Drop ==
  /\ expired /\ ~closed
  /\ closed' = TRUE
  /\ UNCHANGED <<grpc, tx, rx, stream>>

At(s, label) == st[s] = label
Move(s, label) == st' = [st EXCEPT ![s] = label]

\* serve: a run from the queue ...
Take(s) ==
  /\ At(s, "serve") /\ work # <<>>
  /\ hand' = [hand EXCEPT ![s] = Head(work)]
  /\ work' = Tail(work)
  /\ Move(s, "gather")
  /\ UNCHANGED <<grpc, seq, accepted, expired, rx, pipe, reader, broken, breaks, lost, closed>>

\* ... gather: with the next one if there is one, and what else is there up to the
\* size of a write.
Gather(s) ==
  /\ st[s] \in {"gather", "more"}
  /\ IF work # <<>> /\ (At(s, "gather") \/ Len(hand[s]) < Batch)
     THEN /\ hand' = [hand EXCEPT ![s] = @ \o Head(work)]
          /\ work' = Tail(work)
          /\ Move(s, "more")
     ELSE Move(s, "write") /\ UNCHANGED <<hand, work>>
  /\ UNCHANGED <<grpc, seq, accepted, expired, rx, pipe, reader, broken, breaks, lost, closed>>

\* writeRecord succeeds ...
WriteOk(s) ==
  /\ At(s, "write") /\ ~broken[s]
  /\ pipe' = [pipe EXCEPT ![s] = @ \o hand[s]]
  /\ hand' = [hand EXCEPT ![s] = <<>>]
  /\ Move(s, "serve")
  /\ UNCHANGED <<grpc, tx, rx, reader, broken, breaks, lost, closed>>

\* ... or fails.
WriteFails(s) ==
  /\ At(s, "write") /\ broken[s]
  /\ Move(s, "requeue")
  /\ UNCHANGED <<grpc, tx, rx, hand, pipe, reader, broken, breaks, lost, closed>>

\* A stream's serve returns.  A gRPC stream then waits for its other direction to end.
Returns(s) == Move(s, IF grpc THEN "ended" ELSE "down") /\ UNCHANGED closed

\* attach(-1) at the sender's end: the session ends with its last gRPC stream.
SenderDetaches(s) ==
  /\ At(s, "ended")
  /\ Move(s, "down")
  /\ closed' = (closed \/ \A o \in S \ {s} : st[o] = "down")
  /\ UNCHANGED <<grpc, tx, rx, hand, pipe, reader, broken, breaks, lost>>

\* Mutant of Requeue: the run is dropped.
RequeueDrops(s) ==
  /\ At(s, "requeue")
  /\ hand' = [hand EXCEPT ![s] = <<>>]
  /\ Returns(s)
  /\ UNCHANGED <<grpc, tx, rx, pipe, reader, broken, breaks, lost>>

\* Mutant of Requeue: it waits for room only.
RequeueWaits(s) ==
  /\ At(s, "requeue")
  /\ ~Full /\ work' = Append(work, hand[s])
  /\ hand' = [hand EXCEPT ![s] = <<>>]
  /\ Returns(s)
  /\ UNCHANGED <<grpc, seq, accepted, expired, rx, pipe, reader, broken, breaks, lost>>

\* requeue: the whole run goes back, and waits for room or for the end of the session.
Requeue(s) ==
  /\ At(s, "requeue")
  /\ \/ ~Full /\ work' = Append(work, hand[s])
     \/ closed /\ UNCHANGED work
  /\ hand' = [hand EXCEPT ![s] = <<>>]
  /\ Returns(s)
  /\ UNCHANGED <<grpc, seq, accepted, expired, rx, pipe, reader, broken, breaks, lost>>

\* serve ends while it waits: its stream died or the session is over.
ServeEnds(s) ==
  /\ At(s, "serve") /\ (broken[s] \/ closed)
  /\ Returns(s)
  /\ UNCHANGED <<grpc, tx, rx, hand, pipe, reader, broken, breaks, lost>>

\* The loop around serve opens the stream again after stripeRetry.
Reopen(s) ==
  /\ At(s, "down") /\ reader[s] = "off" /\ ~closed
  /\ Move(s, "serve")
  /\ reader' = [reader EXCEPT ![s] = "on"]
  /\ broken' = [broken EXCEPT ![s] = FALSE]
  /\ UNCHANGED <<grpc, tx, rx, hand, pipe, breaks, lost, closed>>

----------------------------------------------------------------------------
(* The streams.                                                            *)

Records(q) == {q[j] : j \in DOMAIN q}

\* A connection dies: the other end still reads some beginning of what was written,
\* which may reach into the run that is being written.
Break(s) ==
  /\ reader[s] = "on" /\ ~broken[s] /\ st[s] # "down"
  /\ breaks < MaxBreaks[grpc]               \* the bound
  /\ breaks' = breaks + 1
  /\ broken' = [broken EXCEPT ![s] = TRUE]
  /\ \E k \in 0 .. Len(pipe[s]) + (IF At(s, "write") THEN Len(hand[s]) ELSE 0) :
       /\ pipe' = [pipe EXCEPT ![s] = SubSeq(@ \o hand[s], 1, k)]
       /\ lost' = lost \union (Records(pipe[s]) \ Records(pipe'[s]))
  /\ UNCHANGED <<grpc, tx, rx, hand, st, reader, closed>>

----------------------------------------------------------------------------
(* The receiver: readStripe and reseq.                                     *)

Attached == Cardinality({s \in S : reader[s] # "off"})

\* attach and setMax: the limit follows the number of streams.
Limit == IF grpc THEN Floor + Attached * PerStream ELSE Floor

Numbers(p) == {r.n : r \in p}

\* Mutant of Run: what is pending goes out without waiting for the gap to close.
RunOverGap(p) == SetToSortSeq(p, LAMBDA a, b : a.n < b.n)

\* The records of p that are due from next on, in order.
Run(p) == LET last == CHOOSE k \in next .. next + Cardinality(p) :
                        /\ next .. k - 1 \subseteq Numbers(p)
                        /\ k \notin Numbers(p)
          IN  [j \in 1 .. last - next |-> CHOOSE r \in p : r.n = next + j - 1]

\* deliver: a record that came before is dropped; one that exceeds the limit ends the
\* session; another one is kept, in place of its twin, and everything that is due goes out.
Deliver(r) ==
  \/ /\ r.n < next
     /\ UNCHANGED <<rx, closed>>
  \/ /\ r.n >= next /\ Cardinality(pend) >= Limit
     /\ closed' = TRUE
     /\ UNCHANGED rx
  \/ /\ r.n >= next /\ Cardinality(pend) < Limit
     /\ LET p == {o \in pend : o.n # r.n} \union {r}
            due == Run(p)
        IN /\ pend' = p \ Records(due)
           /\ next' = next + Len(due)
           /\ out' = out \o [j \in DOMAIN due |-> due[j].id]
     /\ UNCHANGED closed

Read(s) ==
  /\ reader[s] = "on" /\ pipe[s] # <<>> /\ ~closed
  /\ Deliver(Head(pipe[s]))
  /\ pipe' = [pipe EXCEPT ![s] = Tail(@)]
  /\ UNCHANGED <<grpc, tx, hand, st, reader, broken, breaks, lost>>

\* readStripe ends with its stream ...
ReadEnds(s) ==
  /\ reader[s] = "on" /\ (closed \/ (broken[s] /\ pipe[s] = <<>>))
  /\ reader' = [reader EXCEPT ![s] = IF grpc THEN "ended" ELSE "off"]
  /\ UNCHANGED <<grpc, tx, rx, hand, st, pipe, broken, breaks, lost, closed>>

\* ... and attach(-1) follows at the receiver's end.
ReceiverDetaches(s) ==
  /\ reader[s] = "ended"
  /\ reader' = [reader EXCEPT ![s] = "off"]
  /\ closed' = (closed \/ Attached = 1)
  /\ UNCHANGED <<grpc, tx, rx, hand, st, pipe, broken, breaks, lost>>

----------------------------------------------------------------------------
Serve(s) == Take(s) \/ Gather(s) \/ WriteOk(s) \/ WriteFails(s) \/ Requeue(s) \/ ServeEnds(s)
            \/ SenderDetaches(s)
Receive(s) == Read(s) \/ ReadEnds(s) \/ ReceiverDetaches(s)

Next == \/ Write \/ Expire \/ Drop
        \/ \E s \in S : Serve(s) \/ Receive(s) \/ Reopen(s) \/ Break(s)

Spec == Init /\ [][Next]_vars

\* Every goroutine runs, a retry comes, and a deadline passes while the queue stays full.
Fairness == /\ \A s \in S : WF_vars(Serve(s)) /\ WF_vars(Receive(s)) /\ WF_vars(Reopen(s))
            /\ WF_vars(Expire) /\ WF_vars(Drop)
FairSpec == Spec /\ Fairness

----------------------------------------------------------------------------
(* Properties.                                                             *)

Pipe == INSTANCE FifoPipe

\* However records are spread over streams, gathered, cut off in the middle of a write
\* and written again, they come out in the order of acceptance, each once.
ImplementsPipe == Pipe!Spec

\* Every record that was accepted is somewhere while the session lives: it came out, it
\* waits behind a gap, it is queued, in a serve's hands or on a stream.  The one way to
\* lose it is to die on a stream that had taken it without an error.
NoneVanishes ==
  ~closed =>
    \A id \in 1 .. accepted :
      \/ id <= Len(out)
      \/ \E r \in pend \union lost \union (UNION {Records(work[k]) : k \in DOMAIN work})
                 \union (UNION {Records(hand[s]) \union Records(pipe[s]) : s \in S}) : r.id = id

\* As long as nothing is lost that way, every accepted record comes out or the session
\* ends: streams that all fail at once with the queue full, each waiting for room to
\* put its run back, do not hold it up for ever.
Delivers == \A id \in 1 .. MaxRecords :
              (accepted >= id) ~> (Len(out) >= id \/ closed \/ \E r \in lost : r.id > Len(out))

\* Once the session is over every stream lets go: no serve stays behind in a requeue
\* that waits for room in a queue nobody empties any more.
Unwinds == closed ~> \A s \in S : st[s] = "down" /\ reader[s] = "off" /\ hand[s] = <<>>
=============================================================================
