------------------------------ MODULE FecStream ------------------------------
(***************************************************************************)
(* Forward error correction of a datagram carrier                          *)
(* (internal/packet/fec_stream.go): fecEncoder gathers sealed frames into  *)
(* blocks and adds parity shards, fecDecoder hands frames up and rebuilds  *)
(* lost ones.                                                              *)
(*                                                                         *)
(* The network loses, reorders and repeats shards: those sent stay in net  *)
(* and each may be taken any number of times.  The sender's process may    *)
(* restart, and its block numbers then start at 0 while the decoder keeps   *)
(* old blocks with these numbers; and the session may be re-keyed.  The    *)
(* decoder forgets its blocks when a new session is first heard, by a      *)
(* flag the next input consumes: the frame that sets it is handed up from  *)
(* within input.                                                           *)
(*                                                                         *)
(* A frame is a byte, different for every frame; shards have one length,   *)
(* which is the unit of MaxBytes.  Headers are authentic.                  *)
(***************************************************************************)
EXTENDS FecCodec

CONSTANTS MaxFrames,     \* bound on frames for each code <<n, k>> that is explored, n data
                         \* and k parity shards to a block
          KeepBlocks,    \* fecKeepBlocks
          MaxBytes,      \* fecMaxBytes
          MaxSessions    \* bound on sessions

Codes == DOMAIN MaxFrames

ASSUME CodesAssumption == \A c \in Codes : c[1] \in 1 .. 64 /\ c[2] \in Nat \ {0} /\ c[1] + c[2] <= 255
ASSUME LimitsAssumption == KeepBlocks \in Nat \ {0} /\ MaxBytes \in Nat \ {0, 1}
ASSUME BoundsAssumption == MaxFrames \in [Codes -> 0 .. 254] /\ MaxSessions \in Nat

VARIABLES n, k,          \* the code, the same at both ends
          \* fecEncoder, and the sender's process and session
          block, shards, timer, closed,
          firings,       \* timer callbacks that wait for mu
          process, session, frames,
          net,           \* the shards sent
          sealedIn,      \* history: the session each frame was sealed in
          sent,          \* history: the frames of each block sent, by process and number
          \* fecDecoder, and the receiver's session
          blocks, order, bytes, resetPending,
          opened         \* the newest session the receiver has opened a frame of

encoder == <<block, shards, timer, closed, firings, process, session, frames, net, sealedIn, sent>>
decoder == <<blocks, order, bytes, resetPending, opened>>
vars == <<n, k, encoder, decoder>>

Init ==
  /\ \E c \in Codes : n = c[1] /\ k = c[2]
  /\ block = 0 /\ shards = <<>> /\ timer = "off" /\ closed = FALSE /\ firings = 0
  /\ process = 1 /\ session = 1 /\ frames = 0
  /\ net = {} /\ sealedIn = <<>> /\ sent = [p \in 1 .. MaxSessions |-> <<>>]
  /\ blocks = <<>> /\ order = <<>> /\ bytes = 0 /\ resetPending = FALSE /\ opened = 1

----------------------------------------------------------------------------
(* The encoder.                                                            *)

\* Parity shards of a block with count frames, rounded up.
kEff(count) == (k * count + n - 1) \div n

\* A shard as it is sent: what its header says, and its contents.
Shard(count, slot, v) == [process |-> process, blk |-> block, count |-> count, slot |-> slot, v |-> v]

\* The shards of a block of the frames q: all-zero data fills it up for the parity.
Shards(q) ==
  LET count == Len(q)
      data == [i \in 0 .. n - 1 |-> IF i < count THEN q[i + 1] ELSE 0]
      parity == Encode(n, k, data)
  IN {Shard(count, i, data[i]) : i \in 0 .. count - 1}
       \union {Shard(count, n + i, parity[i]) : i \in 0 .. kEff(count) - 1}

\* emit: every shard of the block is sent.
sendFecBlock(q) ==
  /\ net' = net \union Shards(q)
  /\ sent' = [sent EXCEPT ![process] = Append(@, q)]

\* Mutant of Flush: the timer that has fired is not forgotten, and never set again.
FlushKeepsTimer(q) ==
  /\ UNCHANGED timer
  /\ IF closed \/ q = <<>>
     THEN shards' = q /\ UNCHANGED <<block, net, sent>>
     ELSE shards' = <<>> /\ block' = block + 1 /\ sendFecBlock(q)

\* flushLocked
Flush(q) ==
  /\ timer' = "off"
  /\ IF closed \/ q = <<>>
     THEN shards' = q /\ UNCHANGED <<block, net, sent>>
     ELSE shards' = <<>> /\ block' = block + 1 /\ sendFecBlock(q)

addData ==
  /\ ~closed /\ frames < MaxFrames[<<n, k>>]          \* the bound
  /\ frames' = frames + 1 /\ sealedIn' = Append(sealedIn, session)
  /\ LET q == Append(shards, frames')
     IN IF Len(q) >= n THEN Flush(q)
        ELSE /\ shards' = q
             /\ timer' = IF timer = "off" THEN "set" ELSE timer
             /\ UNCHANGED <<block, net, sent>>
  /\ UNCHANGED <<n, k, closed, firings, process, session, decoder>>

\* The timer fires, and its callback waits for mu; a full block may go first.
Fire ==
  /\ timer = "set"
  /\ timer' = "fired" /\ firings' = firings + 1
  /\ UNCHANGED <<n, k, block, shards, closed, process, session, frames, net, sealedIn, sent, decoder>>

TimerFlush ==
  /\ firings > 0
  /\ firings' = firings - 1
  /\ Flush(shards)
  /\ UNCHANGED <<n, k, closed, process, session, frames, sealedIn, decoder>>

Close ==
  /\ ~closed
  /\ closed' = TRUE /\ timer' = "off"
  /\ UNCHANGED <<n, k, block, shards, firings, process, session, frames, net, sealedIn, sent, decoder>>

\* The sender's process starts again: a new encoder and a new session.
Restart ==
  /\ session < MaxSessions                  \* the bound
  /\ process' = process + 1 /\ session' = session + 1
  /\ block' = 0 /\ shards' = <<>> /\ timer' = "off" /\ closed' = FALSE /\ firings' = 0
  /\ UNCHANGED <<n, k, frames, net, sealedIn, sent, decoder>>

\* A new handshake of the same process.
Rekey ==
  /\ session < MaxSessions                  \* the bound
  /\ session' = session + 1
  /\ UNCHANGED <<n, k, block, shards, timer, closed, firings, process, frames, net, sealedIn, sent, decoder>>

----------------------------------------------------------------------------
(* The decoder.  A decoder state d has the fields blocks, order (their      *)
(* numbers by arrival) and bytes.                                          *)

Dropped == [blocks |-> <<>>, order |-> <<>>, bytes |-> 0]

\* Mutant of Evict: the bytes of the blocks are not given back.
EvictLeaks(d, m) ==
  [d EXCEPT !.order = SubSeq(@, m + 1, Len(@)),
            !.blocks = Restrict(@, DOMAIN @ \ ToSet(SubSeq(d.order, 1, m)))]

\* evictOldestLocked, m times.
Evict(d, m) ==
  LET old == ToSet(SubSeq(d.order, 1, m))
  IN [blocks |-> Restrict(d.blocks, DOMAIN d.blocks \ old),
      order |-> SubSeq(d.order, m + 1, Len(d.order)),
      bytes |-> d.bytes - SumFunction([b \in old |-> d.blocks[b].bytes])]

\* A new block: old ones go until there is room for it, its padding (one buffer, however
\* many slots) counts as present, and the oldest goes beyond KeepBlocks.
Begin(d, s) ==
  LET pads == [i \in s.count .. n - 1 |-> 0]
      pad == IF s.count < n THEN 1 ELSE 0
      m == Min({i \in 0 .. Len(d.order) : Evict(d, i).bytes + pad + 1 <= MaxBytes \/ i = Len(d.order)})
      e == Evict(d, m)
      new == [count |-> s.count, shards |-> pads, bytes |-> pad, done |-> FALSE, gaveOut |-> {},
              from |-> {}, up |-> {}, again |-> {}]
      f == [blocks |-> e.blocks @@ (s.blk :> new), order |-> Append(e.order, s.blk), bytes |-> e.bytes + pad]
  IN Evict(f, Max({0, Len(f.order) - KeepBlocks}))

\* The decoder input looks at: forgotten if a new session asked for it, with the block.
Entered(s) ==
  LET d == IF resetPending THEN Dropped ELSE [blocks |-> blocks, order |-> order, bytes |-> bytes]
  IN IF s.blk \in DOMAIN d.blocks THEN d ELSE Begin(d, s)

\* handleCrypto, called from input: the first frame of a newer session resets the decoder.
Opens(frame) == frame \in DOMAIN sealedIn /\ sealedIn[frame] > opened
Deliver(handed) ==
  LET newer == {sealedIn[f] : f \in {g \in handed : Opens(g)}}
  IN /\ opened' = Max(newer \union {opened})
     /\ resetPending' = (newer # {})

Becomes(d) == blocks' = d.blocks /\ order' = d.order /\ bytes' = d.bytes

\* The frame of a data shard, but for a shard the network repeats after NoRoom has handed
\* it up: that one comes out as often as it comes in.
First(b, s) == IF s.slot < n /\ s.slot \notin b.gaveOut THEN {s.v} ELSE {}

\* What the block b has handed up, with the frames of handed.
Noted(b, handed) == [b EXCEPT !.up = @ \union handed, !.again = @ \union (b.up \intersect handed)]

IsData(s) == s.slot < n

\* A shard of another block with this number.
Foreign(d, s) ==
  /\ d.blocks[s.blk].count # s.count
  /\ Becomes(d)
  /\ Deliver(IF IsData(s) THEN {s.v} ELSE {})

\* A shard that has come before, or that is not needed any more.
Known(d, s) ==
  LET b == d.blocks[s.blk]
  IN /\ b.count = s.count
     /\ b.done \/ s.slot \in DOMAIN b.shards
     /\ Becomes(d) /\ Deliver({})

\* No room for it: data is handed up and not kept.
NoRoom(d, s) ==
  LET b == d.blocks[s.blk]
      handed == IF IsData(s) THEN {s.v} ELSE {}
  IN /\ b.count = s.count /\ ~b.done /\ s.slot \notin DOMAIN b.shards
     /\ d.bytes + 1 > MaxBytes
     /\ Becomes([d EXCEPT !.blocks[s.blk] =
                   Noted([b EXCEPT !.gaveOut = IF IsData(s) THEN @ \union {s.slot} ELSE @,
                                   !.from = @ \union {s.process}], First(b, s))])
     /\ Deliver(handed)

\* Mutant of Rebuilt: what was handed up for lack of room is handed up again.
RebuiltAgain(b, data) == {data[i] : i \in {j \in 0 .. b.count - 1 : j \notin DOMAIN b.shards}}

\* The frames a reconstruction hands up.
Rebuilt(b, data) ==
  {data[i] : i \in {j \in 0 .. b.count - 1 : j \notin DOMAIN b.shards \union b.gaveOut}}

\* The shard is kept; n of them are enough.
Keep(d, s) ==
  LET b == d.blocks[s.blk]
      c == [b EXCEPT !.shards = @ @@ (s.slot :> s.v), !.bytes = @ + 1, !.from = @ \union {s.process}]
      direct == IF IsData(s) THEN {s.v} ELSE {}
      data == Reconstruct(n, k, c.shards)
      enough == Cardinality(DOMAIN c.shards) >= n /\ data # Singular
      rebuilt == IF enough THEN Rebuilt(c, data) ELSE {}
  IN /\ b.count = s.count /\ ~b.done /\ s.slot \notin DOMAIN b.shards
     /\ d.bytes + 1 <= MaxBytes
     /\ Becomes([d EXCEPT !.bytes = @ + 1,
                          !.blocks[s.blk] = Noted(Noted([c EXCEPT !.done = enough], First(b, s)), rebuilt)])
     /\ Deliver(direct \union rebuilt)

input(s) ==
  /\ s \in net
  /\ LET d == Entered(s) IN Foreign(d, s) \/ Known(d, s) \/ NoRoom(d, s) \/ Keep(d, s)
  /\ UNCHANGED <<n, k, encoder>>

\* A ping or a handshake answer of the new session, which are not put into blocks
\* (fecTag): the session is opened and the decoder told to forget.
Pass ==
  /\ opened < session
  /\ opened' = session /\ resetPending' = TRUE
  /\ UNCHANGED <<n, k, encoder, blocks, order, bytes>>

----------------------------------------------------------------------------
Next == \/ addData \/ Fire \/ TimerFlush \/ Close \/ Restart \/ Rekey
        \/ \E s \in net : input(s)
        \/ Pass

Spec == Init /\ [][Next]_vars

\* The runtime fires timers and lets their callbacks run.
FairSpec == Spec /\ WF_vars(Fire) /\ WF_vars(TimerFlush)

----------------------------------------------------------------------------
(* Properties.                                                             *)

\* Only shards of one process's block are in b.
Pure(b) == Cardinality(b.from) <= 1

FramesOf(blk, b) == UNION {ToSet(sent[p][blk + 1]) : p \in b.from}

\* A block that has as many distinct shards as it has frames, any of them, has handed up
\* every frame it was made of, with its contents, wherever the block was full or flushed
\* early and whatever came before in its place; only a block in which shards of two
\* processes met is lost.
AnyCountSuffices ==
  \A blk \in DOMAIN blocks :
    LET b == blocks[blk]
    IN (Pure(b) /\ Cardinality(DOMAIN b.shards) >= n) => FramesOf(blk, b) \subseteq b.up

\* A block never hands up a frame twice, or something the sender did not send, though a
\* frame may come out as it arrives, for lack of room, or by reconstruction.  (A shard the
\* network repeats while there is no room is handed up each time.)
OncePerStay ==
  \A blk \in DOMAIN blocks :
    LET b == blocks[blk] IN Pure(b) => b.again = {} /\ b.up \subseteq FramesOf(blk, b)

\* The byte count is the bytes of the kept blocks and within the limit, after every
\* eviction, reset and refusal: a drift would end in refusing everything.
BytesAccounted ==
  /\ bytes = SumFunction([blk \in DOMAIN blocks |-> blocks[blk].bytes])
  /\ bytes <= MaxBytes /\ Len(order) <= KeepBlocks /\ ToSet(order) = DOMAIN blocks

\* A frame does not wait for a block to fill: the timer sends it, although full blocks and
\* callbacks that come late stop and clear the timer.
PartialBlockLeaves == (shards # <<>>) ~> (shards = <<>> \/ closed)
=============================================================================
