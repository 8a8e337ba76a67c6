----------------------------- MODULE SyncHandler -----------------------------
(***************************************************************************)
(* The generic sync handler of the peer-to-peer service and the range      *)
(* handler it runs for each of the five domains (sync_handlers.rs and      *)
(* handlers_impl.rs of crates/client/p2p, which lib.rs registers in        *)
(* MadaraP2p::new).  Those two files are not among the sources at hand:    *)
(* the module is written from the design description of the service.       *)
(*                                                                         *)
(* A peer asks for the blocks [a, b) of one domain.  The framework starts  *)
(* a task for the request; the task checks the range against the height of *)
(* the chain, then reads block after block from storage and puts one part  *)
(* per block on its output channel; the framework forwards the parts to    *)
(* the peer in that order.  The channel is bounded: a full channel suspends *)
(* the task.  A peer that drops the stream closes the channel, and the     *)
(* task stops at its next send.  Requests of several peers run side by     *)
(* side, and the node goes on storing blocks meanwhile.                    *)
(***************************************************************************)
EXTENDS Integers, Sequences, FiniteSets, SequencesExt

CONSTANTS
    Requests,         \* the requests in flight: one per peer and domain
    MaxHeight,        \* the chain stops growing at this height
    InitialHeights,   \* the heights the chain may have when the requests come
    ChannelCapacity   \* the capacity of a task's output channel

ASSUME
    /\ IsFiniteSet(Requests)
    /\ MaxHeight \in Nat /\ InitialHeights \subseteq 0..MaxHeight
    /\ ChannelCapacity \in Nat \ {0}

VARIABLES
    height,     \* storage: the number of the latest block
    state,      \* per request: see States
    range,      \* per request: the bounds <<a, b>> asked for
    limit,      \* per request: the end of the range after validation
    cursor,     \* per request: the next block to read
    inHand,     \* per request: the block read and not yet sent, or 0 blocks
    channel,    \* per request: the parts on the output channel
    open,       \* per request: the peer still holds the stream
    delivered,  \* per request: the parts the peer has received
    reads,      \* per request: the storage reads made
    readsAtDrop \* per request: the reads made when the peer dropped the stream

vars == <<height, state, range, limit, cursor, inHand, channel, open,
          delivered, reads, readsAtDrop>>

\* "idle": not yet sent; "received": the task is started; "processing": the
\* range is validated; "completed" and "aborted" end the task.
States == {"idle", "received", "processing", "completed", "aborted"}
Ended == {"completed", "aborted"}

Blocks == 0..MaxHeight

\* The smaller of two numbers.
Least(m, n) == IF m <= n THEN m ELSE n

-----------------------------------------------------------------------------
(* The peer *)

\* Faulty variant: a request whose stream has ended is started once more.
RequestAgain(r) ==
    /\ state[r] \in {"idle", "completed", "aborted"}
    /\ \E a \in Blocks, b \in 0..(MaxHeight + 2) :
          /\ a <= b
          /\ range' = [range EXCEPT ![r] = <<a, b>>]
    /\ state' = [state EXCEPT ![r] = "received"]
    /\ UNCHANGED <<height, limit, cursor, inHand, channel, open, delivered,
                   reads, readsAtDrop>>

\* A peer sends a request for [a, b); the framework starts its task.
Request(r) ==
    /\ state[r] = "idle"
    /\ \E a \in Blocks, b \in 0..(MaxHeight + 2) :
          /\ a <= b
          /\ range' = [range EXCEPT ![r] = <<a, b>>]
    /\ state' = [state EXCEPT ![r] = "received"]
    /\ UNCHANGED <<height, limit, cursor, inHand, channel, open, delivered,
                   reads, readsAtDrop>>

\* The framework forwards the oldest part of the channel to the peer.
Forward(r) ==
    /\ open[r]
    /\ channel[r] # <<>>
    /\ delivered' = [delivered EXCEPT ![r] = Append(@, Head(channel[r]))]
    /\ channel' = [channel EXCEPT ![r] = Tail(@)]
    /\ UNCHANGED <<height, state, range, limit, cursor, inHand, open, reads,
                   readsAtDrop>>

\* The peer drops the stream, or its connection is lost: the channel is
\* closed and what it still held is gone.
Drop(r) ==
    /\ open[r]
    /\ state[r] # "idle"
    /\ open' = [open EXCEPT ![r] = FALSE]
    /\ channel' = [channel EXCEPT ![r] = <<>>]
    /\ readsAtDrop' = [readsAtDrop EXCEPT ![r] = reads[r]]
    /\ UNCHANGED <<height, state, range, limit, cursor, inHand, delivered, reads>>

-----------------------------------------------------------------------------
(* The handler task of one request *)

\* The range is checked against the current height: the stream stops at the
\* known height, and a range that starts above it is answered with nothing.
Validate(r) ==
    /\ state[r] = "received"
    /\ limit' = [limit EXCEPT ![r] = Least(range[r][2], height + 1)]
    /\ cursor' = [cursor EXCEPT ![r] = range[r][1]]
    /\ state' = [state EXCEPT ![r] = "processing"]
    /\ UNCHANGED <<height, range, inHand, channel, open, delivered, reads,
                   readsAtDrop>>

\* Faulty variant: the task reads ahead while a block waits to be sent.
ReadBlockAhead(r) ==
    /\ state[r] = "processing"
    /\ cursor[r] < limit[r]
    /\ reads' = [reads EXCEPT ![r] = @ + 1]
    /\ \/ /\ inHand' = [inHand EXCEPT ![r] = Append(@, cursor[r])]
          /\ cursor' = [cursor EXCEPT ![r] = @ + 1]
          /\ UNCHANGED state
       \/ /\ state' = [state EXCEPT ![r] = "aborted"]
          /\ UNCHANGED <<inHand, cursor>>
    /\ UNCHANGED <<height, range, limit, channel, open, delivered, readsAtDrop>>

\* The next block of the range is read from storage; a storage fault ends
\* the task and the stream.
ReadBlock(r) ==
    /\ state[r] = "processing"
    /\ inHand[r] = <<>>
    /\ cursor[r] < limit[r]
    /\ reads' = [reads EXCEPT ![r] = @ + 1]
    /\ \/ /\ inHand' = [inHand EXCEPT ![r] = <<cursor[r]>>]
          /\ cursor' = [cursor EXCEPT ![r] = @ + 1]
          /\ UNCHANGED state
       \/ /\ state' = [state EXCEPT ![r] = "aborted"]
          /\ UNCHANGED <<inHand, cursor>>
    /\ UNCHANGED <<height, range, limit, channel, open, delivered, readsAtDrop>>

\* Faulty variant: a send on a closed channel is not noticed.
SendPartBlind(r) ==
    /\ state[r] = "processing"
    /\ inHand[r] # <<>>
    /\ Len(channel[r]) < ChannelCapacity
    /\ channel' = [channel EXCEPT ![r] = IF open[r] THEN Append(@, Head(inHand[r])) ELSE @]
    /\ inHand' = [inHand EXCEPT ![r] = Tail(@)]
    /\ UNCHANGED <<height, state, range, limit, cursor, open, delivered, reads,
                   readsAtDrop>>

\* Faulty variant: the send does not wait for room on the channel.
SendPartUnbounded(r) ==
    /\ state[r] = "processing"
    /\ inHand[r] # <<>>
    /\ open[r]
    /\ channel' = [channel EXCEPT ![r] = Append(@, Head(inHand[r]))]
    /\ inHand' = [inHand EXCEPT ![r] = Tail(@)]
    /\ UNCHANGED <<height, state, range, limit, cursor, open, delivered, reads,
                   readsAtDrop>>

\* Faulty variant: a send on a closed channel waits for ever.
SendPartNeverFails(r) ==
    /\ state[r] = "processing"
    /\ inHand[r] # <<>>
    /\ open[r]
    /\ Len(channel[r]) < ChannelCapacity
    /\ channel' = [channel EXCEPT ![r] = Append(@, Head(inHand[r]))]
    /\ inHand' = [inHand EXCEPT ![r] = Tail(@)]
    /\ UNCHANGED <<height, state, range, limit, cursor, open, delivered, reads,
                   readsAtDrop>>

\* The block in hand is put on the channel.  The send waits while the
\* channel is full, and fails when the channel is closed: the task stops.
SendPart(r) ==
    /\ state[r] = "processing"
    /\ inHand[r] # <<>>
    /\ \/ /\ open[r]
          /\ Len(channel[r]) < ChannelCapacity
          /\ channel' = [channel EXCEPT ![r] = Append(@, Head(inHand[r]))]
          /\ inHand' = [inHand EXCEPT ![r] = Tail(@)]
          /\ UNCHANGED state
       \/ /\ ~open[r]
          /\ state' = [state EXCEPT ![r] = "aborted"]
          /\ UNCHANGED <<channel, inHand>>
    /\ UNCHANGED <<height, range, limit, cursor, open, delivered, reads,
                   readsAtDrop>>

\* Faulty variant: the task ends while a block is still in its hand.
FinishEarly(r) ==
    /\ state[r] = "processing"
    /\ cursor[r] >= limit[r]
    /\ state' = [state EXCEPT ![r] = "completed"]
    /\ UNCHANGED <<height, range, limit, cursor, inHand, channel, open,
                   delivered, reads, readsAtDrop>>

\* The range is exhausted: the handler returns and the stream ends.
Finish(r) ==
    /\ state[r] = "processing"
    /\ inHand[r] = <<>>
    /\ cursor[r] >= limit[r]
    /\ state' = [state EXCEPT ![r] = "completed"]
    /\ UNCHANGED <<height, range, limit, cursor, inHand, channel, open,
                   delivered, reads, readsAtDrop>>

-----------------------------------------------------------------------------
(* The rest of the node *)

StoreBlock ==
    /\ height < MaxHeight
    /\ height' = height + 1
    /\ UNCHANGED <<state, range, limit, cursor, inHand, channel, open,
                   delivered, reads, readsAtDrop>>

-----------------------------------------------------------------------------
Init ==
    /\ height \in InitialHeights
    /\ state = [r \in Requests |-> "idle"]
    /\ range = [r \in Requests |-> <<0, 0>>]
    /\ limit = [r \in Requests |-> 0]
    /\ cursor = [r \in Requests |-> 0]
    /\ inHand = [r \in Requests |-> <<>>]
    /\ channel = [r \in Requests |-> <<>>]
    /\ open = [r \in Requests |-> TRUE]
    /\ delivered = [r \in Requests |-> <<>>]
    /\ reads = [r \in Requests |-> 0]
    /\ readsAtDrop = [r \in Requests |-> 0]

Task(r) == Validate(r) \/ ReadBlock(r) \/ SendPart(r) \/ Finish(r)

Next ==
    \/ StoreBlock
    \/ \E r \in Requests :
          Request(r) \/ Forward(r) \/ Drop(r) \/ Task(r)

\* A task is scheduled by the runtime, and the transport delivers what is on
\* the channel of a peer that holds its stream.
Fairness == \A r \in Requests : WF_vars(Task(r)) /\ WF_vars(Forward(r))

Spec == Init /\ [][Next]_vars /\ Fairness

-----------------------------------------------------------------------------
TypeOK ==
    /\ height \in Blocks
    /\ state \in [Requests -> States]
    /\ range \in [Requests -> Blocks \X (0..(MaxHeight + 2))]
    /\ limit \in [Requests -> 0..(MaxHeight + 1)]
    /\ cursor \in [Requests -> 0..(MaxHeight + 1)]
    /\ inHand \in [Requests -> BoundedSeq(Blocks, 1)]
    /\ channel \in [Requests -> BoundedSeq(Blocks, ChannelCapacity)]
    /\ open \in [Requests -> BOOLEAN]
    /\ delivered \in [Requests -> BoundedSeq(Blocks, MaxHeight + 1)]
    /\ reads \in [Requests -> 0..(MaxHeight + 1)]
    /\ readsAtDrop \in [Requests -> 0..(MaxHeight + 1)]

\* The sequence a, a + 1, ..., b - 1.
Interval(a, b) == [i \in 1..(b - a) |-> a + i - 1]

\* What the peer holds, followed by what is on its way.
Stream(r) == delivered[r] \o channel[r] \o inHand[r]

\* The parts of a request arrive in emission order, one per block, in
\* strictly increasing block order from the start of the range, without a
\* gap and never past what storage holds; when the handler has returned and
\* the peer is still there, what was sent is exactly the blocks of the range
\* known at validation, min(b, height + 1) - a of them (the range handler
\* and the forwarding loop of the framework).
StreamIsTheRange ==
    \A r \in Requests :
        /\ IsPrefix(delivered[r], Interval(range[r][1], limit[r]))
        /\ \A i \in DOMAIN Stream(r) : Stream(r)[i] <= height
        /\ open[r] /\ state[r] = "processing" =>
              Stream(r) = Interval(range[r][1], cursor[r])
        /\ open[r] /\ state[r] = "completed" =>
              delivered[r] \o channel[r] = Interval(range[r][1], limit[r])

\* Backpressure: a task never has read more blocks than the peer has taken,
\* the channel holds and one: a slow peer throttles the scan of storage.
BackpressureBoundsReads ==
    \A r \in Requests :
        state[r] # "aborted" /\ open[r] =>
            reads[r] <= Len(delivered[r]) + ChannelCapacity + 1

\* Cancellation: after the peer dropped the stream the task makes at most
\* the one storage read it was about to make, and then stops at its send.
DropStopsTheScan ==
    \A r \in Requests : ~open[r] => reads[r] <= readsAtDrop[r] + 1

\* The stream of a request as its peer sees it: the range once the request
\* is sent, the parts received, and whether anything can still arrive (the
\* peer dropped the stream, or the task has ended and its channel is empty).
StreamOver(r) == ~open[r] \/ (state[r] \in Ended /\ channel[r] = <<>>)

PeerView ==
    INSTANCE RangeStream WITH
        Starts <- Blocks,
        Ends <- 0..(MaxHeight + 2),
        asked <- [r \in Requests |-> IF state[r] = "idle" THEN <<>> ELSE range[r]],
        got <- delivered,
        over <- [r \in Requests |-> StreamOver(r)]

\* Step by step, a peer sees the stream the protocol promises: Forward hands
\* it the block after the last one it holds and none past the range it
\* asked for; once the peer has dropped the stream, or the task has returned
\* (completed, or aborted by a storage fault) and the channel is drained,
\* no action of the task or of the framework delivers another part or
\* revives the stream, also while the other request is still served.
ImplementsRangeStream == PeerView!Spec

\* Every request ends, completed or aborted, when its peer either keeps
\* taking parts or drops the stream.
EachRequestEnds ==
    \A r \in Requests : (state[r] = "received") ~> (state[r] \in Ended)
=============================================================================
