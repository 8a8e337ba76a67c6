------------------------------ MODULE NewHeads ------------------------------
(***************************************************************************)
(* The websocket subscription starknet_subscribeNewHeads                   *)
(* (crates/client/rpc/src/versions/v0_8_0/methods/ws/lib.rs).              *)
(*                                                                         *)
(* Three actors share the state:                                           *)
(*   - the backend, which stores blocks and broadcasts each stored block   *)
(*     to the receivers subscribed at that moment;                         *)
(*   - the handler task of one subscription: it resolves the block id,     *)
(*     subscribes to the broadcast, sends the blocks already in the        *)
(*     database (catch-up), then forwards what the broadcast brings;       *)
(*   - the client, which reads the messages buffered for it and may close  *)
(*     the subscription at any moment.                                     *)
(* A step of the handler is what it does between two observations of the   *)
(* other actors: one database read, one recv, one send.                    *)
(*                                                                         *)
(* Headers are abstracted to their block number.                           *)
(***************************************************************************)
EXTENDS Naturals, Sequences, SequencesExt

CONSTANTS
    BLOCK_PAST_LIMIT,   \* how far behind the latest block a subscription may start
    U64_MAX,            \* largest block number (u64::MAX in the code)
    MaxBlocks,          \* bound on the number of blocks the backend stores
    SinkCapacity,       \* messages buffered per connection before send waits
    ChannelCapacity,    \* blocks the broadcast channel retains per receiver
    BlockIds            \* the block ids a client may subscribe with

ASSUME /\ BLOCK_PAST_LIMIT \in Nat
       /\ MaxBlocks \in Nat /\ U64_MAX \in Nat /\ MaxBlocks <= U64_MAX
       /\ SinkCapacity \in Nat \ {0}
       /\ ChannelCapacity \in Nat \ {0}

VARIABLES
    stored,         \* backend: blocks 0 .. stored-1 are in the database
    rx,             \* the handler's broadcast receiver: blocks not yet received
    lagged,         \* the receiver missed a block the channel no longer retains
    pc,             \* where the handler is
    block_id,       \* the block id the client subscribed with
    block_latest,   \* handler local: latest block number read (Hash branch)
    block_n,        \* handler local: the next block number to send
    first,          \* history: the block number the id resolved to
    result,         \* what subscribe_new_heads returned, once it has
    sink,           \* messages accepted by the sink, not yet read by the client
    closed,         \* the client unsubscribed or disconnected
    received        \* history: what the client has read

vars == <<stored, rx, lagged, pc, block_id, block_latest, block_n, first,
          result, sink, closed, received>>

backendVars == <<stored, rx, lagged>>
handlerVars == <<pc, block_latest, block_n, first, result>>
clientVars  == <<block_id, closed, received>>

-----------------------------------------------------------------------------
(* Block ids: starknet_core::types::BlockId.  A hash is abstracted to the  *)
(* number of the block that has it; it is known once that block is stored. *)

Number(n) == [tag |-> "Number", n |-> n]
Hash(n)   == [tag |-> "Hash", n |-> n]
Latest    == [tag |-> "Latest", n |-> 0]
Pending   == [tag |-> "Pending", n |-> 0]
NoBlockId == [tag |-> "None", n |-> 0]

Unresolved == U64_MAX + 1

Errors == {"NoBlocks", "TooManyBlocksBack", "BlockNotFound", "Pending", "Internal"}
Running == "Running"
Terminal == {"done", "error"}

\* The handler holds a receiver from line 62 until it returns.
Subscribed == pc \in {"catchup", "catchup_send", "listen", "listen_send"}

SatSub(a, b) == IF a > b THEN a - b ELSE 0
SatAdd(a, b) == IF a + b > U64_MAX THEN U64_MAX ELSE a + b

Delivered == received \o sink

-----------------------------------------------------------------------------
(* How the handler returns. *)

Return(state, res) ==
    /\ pc' = state
    /\ result' = res
    /\ UNCHANGED <<block_latest, block_n, first>>

Fail(err) == Return("error", err)

\* The id resolved to block n: the handler goes on to subscribe (line 62).
StartFrom(n) ==
    /\ block_n' = n
    /\ first' = n
    /\ pc' = "subscribe"
    /\ UNCHANGED <<block_latest, result>>

TooFarBackOffByOne(n, latest) == n + 1 < SatSub(latest, BLOCK_PAST_LIMIT)

\* block_n < block_latest.saturating_sub(BLOCK_PAST_LIMIT)
TooFarBack(n, latest) == n < SatSub(latest, BLOCK_PAST_LIMIT)

-----------------------------------------------------------------------------
(* The backend. *)

\* tokio broadcast: a receiver that holds ChannelCapacity unread blocks
\* loses the oldest one when another is sent, and learns it at its next recv.
Broadcast(n) ==
    IF ~Subscribed THEN UNCHANGED <<rx, lagged>>
    ELSE IF Len(rx) < ChannelCapacity
         THEN rx' = Append(rx, n) /\ UNCHANGED lagged
         ELSE rx' = Append(Tail(rx), n) /\ lagged' = TRUE

StoreBlock ==
    /\ stored < MaxBlocks
    /\ stored' = stored + 1
    /\ Broadcast(stored)
    /\ UNCHANGED <<handlerVars, clientVars, sink>>

-----------------------------------------------------------------------------
(* The client. *)

Subscribe(id) ==
    /\ pc = "idle"
    /\ block_id' = id
    /\ pc' = "accept"
    /\ UNCHANGED <<backendVars, block_latest, block_n, first, result, sink,
                   closed, received>>

ClientRead ==
    /\ ~closed
    /\ sink # <<>>
    /\ received' = Append(received, Head(sink))
    /\ sink' = Tail(sink)
    /\ UNCHANGED <<backendVars, handlerVars, block_id, closed>>

ClientClose ==
    /\ pc # "idle"
    /\ ~closed
    /\ closed' = TRUE
    /\ UNCHANGED <<backendVars, handlerVars, block_id, received, sink>>

-----------------------------------------------------------------------------
(* The handler: subscribe_new_heads. *)

\* pending.accept().await
Accept ==
    /\ pc = "accept"
    /\ IF closed
       THEN Fail("Internal")
       ELSE pc' = "resolve" /\ UNCHANGED <<block_latest, block_n, first, result>>
    /\ UNCHANGED <<backendVars, clientVars, sink>>

ResolveNumber ==
    /\ pc = "resolve"
    /\ block_id.tag = "Number"
    /\ \/ stored = 0 /\ Fail("NoBlocks")
       \/ /\ stored > 0
          /\ IF TooFarBack(block_id.n, stored - 1)
             THEN Fail("TooManyBlocksBack")
             ELSE StartFrom(block_id.n)
    /\ UNCHANGED <<backendVars, clientVars, sink>>

\* The Hash branch reads the backend twice: the latest block number here,
\* the number of the block with that hash in ResolveHashBlock.
ResolveHashLatest ==
    /\ pc = "resolve"
    /\ block_id.tag = "Hash"
    /\ \/ stored = 0 /\ Fail("BlockNotFound")
       \/ /\ stored > 0
          /\ block_latest' = stored - 1
          /\ pc' = "resolve_hash"
          /\ UNCHANGED <<block_n, first, result>>
    /\ UNCHANGED <<backendVars, clientVars, sink>>

ResolveHashBlock ==
    /\ pc = "resolve_hash"
    /\ \/ block_id.n >= stored /\ Fail("Internal")
       \/ /\ block_id.n < stored
          /\ IF TooFarBack(block_id.n, block_latest)
             THEN Fail("TooManyBlocksBack")
             ELSE StartFrom(block_id.n)
    /\ UNCHANGED <<backendVars, clientVars, sink>>

ResolveLatest ==
    /\ pc = "resolve"
    /\ block_id.tag = "Latest"
    /\ \/ stored = 0 /\ Fail("Internal")
       \/ stored > 0 /\ StartFrom(stored - 1)
    /\ UNCHANGED <<backendVars, clientVars, sink>>

ResolvePending ==
    /\ pc = "resolve"
    /\ block_id.tag = "Pending"
    /\ Fail("Pending")
    /\ UNCHANGED <<backendVars, clientVars, sink>>

\* let mut rx = self.backend.subscribe_block_info();
SubscribeBlockInfo ==
    /\ pc = "subscribe"
    /\ pc' = "catchup"
    /\ rx' = <<>>
    /\ lagged' = FALSE
    /\ UNCHANGED <<stored, block_latest, block_n, first, result, clientVars, sink>>

CatchUpReadStopsEarly ==
    /\ pc = "catchup"
    /\ \/ closed /\ Return("done", "Ok")
       \/ /\ ~closed
          /\ pc' = IF block_n + 1 < stored THEN "catchup_send" ELSE "listen"
          /\ UNCHANGED <<block_latest, block_n, first, result>>
    /\ UNCHANGED <<backendVars, clientVars, sink>>

\* One turn of the catch-up loop up to its send: the closed check and the
\* database read of block block_n.
CatchUpRead ==
    /\ pc = "catchup"
    /\ \/ closed /\ Return("done", "Ok")
       \/ /\ ~closed
          /\ pc' = IF block_n < stored THEN "catchup_send" ELSE "listen"
          /\ UNCHANGED <<block_latest, block_n, first, result>>
    /\ UNCHANGED <<backendVars, clientVars, sink>>

\* Any read of the backend may fail; every site turns that into an
\* internal server error.
BackendReadFails ==
    /\ pc \in {"resolve", "resolve_hash", "catchup"}
    /\ Fail("Internal")
    /\ UNCHANGED <<backendVars, clientVars, sink>>

SendBlockHeaderNoWait ==
    /\ pc \in {"catchup_send", "listen_send"}
    /\ \/ closed /\ Fail("Internal") /\ UNCHANGED sink
       \/ /\ ~closed
          /\ sink' = Append(sink, block_n)
          /\ block_n' = SatAdd(block_n, 1)
          /\ pc' = IF pc = "catchup_send" THEN "catchup" ELSE "listen"
          /\ UNCHANGED <<block_latest, first, result>>
    /\ UNCHANGED <<backendVars, clientVars>>

\* send_block_header(&sink, block_info, block_n).await and the increment
\* of block_n that follows it at both call sites.  The send waits while the
\* connection's buffer is full and fails once the sink is closed.
SendBlockHeader ==
    /\ pc \in {"catchup_send", "listen_send"}
    /\ \/ closed /\ Fail("Internal") /\ UNCHANGED sink
       \/ /\ ~closed
          /\ Len(sink) < SinkCapacity
          /\ sink' = Append(sink, block_n)
          /\ block_n' = SatAdd(block_n, 1)
          /\ pc' = IF pc = "catchup_send" THEN "catchup" ELSE "listen"
          /\ UNCHANGED <<block_latest, first, result>>
    /\ UNCHANGED <<backendVars, clientVars>>

ListenRecvSendAny ==
    /\ pc = "listen"
    /\ \/ lagged /\ Fail("Internal") /\ UNCHANGED <<rx, lagged>>
       \/ /\ ~lagged
          /\ rx # <<>>
          /\ rx' = Tail(rx)
          /\ pc' = "listen_send"
          /\ UNCHANGED <<block_n, lagged, block_latest, first, result>>
    /\ UNCHANGED <<stored, clientVars, sink>>

\* The rx.recv() branch of the select: a lagged receiver is an error; a
\* block whose number is block_n is sent, any other only advances block_n.
ListenRecv ==
    /\ pc = "listen"
    /\ \/ lagged /\ Fail("Internal") /\ UNCHANGED <<rx, lagged>>
       \/ /\ ~lagged
          /\ rx # <<>>
          /\ rx' = Tail(rx)
          /\ IF Head(rx) = block_n
             THEN pc' = "listen_send" /\ UNCHANGED block_n
             ELSE pc' = "listen" /\ block_n' = SatAdd(block_n, 1)
          /\ UNCHANGED <<lagged, block_latest, first, result>>
    /\ UNCHANGED <<stored, clientVars, sink>>

ListenClosedIgnored ==
    /\ FALSE
    /\ UNCHANGED vars

\* The sink.closed() branch of the select.
ListenClosed ==
    /\ pc = "listen"
    /\ closed
    /\ Return("done", "Ok")
    /\ UNCHANGED <<backendVars, clientVars, sink>>

-----------------------------------------------------------------------------
Init ==
    /\ stored = 0
    /\ rx = <<>>
    /\ lagged = FALSE
    /\ pc = "idle"
    /\ block_id = NoBlockId
    /\ block_latest = 0
    /\ block_n = 0
    /\ first = Unresolved
    /\ result = Running
    /\ sink = <<>>
    /\ closed = FALSE
    /\ received = <<>>

Handler ==
    \/ Accept
    \/ ResolveNumber
    \/ ResolveHashLatest
    \/ ResolveHashBlock
    \/ ResolveLatest
    \/ ResolvePending
    \/ SubscribeBlockInfo
    \/ CatchUpRead
    \/ SendBlockHeader
    \/ ListenRecv
    \/ ListenClosed

Next ==
    \/ StoreBlock
    \/ \E id \in BlockIds : Subscribe(id)
    \/ ClientRead
    \/ ClientClose
    \/ Accept
    \/ ResolveNumber
    \/ ResolveHashLatest
    \/ ResolveHashBlock
    \/ ResolveLatest
    \/ ResolvePending
    \/ SubscribeBlockInfo
    \/ CatchUpRead
    \/ BackendReadFails
    \/ SendBlockHeader
    \/ ListenRecv
    \/ ListenClosed

\* The runtime keeps polling a task that can make progress, and the
\* connection keeps writing what is buffered to a client that is there.
\* The backend need not store another block, the client need not close,
\* and a backend read need not fail.
Fairness ==
    /\ WF_vars(Handler)
    /\ WF_vars(ClientRead)

Spec == Init /\ [][Next]_vars /\ Fairness

-----------------------------------------------------------------------------
TypeOK ==
    /\ stored \in 0..MaxBlocks
    /\ rx \in Seq(0..MaxBlocks) /\ Len(rx) <= ChannelCapacity
    /\ lagged \in BOOLEAN
    /\ pc \in {"idle", "accept", "resolve", "resolve_hash", "subscribe",
               "catchup", "catchup_send", "listen", "listen_send"} \cup Terminal
    /\ block_id \in BlockIds \cup {NoBlockId}
    /\ block_latest \in 0..MaxBlocks
    /\ block_n \in 0..U64_MAX
    /\ first \in 0..U64_MAX \cup {Unresolved}
    /\ result \in Errors \cup {Running, "Ok"}
    /\ sink \in Seq(0..MaxBlocks) /\ Len(sink) <= SinkCapacity
    /\ closed \in BOOLEAN
    /\ received \in Seq(0..MaxBlocks)

-----------------------------------------------------------------------------
Abstract ==
    INSTANCE HeadStream WITH chain <- stored, want <- block_id,
                             out <- Delivered, Undecided <- Unresolved

\* The handler implements the stream it promises: whatever the interleaving
\* of backend, handler and client, the headers put into the sink are those
\* of consecutive stored blocks, starting at the block the id resolved to,
\* each sent once (catch-up loop and listen loop of subscribe_new_heads
\* never send a block twice, skip one, or run ahead of the database).
ImplementsHeadStream == Abstract!Spec

\* Once the client has closed the subscription the handler returns: the
\* closed checks of the catch-up loop, the failing send and the
\* sink.closed() branch of the select leave no state in which the task
\* stays parked on a subscription nobody reads.
ClosedSinkEndsHandler == closed ~> pc \in Terminal

\* Catch-up is complete: a block that is in the database when the handler
\* is in its catch-up loop, at or after block_n, is sent before the handler
\* starts to listen, unless the subscription ends first.
CatchUpDeliversStored ==
    \A n \in 0..MaxBlocks :
        (pc = "catchup" /\ block_n <= n /\ n < stored)
            ~> (pc \in Terminal \/ n \in ToSet(Delivered))

\* A subscription by number or hash is accepted only if it starts at most
\* BLOCK_PAST_LIMIT blocks behind the latest block the handler read; at
\* the boundary (latest = n + BLOCK_PAST_LIMIT) it is accepted, and with a
\* chain shorter than the limit saturating_sub accepts block 0.  For a
\* hash the latest block is the one read before the hash was resolved
\* (lines 34-38, then 40-44): blocks stored between the two reads are not
\* counted.
StartWithinPastLimit ==
    [][(pc # "subscribe" /\ pc' = "subscribe" /\ block_id.tag # "Latest")
        => first' + BLOCK_PAST_LIMIT >=
              (IF block_id.tag = "Hash" THEN block_latest ELSE stored - 1)]_vars

\* The comment above the listen loop (lines 84-86) says why the block
\* number is compared at each recv: blocks fetched from the database may
\* also arrive on the channel, and must not be sent twice.  What the client
\* is promised is that it still gets every new head: when the handler
\* listens and has received all that was broadcast, every stored block from
\* the first one on has been sent.
EveryHeadDelivered ==
    (pc = "listen" /\ rx = <<>> /\ ~lagged)
        => \A n \in 0..MaxBlocks :
              (first <= n /\ n < stored) => n \in ToSet(Delivered)

\* The test subscribe_new_heads_future says a subscription to a block that
\* is not stored yet "can serve to notify when a block is ready": once the
\* block is stored and the handler has received all that was broadcast,
\* its header has been sent.
FirstHeadDelivered ==
    (pc = "listen" /\ rx = <<>> /\ ~lagged /\ first < stored)
        => first \in ToSet(Delivered)
=============================================================================
