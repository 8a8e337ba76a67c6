# TLA+ models of Madara (p2p sync service, websocket heads, chain configuration, receipts)

This directory holds TLA+ specifications of the parts of the Madara node whose
source is under `src/`, the TLC configurations that check them, and
`PROJECT.json`, which records for every definition the source lines it stands
for, for every run what it checks, and the hazards of the code with the
properties that watch them. Modules are written from the Rust source; where a
module describes code that is not under `src/` (the libp2p swarm, event
dispatch, the sync handlers, the storage backend) it is written from the design
description in `spec.md` and marked `spec_modelled` in the map.

Run a configuration with `tlc -workers 2 -config <X>.cfg <MCModule>`.

## 1. The system and its parts

| Part | Source | Module | Status |
|---|---|---|---|
| Websocket subscription `starknet_subscribeNewHeads` | `client/rpc/.../ws/lib.rs`, `v0_8_0/api.rs` | `NewHeads`, abstract `HeadStream` | modelled |
| The seven tests of the subscription | `client/rpc/.../ws/lib.rs` (mod `test`) | `NewHeadsTests` | modelled |
| P2P service: `MadaraP2p::new`, `MadaraP2p::run` | `client/p2p/src/lib.rs` | `P2pService` | modelled |
| Protocol behaviours, event dispatch | `behaviour.rs`, `events.rs` (not under `src/`) | `P2pService` (`SwarmEvents`, `Connections`, `HandleEvent`) | partly |
| Sync handler framework and the five range handlers | `sync_handlers.rs`, `handlers_impl.rs` (not under `src/`; registered in `lib.rs` 90-104) | `SyncHandler`, abstract `RangeStream` | partly |
| Chain configuration | `primitives/chain_config/src/chain_config.rs` | `ChainConfig` | modelled |
| Gateway receipt conversion | `primitives/gateway/src/receipt.rs`, `primitives/convert/src/lib.rs` | `Receipt` | modelled |
| RPC command-line options | `node/src/cli/rpc.rs` | `RpcParams` | modelled |
| L1 sync utilities | `client/sync/src/utils/utility.rs` | `Utility` | modelled |
| Storage backend as its readers see it | not under `src/` | `StoreBlock` of `NewHeads` and `SyncHandler` | partly |
| Identity manager | `identity.rs` (not under `src/`; called in `lib.rs` 65, configured by `P2pConfig` 26-34) | `P2pService` (`LoadIdentity`) | partly |
| Sync codec | not under `src/` | none | not modelled (section 7) |
| Read RPC methods, admin API traits, integration tests | `methods/read/lib.rs`, `admin/v0_1_0/api.rs`, `tests/src/rpc/read.rs` | none | not modelled: one-line delegations, declarations, test fixtures (section 7) |

How the parts interact. The node imports blocks into the storage backend. Each
stored block is broadcast to the websocket subscriptions, whose handler tasks
also read older blocks from storage; the p2p service serves the same storage to
other nodes through one handler task per inbound request. The p2p service is a
single reactor: only `run` polls the swarm, so every connection, every status
report and every part forwarded to a peer happens inside its select loop. The
chain configuration is read once at start-up and fixes the execution constants
used for each protocol version and the number of pending-block ticks per block.
Receipts fetched from a feeder gateway are converted to the node's own receipts
when a block is synced and converted back when the node answers as a gateway.
The command-line options decide on which addresses the user and the admin RPC
listeners are opened.

## 2. Modules

Every module has the same layout: constants, variables, the data definitions
with the names of the source, one action per operation or per step between two
observations of another actor, `Init`, `Next`, `Spec`, then the properties.
A definition that is a deliberately wrong variant of the one below it is marked
"Faulty variant"; these are used to check that each property can fail (section 5).
`MC*.tla` modules give the constants their values for TLC.

### NewHeads and HeadStream (`ws/lib.rs`)

State: the backend (`stored`, the handler's broadcast receiver `rx`, `lagged`),
the handler task (`pc`, `block_latest`, `block_n`, `result`), the client
(`block_id`, `sink`, `closed`, `received`). The handler's actions follow the
function from top to bottom: resolution of the block id (one action per arm of
the match, with the too-far-back test), `SubscribeBlockInfo`, the catch-up loop
(`CatchUpRead`, `BackendReadFails`, `SendBlockHeader`), the listen loop
(`ListenRecv`, `ListenClosed`). A step ends where the code awaits or reads
shared state, so a block can be stored between any two of them. Headers are
abstracted to block numbers and a block hash to the number of its block.

`HeadStream` is the abstract specification: after a subscription names a
block, the client receives that block and every later one, each once, in order,
and none that is not stored. `NewHeads` instantiates it with a refinement
mapping (`ImplementsHeadStream`).

### NewHeadsTests (`ws/lib.rs`, mod `test`)

Extends `NewHeads` with the test task. Each of the seven tests is a script,
the sequence of what the test function does: `Generate` (one `next()` of
`block_generator`, which stores a block), `SubscribeTo(id)`, `Expect(n)`
(`sub.next().await`, the two `expect`s and the `assert_eq!`), `ExpectNone`
(`assert!(next.is_none())`), `Unsubscribe`. State: the test that runs, the
line it is at, and its verdict. A line is one action of the test task; the
actions of the handler are those of `NewHeads` and fall anywhere between
them, since the handler is another task of the same runtime. A line after
`subscribe_new_heads(..).await` waits until the handler has accepted the
subscription. The backend of the tests does not fail, so `BackendReadFails`
is not part of `TestNext`. When the test function returns its client is
dropped, which closes the subscription.

### P2pService (`p2p/src/lib.rs`)

State: `pc` over the control points of `new` and `run`, `result`, the bootstrap
nodes still to dial, the shutdown flag, the registered handlers, the swarm as
far as it decides which events it can yield (listener, dialing, outgoing and
incoming connections), the handler tasks in flight and the peer id of this
run. What
outlives a run: the two identity fields of `P2pConfig`, the identity file
(absent, a keypair, or bytes that do not parse), the number of keypairs
generated so far and the number of restarts.
Actions: `New`, `ListenOn`, `DialBootstrap`, `EnterLoop`, then the three
branches of the select (`ShutdownBranch`, `StatusTick`, `SwarmNext` with
`SwarmExhausted`), the environment (`RequestShutdown`, `TaskEnds`) and
`Restart`.
`New` is the whole constructor: `LoadIdentity` first (a file that parses is
loaded; an absent one gives a fresh keypair, written when `save_identity` is
set, and the write may fail without failing `new`; an unreadable one ends
`new`), then the transport, which may fail after the file was written, then
the handlers. `SwarmNext` is the whole branch: the event changes the
connections, then `handle_event` takes it or fails, and the failure leaves
`run` through `?`. `StatusTick` reads the counters and logs them: it changes
nothing and is a stuttering step. `Restart` starts the process again after
`new` or `run` has returned, however it returned: everything of the run is
reset and the configuration and the identity file are kept.

### SyncHandler (design description sections 4.4, 5 and 8)

State per request: its state (`received`, `processing`, `completed`,
`aborted`), the range asked for, the end fixed at validation, the cursor, the
block read and not yet sent, the bounded output channel, whether the peer still
holds the stream, what the peer has received, and counters of storage reads.
Actions: `Request`, `Validate`, `ReadBlock` (which may fail), `SendPart`
(suspended on a full channel, failing on a closed one), `Finish`, the
framework's `Forward`, the peer's `Drop`, and `StoreBlock` of the node. The
five domains differ only in the content of a part, which is abstracted to the
block number, so one module stands for all five handlers.

`RangeStream` is the abstract specification of what a peer sees: after it
asked for `[a, b)` it receives `a`, `a + 1`, ... below `b` until the stream
ends, and nothing after the end. `SyncHandler` instantiates it (`PeerView`):
`got` is `delivered`, and a stream is over when the peer dropped it or the
task has ended and its channel is drained.

### ChainConfig (`chain_config.rs`)

State: the file system (which constant files exist, are readable, parse), the
keys of the yaml still to load, the configuration built, the error, and the
answers to the two queries. Versions are four-component tuples compared
lexicographically, as `StarknetVersion` is; a version string is parsed by a
partial function so that two spellings of one version (`0.13.1`, `0.13.1.0`)
and an unparsable key are among the inputs. Durations are kept in microseconds
so that `as_millis` truncates. Actions: `FromPresetName`, `FromYaml`,
`LoadConstants` (one key per step, with its three failures),
`DeserializeFields`, `ExecConstants`, `NPendingTicks`, and
`TestExecConstants`. The map of versioned constants of a preset and of the
test is built as the code builds it, by `FromArray`: the pairs of a version
and its constants are inserted one after the other, 0.13.2 paired with
`latest_constants()`. `TestExecConstants` is the configuration `test_exec_constants` builds (two
versions, told apart by their `validate_max_n_steps`) asked for each of the
seven versions the test asks for.

### Receipt (`receipt.rs`, `convert/src/lib.rs`)

State: the transaction, the receipts stored by a chain of nodes, the receipts
each served as a gateway, and the receipt on the wire. `Sync` is
`ConfirmedReceipt::into_mp` for the transaction's kind, `Serve` is
`ConfirmedReceipt::new`; the field conversions (`none_if_zero`, `unwrap_or`
defaults, fee and address conversions, the builtin counters of which the two
formats hold different sets) are operators with the names of the source.
Felt, `u64` and Ethereum-address ranges are scaled down and keep their order.
The hash of an L1 message is a number given by an injective function
(`Keccak`), so that `into_mp_l1_handler` is modelled with all its defaults:
an empty calldata, a sender that is no Ethereum address and a nonce that is
no `u64` give zero in the message, and a hash that is no felt is stored as
zero (`receipt.rs` 74-85). What a producer stored as message hash is left
open: any felt.

### RpcParams (`cli/rpc.rs`)

State: the command line, the `RpcParams` clap builds from it (or a usage
error), and the values the RPC service has asked for. `Parse` applies the
defaults, the case-insensitive value parser, `Cors::from_str` (a recursive
operator for the loop) and the declared conflict of the batch options; `Ask`
calls one of `cors`, `addr_user`, `addr_admin`, `batch_config`.

### Utility (`utility.rs`)

The four functions as operators, each called with every argument of a bounded
set. Strings are sequences of characters because the functions slice at byte
offsets; a slice past the end is the model value `Panic`. Integers keep their
relative widths (`I256` above `u64`, `U256` above the felt range).

## 3. Runs

| Run | Config | Result | Distinct states | What it shows |
|---|---|---|---|---|
| `newheads` | `NewHeads.cfg` | pass | 5,762 | the handler implements `HeadStream`, stays within both buffers, starts no further back than `BLOCK_PAST_LIMIT`; a closed subscription ends it; catch-up sends every stored block |
| `newheads_tests` | `NewHeadsTests.cfg` | pass | 116 | the seven tests pass and return under every schedule of handler against test |
| `newheads_latest_goes_silent` | `NewHeadsLatest.cfg` | violation | | `EveryHeadDelivered` fails: finding 1 |
| `newheads_future_never_notified` | `NewHeadsFuture.cfg` | violation | | `FirstHeadDelivered` fails: finding 2 |
| `p2p_service` | `P2pService.cfg` | pass | 125,226 | bootstrap is best effort; shutdown ends the service; over restarts a readable identity file keeps the peer id |
| `p2p_event_fault_stops_reactor` | `P2pServiceFaults.cfg` | violation | | `OnlyStartupFaultsEndRun` fails: finding 3 |
| `sync_handler` | `SyncHandler.cfg` | pass | 400,491 | stream order and extent, backpressure, cancellation, termination, refinement of `RangeStream` |
| `chain_config` | `ChainConfig.cfg` | pass | 156,507 | floor lookup of execution constants; the yaml loader keeps the last file per version; the assertions of `test_exec_constants` |
| `chain_config_ticks_panic` | `ChainConfigTicks.cfg` | violation | | `NPendingTicksIsANumber` fails: finding 4 |
| `receipt_chain` | `Receipt.cfg` | pass | 952,320 | conversions lose information at the first hop only |
| `rpc_params` | `RpcParams.cfg` | pass | 119,040 | admin exposure, CORS parsing, batch policy |
| `utility` | `Utility.cfg` | pass | 5,263 | address and hash shortening, event conversion |

### Properties

* `ImplementsHeadStream` (NewHeads): every behaviour of the handler, projected
  on what the client observes, is a behaviour of `HeadStream`.
* `StartWithinPastLimit`: an accepted subscription starts at most
  `BLOCK_PAST_LIMIT` blocks behind the latest block read.
* `ClosedSinkEndsHandler`, `CatchUpDeliversStored`: liveness of the handler.
* `EveryHeadDelivered`, `FirstHeadDelivered`: what a subscriber is promised;
  violated by the code.
* `TestsPass` (NewHeadsTests): no assertion of a test fails, wherever the
  handler's steps fall between the test's lines. `TestsFinish`: every test
  returns, and the handler task it started returns after it.
* `BootstrapIsBestEffort`, `ShutdownStopsService` (P2pService): liveness of
  `run`; `OnlyStartupFaultsEndRun`: the error policy; violated by the code.
  `IdentityFileIsKept`: once the configured identity file holds a keypair no
  step of any run replaces it, and every later run that gets through `new`
  has that keypair as its peer id. It holds. What the run also shows is how
  little is promised before that point: with `save_identity` set and the
  write failing (logged only), or with `save_identity` unset, each start has
  another peer id, which is what the comment at `lib.rs` 64 accepts for nodes
  that are not bootstrap nodes.
* `StreamIsTheRange` (SyncHandler): what a peer receives is a prefix of the
  requested range in increasing order without gaps, never a block storage does
  not hold, and the whole range up to the height at validation when the
  handler has returned. `BackpressureBoundsReads`: reads never run more than
  the channel capacity plus one ahead of what the peer has taken.
  `DropStopsTheScan`: at most one storage read after the peer dropped the
  stream. `EachRequestEnds`: every request completes or aborts.
  `ImplementsRangeStream`: every step of framework, task and peer is a step
  of `RangeStream` or leaves the peer's view unchanged; an ended stream
  delivers nothing more and is not revived.
* `ExecConstantsIsFloor` (ChainConfig): the constants returned for a version
  are those of the greatest configured version not above it, and the lookup
  fails exactly when there is none. `LoadedConstantsAreTheFiles`: after a yaml
  with several keys for one version the map holds the file of the last of them.
  `ExecConstantsTestPasses`: the configuration of `test_exec_constants`
  answers each version the test asks for as the test asserts.
  `NPendingTicksIsANumber`: violated by the code.
* `DownstreamNodesAgree` (Receipt): every node after the first stores the same
  receipt and serves the same wire receipt.
  `ExactlyPortableReceiptsSurvive`: the node that syncs from the producer
  holds the producer's receipt (message hash aside) and serves what it was
  served, in the sense of `assert_consistent_conversion`, exactly when the
  fee is in Wei, no counter is present and zero and the transaction is no
  version 3 account deployment; in each of these three cases the first sync
  does change the receipt.
* `AdminIsNoWiderThanAsked`, `CorsIsAllOrTheParts`, `BatchLimitIsThePolicy`
  (RpcParams) and `FormatAddressIsCanonical`, `TrimHashShowsBothEnds`,
  `ConvertedUpdateIsEventLow64` (Utility): the functions against a reference
  stated over their inputs. The last one states the cut of `low_u64` as what
  the code does: a converted update has the roots of the event and a block
  number that differs from the event's by a multiple of 2^64.
* One `TypeOK` per module.

## 4. Findings

1. `ws/lib.rs:94`: the listen loop advances `block_n` after every `recv`, also
   when the block received is not the one awaited. A block stored between
   `subscribe_block_info` and the end of catch-up arrives twice; the duplicate
   is skipped but the cursor moves past the next block, and the subscription
   never sends again.
2. `ws/lib.rs:94`: for the same reason a subscription to a block two or more
   ahead of the chain is accepted and never notified.
3. `p2p/lib.rs:155`: an error of `handle_event` ends `run`, and with it the
   service of every peer, after the listen address was bound; the error policy
   allows only start-up faults to do that. Whether `handle_event` ever
   returns an error for a peer-scoped fault is decided in `events.rs`.
4. `chain_config.rs:250`: `n_pending_ticks_per_block` divides by
   `pending_block_update_time.as_millis()`, which is zero for any duration
   below a millisecond; `from_yaml` accepts such a configuration.

Why the tests of the subscription do not meet findings 1 and 2:
`newheads_tests` shows that all seven pass under every schedule. The only
test that stores a block after subscribing, `subscribe_new_heads_future`,
awaits one header and returns; the cursor is already past the next block in
some of its schedules, but the test never awaits a second header. No test
subscribes more than one block ahead of the chain.

Observations that are not findings, since nothing in the repository says
otherwise: `trim_hash` panics for a hash of fewer than six hexadecimal digits
(`utility.rs:89`); `format_address` leaves a zero address as it was spelled;
`convert_log_state_update` truncates a block number above `u64::MAX`; equal
`--rpc-port` and `--rpc-port-admin` are accepted by the command line; a
receipt synced over the gateway has its fee in Wei whatever the unit was, no
counter at zero, contract address zero for a version 3 account deployment,
and as message hash zero or the hash of a message with a zero sender or
nonce whenever a conversion of `into_mp_l1_handler` fails.

## 5. Bounds, and why they are enough

* NewHeads: four blocks, `BLOCK_PAST_LIMIT = 1`, `U64_MAX = 5`, sink and
  broadcast channel of two. A subscription can be too far back, in range, at
  the head, ahead of the chain and at the largest block number; both buffers
  fill; the receiver lags.
  `block_n` saturates at `U64_MAX` as in the code. No property depends on
  it: with a wrapping add in its place every property of the run still
  holds, because the cursor of the listen loop and the blocks on the channel
  both advance by one per `recv`, and the range of the catch-up loop could
  only overflow after a block `u64::MAX` was stored. It is therefore not
  among the hazards.
* NewHeadsTests: `BLOCK_PAST_LIMIT = 2`, so that `subscribe_new_heads_many`
  awaits two headers and the three refusal tests store four blocks; the
  block ids are the five the tests use. The scripts fix what the test task
  does, so the state space is small (116 states): what is explored is every
  placement of the handler's steps between the lines of each test.
* P2pService: two peers, both bootstrap nodes, two domains. One peer dials
  while the other connects inbound; a third peer only multiplies the states
  and none of the properties is about a third.
  `MaxRestarts = 2` gives three runs of the node: one whose write of the
  fresh keypair fails, one that writes it and one that loads it; the file
  starts absent, unreadable or written by an earlier installation
  (`OldKey`), under each of the four settings of the two configuration
  fields.
* SyncHandler: two requests, heights 0 to 2 starting at 0 or 1, channel
  capacity 1, ranges `[a, b)` with `a` in 0..2 and `b` up to 4: ranges that are
  empty, inside the chain, past its end and wholly above it, and streams of
  three parts, which a channel of one makes wait.
* ChainConfig: four version strings (two spellings of one version, another
  version, an unparsable one), two files, two contents, five durations from 0
  to 6 ms, `usize` scaled to 20 bits.
* Receipt: felts 0..3 with the Ethereum-address limit at 2 and the `u64` limit
  at 1, counters 0 and 1, two builtins, a chain of three nodes: the first hop
  and two further ones, which is where agreement is decided. The six
  messages have the hashes 1..6 and the felts end at 3, so that for every
  sender and for every nonce there are hashes that fit and hashes that do
  not.
* RpcParams: every command line over three ports (both defaults among them),
  five `--rpc-methods` values, two batch lengths and nine `--rpc-cors` values.
* Utility: digit strings of up to ten digits over `0` and `1`, which puts
  addresses on both sides of the length 10 and hashes on both sides of the
  length 8; integers of a few values around each width.

Every property of a passing run is also checked against a faulty variant of a
definition it depends on (`mutants` in `PROJECT.json`): the run must fail when
the definition is replaced by the variant, under the same configuration.

## 6. Fairness

* NewHeads: weak fairness of the handler's steps and of `ClientRead`. The
  handler is a tokio task, which the runtime schedules when it is ready; the
  liveness properties are about clients that read, and a client that stops
  reading is covered by `ClosedSinkEndsHandler` once it closes.
* NewHeadsTests: weak fairness of the test task and of the handler task.
  Both are tasks of the tokio runtime of the test, polled while they can
  take a step; the block generator and the client are called by the test
  task itself.
* P2pService: weak fairness of the start-up sequence (straight-line code of
  one task) and of `ShutdownBranch`: once shutdown is requested that branch of
  the select is ready at every iteration, and `tokio::select!` picks among
  ready branches at random, so it is not passed over for ever. No fairness is
  assumed of the swarm, the status tick or `Restart`: a node that has stopped
  may stay stopped.
* SyncHandler: weak fairness of each task and of `Forward` per request. The
  second is an assumption about the peer: `EachRequestEnds` holds for peers
  that read or drop. A peer that does neither keeps its task suspended, which
  the design leaves open (no request has a timeout).
* ChainConfig, Receipt, RpcParams, Utility: safety only, no fairness. These
  stop when their work is done, so deadlock checking is off for the first
  three; `Utility` returns to its caller and never stops.

## 7. What is not modelled

* libp2p itself (transport, noise/TLS, yamux, Kademlia refresh, relay, ping),
  and storage beyond a height and a broadcast of stored blocks.
* Of the identity manager (`identity.rs`, not under `src/`): the key format,
  the permissions of the file and a write that is cut short. `LoadIdentity`
  is the load-or-create rule of the design description, as `new` and a later
  start of the node observe it.
* What the status tick logs, and the routing table it reads: nothing of the
  service reads them, and kept as state they multiplied the states without
  a property telling them apart.
* The sync codec (`sync_codec.rs`): not under `src/`, and the design
  description gives neither the frame layout nor the maximum length.
  `SyncHandler` takes a request as decoded and a part as encoded.
* The read RPC methods (`methods/read/lib.rs`): each is one line that passes
  its arguments to a function of a sibling file that is not under `src/`; the
  file has no state, no branch and no loop.
* The admin API (`admin/v0_1_0/api.rs`) and `v0_8_0/api.rs` beyond the
  signature of `subscribe_new_heads`: trait declarations. Which listener
  serves the admin methods is in `RpcParams`.
* `test_mainnet_from_yaml` and `test_from_preset` of `chain_config.rs`: they
  compare the fields of a configuration with literals, field by field; the
  yaml and the constants files they read are not under `src/`. What they say
  of the code's control (a preset name gives that preset, a yaml gives the
  fields it holds) is in `FromPresetName` and `DeserializeFields`.
* The integration tests (`tests/src/rpc/read.rs`): they start a node
  process and compare its JSON-RPC answers with literals of the Sepolia
  chain; the node they start is not under `src/`.
* The content of headers, receipts' events and messages, Cairo constants:
  carried through unchanged by the code and abstracted to a value of a small
  set.
* Log lines, metrics and error wording.

## 8. Plan

Built so far, in this order: NewHeads with HeadStream, P2pService,
ChainConfig, Receipt, SyncHandler, RpcParams, Utility, NewHeadsTests, the
test of the execution constants in ChainConfig, RangeStream, the identity
file and restarts in P2pService.

The twelve runs are one per question. What was considered next and left
out, with the reason:

1. Composition of `P2pService` and `SyncHandler`. The two meet in
   `handle_event` and in the task spawner, both outside `src/`: whether a
   task outlives `run`, and whether its parts are forwarded after the loop
   was left, would be decided by the model and not by the code.
2. NewHeads with two subscriptions on one broadcast channel. Each receiver
   has its own cursor into the channel and each handler its own `block_n`
   and sink; nothing of one subscription is read by the other, so a property
   over two of them holds or fails exactly as it does for one.
3. Two hazards have no property. That a shutdown signal raised between two
   polls is not lost (`lib.rs:124`) depends on `graceful_shutdown` of
   `mp_utils`, which is not under `src/`; `ShutdownStopsService` assumes the
   request stays raised. That the message hash of a synced L1 handler
   receipt is the hash of the message that was sent (`receipt.rs:85`) fails
   in the code whenever one of its four defaults applies; the model does the
   same, but what the producer stored is not decided under `src/`, and
   nothing in the sources or the design description states what must hold.
4. The saturating add of `block_n` (`ws/lib.rs:81`) is modelled and no
   hazard: see section 5.
