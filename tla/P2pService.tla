----------------------------- MODULE P2pService -----------------------------
(***************************************************************************)
(* The peer-to-peer service of crates/client/p2p/src/lib.rs: MadaraP2p::new *)
(* loads the identity, builds the swarm and registers the five sync         *)
(* handlers, MadaraP2p::run                                                 *)
(* binds the listen address, dials every bootstrap node once and then loops *)
(* over a select of {shutdown, status tick, next swarm event}.              *)
(*                                                                         *)
(* The run loop is the only caller of the swarm: the network makes progress *)
(* only inside swarm.next().  The swarm itself (libp2p) and handle_event    *)
(* (events.rs) are not part of the sources at hand; what they do to the    *)
(* state is written from the description of the behaviours and of the      *)
(* handler framework, and kept to what the run loop can observe.  So is     *)
(* identity::load_identity (identity.rs), which new calls first.  The node  *)
(* may be started again after the service has ended: the identity file is   *)
(* all that one run of the service leaves to the next.                      *)
(***************************************************************************)
EXTENDS Naturals, Sequences, FiniteSets, SequencesExt

CONSTANTS
    Peers,           \* the peers of the network
    BootstrapNodes,  \* config.bootstrap_nodes: a sequence of peers
    Domains,         \* the five sync domains
    MaxRestarts      \* how often the node is started again

ASSUME
    /\ IsFiniteSet(Peers) /\ IsFiniteSet(Domains)
    /\ BootstrapNodes \in Seq(Peers)
    /\ MaxRestarts \in Nat

VARIABLES
    pc,        \* where the service is: see Lifecycle
    result,    \* what new / run returned, or Running
    todo,      \* the bootstrap nodes the dial loop has not reached yet
    shutdown,  \* graceful_shutdown() has been requested
    handlers,  \* the domains a DynSyncHandler is registered for
    listening, \* the swarm has a listener
    dialing,   \* outgoing connections the swarm is still establishing
    outgoing,  \* established outgoing connections
    incoming,  \* established incoming connections
    tasks,     \* handler tasks in flight: <<peer, domain>>
    config,    \* P2pConfig: is there an identity_file, and save_identity
    peer_id,   \* the keypair the swarm was built with
    file,      \* what the identity file holds
    generated, \* the keypairs generated so far, over all runs
    restarts   \* how often the node was started again

swarmVars == <<listening, dialing, outgoing, incoming>>

\* P2pConfig, as far as new reads it: whether there is an identity_file, and
\* save_identity.  bootstrap_nodes is the constant BootstrapNodes.
P2pConfig == [identity_file : BOOLEAN, save_identity : BOOLEAN]

\* What outlives a run of the service, and what the run itself holds.
diskVars == <<config, file, generated, restarts>>
runVars == <<pc, result, todo, shutdown, handlers, swarmVars, tasks, peer_id>>

vars == <<runVars, diskVars>>

\* "new" precedes MadaraP2p::new; "idle" is a built service whose run has
\* not bound yet; "dial" is the bootstrap loop; "running" the select loop.
Lifecycle == {"new", "idle", "dial", "running", "stopped", "failed"}
Terminal == {"stopped", "failed"}

Running == "Running"
Ok == "Ok"
StartupErrors == {"Identity", "Transport", "BindingPort"}
Errors == StartupErrors \cup {"HandlingEvent"}

\* Keypairs are numbered in the order they are generated; OldKey is the
\* keypair of a file that was there before the node first ran.  A swarm
\* that is not built, and a file that does not exist, hold NoKey; Garbage
\* is the content of a file that does not parse.
NoKey == 0
OldKey == MaxRestarts + 2
Keys == 1..OldKey
Garbage == OldKey + 1

Connected == outgoing \cup incoming

\* Faulty variant: the loop is left and run's result is never set.
ReturnNothing == pc' = "stopped" /\ UNCHANGED result

\* `return Ok(())` after the loop, and an error leaving new or run through `?`.
Return == pc' = "stopped" /\ result' = Ok
Fail(err) == pc' = "failed" /\ result' = err

-----------------------------------------------------------------------------
(* The swarm, as far as the run loop sees it *)

\* The events swarm.next() can yield in the current state.
SwarmEvents ==
       {[type |-> "ConnectionEstablished", peer |-> p] : p \in dialing}
  \cup {[type |-> "OutgoingConnectionError", peer |-> p] : p \in dialing}
  \cup {[type |-> "IncomingConnection", peer |-> p] : p \in Peers \ incoming}
  \cup {[type |-> "ConnectionClosed", peer |-> p] : p \in Connected}
  \cup {[type |-> "Identify", peer |-> p] : p \in Connected}
  \cup {[type |-> "SyncRequest", peer |-> t[1], domain |-> t[2]] :
            t \in (Connected \X handlers) \ tasks}

\* What yielding `e` does to the swarm's connections.
Connections(e) ==
    CASE e.type = "ConnectionEstablished" ->
            /\ dialing' = dialing \ {e.peer}
            /\ outgoing' = outgoing \cup {e.peer}
            /\ UNCHANGED incoming
      [] e.type = "OutgoingConnectionError" ->
            /\ dialing' = dialing \ {e.peer}
            /\ UNCHANGED <<outgoing, incoming>>
      [] e.type = "IncomingConnection" ->
            /\ incoming' = incoming \cup {e.peer}
            /\ UNCHANGED <<dialing, outgoing>>
      [] e.type = "ConnectionClosed" ->
            /\ outgoing' = outgoing \ {e.peer}
            /\ incoming' = incoming \ {e.peer}
            /\ UNCHANGED dialing
      [] OTHER -> UNCHANGED <<dialing, outgoing, incoming>>

\* handle_event: dispatch of one event to the part of the service it is for.
\* A sync request starts a task of the handler registered for its domain;
\* what the other events do (an identified peer enters the routing table)
\* stays inside the swarm.
HandleEvent(e) ==
    tasks' = IF e.type = "SyncRequest"
             THEN tasks \cup {<<e.peer, e.domain>>}
             ELSE tasks

-----------------------------------------------------------------------------
(* MadaraP2p::new *)

\* Faulty variant: the identity file is not looked at; a keypair is generated
\* and, when asked for, written over what the file held.
LoadIdentityAlwaysFresh(keypair) ==
    /\ keypair = generated + 1
    /\ generated' = keypair
    /\ \/ config.identity_file /\ config.save_identity /\ file' = keypair
       \/ file' = file

\* identity::load_identity(config.identity_file, config.save_identity)
\* returns `keypair`: the one of the file when a file is configured and
\* parses; a fresh one when no file is configured or the file is absent,
\* written to the file when save_identity is set.  A write that fails is
\* logged and the keypair is used all the same.
LoadIdentity(keypair) ==
    \/ /\ config.identity_file /\ file \in Keys
       /\ keypair = file
       /\ UNCHANGED <<file, generated>>
    \/ /\ ~config.identity_file \/ file = NoKey
       /\ keypair = generated + 1
       /\ generated' = keypair
       /\ \/ config.identity_file /\ config.save_identity /\ file' = keypair
          \/ file' = file

\* A configured file that does not parse ends new with an error; so does a
\* transport that cannot be configured, after the identity was loaded.
New ==
    /\ pc = "new"
    /\ \/ /\ config.identity_file /\ file = Garbage
          /\ Fail("Identity")
          /\ UNCHANGED <<handlers, peer_id, file, generated>>
       \/ \E keypair \in Keys :
             /\ LoadIdentity(keypair)
             /\ \/ Fail("Transport") /\ UNCHANGED <<handlers, peer_id>>
                \/ /\ pc' = "idle"
                   /\ handlers' = Domains
                   /\ peer_id' = keypair
                   /\ UNCHANGED result
    /\ UNCHANGED <<todo, shutdown, swarmVars, tasks, config, restarts>>

-----------------------------------------------------------------------------
(* MadaraP2p::run *)

ListenOn ==
    /\ pc = "idle"
    /\ \/ Fail("BindingPort") /\ UNCHANGED <<todo, listening>>
       \/ /\ listening' = TRUE
          /\ pc' = "dial"
          /\ todo' = BootstrapNodes
          /\ UNCHANGED result
    /\ UNCHANGED <<shutdown, handlers, dialing, outgoing, incoming, tasks,
                   peer_id, diskVars>>

\* Faulty variant: a bootstrap node that cannot be dialled ends run.
DialBootstrapOrFail ==
    /\ pc = "dial"
    /\ todo # <<>>
    /\ \/ /\ dialing' = dialing \cup {Head(todo)}
          /\ todo' = Tail(todo)
          /\ UNCHANGED <<pc, result>>
       \/ Fail("BindingPort") /\ UNCHANGED <<dialing, todo>>
    /\ UNCHANGED <<shutdown, handlers, listening, outgoing, incoming,
                   tasks, peer_id, diskVars>>

\* One iteration of the bootstrap loop: swarm.dial either starts a
\* connection attempt or refuses at once; the refusal is only logged.
DialBootstrap ==
    /\ pc = "dial"
    /\ todo # <<>>
    /\ dialing' \in {dialing \cup {Head(todo)}, dialing}
    /\ todo' = Tail(todo)
    /\ UNCHANGED <<pc, result, shutdown, handlers, listening, outgoing,
                   incoming, tasks, peer_id, diskVars>>

EnterLoop ==
    /\ pc = "dial"
    /\ todo = <<>>
    /\ pc' = "running"
    /\ UNCHANGED <<result, todo, shutdown, handlers, swarmVars, tasks,
                   peer_id, diskVars>>

\* Faulty variant: the select has no shutdown branch.
ShutdownIgnored == FALSE /\ UNCHANGED vars

ShutdownBranch ==
    /\ pc = "running"
    /\ shutdown
    /\ Return
    /\ UNCHANGED <<todo, shutdown, handlers, swarmVars, tasks,
                   peer_id, diskVars>>

\* The status tick reads the connection counters and the routing table of
\* the swarm and logs them: nothing of the service changes.
StatusTick ==
    /\ pc = "running"
    /\ UNCHANGED vars

\* swarm.next() yields an event and handle_event takes it; its error leaves
\* run through `?`.
SwarmNext ==
    /\ pc = "running"
    /\ \E e \in SwarmEvents :
          /\ Connections(e)
          /\ \/ HandleEvent(e) /\ UNCHANGED <<pc, result>>
             \/ Fail("HandlingEvent") /\ UNCHANGED tasks
    /\ UNCHANGED <<todo, shutdown, handlers, listening, peer_id, diskVars>>

\* swarm.next() yields None.
SwarmExhausted ==
    /\ pc = "running"
    /\ Return
    /\ UNCHANGED <<todo, shutdown, handlers, swarmVars, tasks,
                   peer_id, diskVars>>

-----------------------------------------------------------------------------
(* The environment *)

RequestShutdown ==
    /\ ~shutdown
    /\ shutdown' = TRUE
    /\ UNCHANGED <<pc, result, todo, handlers, swarmVars, tasks,
                   peer_id, diskVars>>

\* A handler task runs by itself and ends by itself.
TaskEnds ==
    /\ \E t \in tasks : tasks' = tasks \ {t}
    /\ UNCHANGED <<pc, result, todo, shutdown, handlers, swarmVars,
                   peer_id, diskVars>>

-----------------------------------------------------------------------------
Init ==
    /\ pc = "new"
    /\ result = Running
    /\ todo = <<>>
    /\ shutdown = FALSE
    /\ handlers = {}
    /\ listening = FALSE
    /\ dialing = {} /\ outgoing = {} /\ incoming = {}
    /\ tasks = {}
    /\ config \in P2pConfig
    /\ peer_id = NoKey
    /\ file \in {NoKey, Garbage, OldKey}
    /\ generated = 0
    /\ restarts = 0

\* The node is started again after the service has ended, with the same
\* configuration: the process is a new one, the identity file is as the
\* last run left it.
Restart ==
    /\ pc \in Terminal
    /\ restarts < MaxRestarts
    /\ restarts' = restarts + 1
    /\ pc' = "new" /\ result' = Running
    /\ todo' = <<>> /\ shutdown' = FALSE /\ handlers' = {}
    /\ listening' = FALSE
    /\ dialing' = {} /\ outgoing' = {} /\ incoming' = {}
    /\ tasks' = {}
    /\ peer_id' = NoKey
    /\ UNCHANGED <<config, file, generated>>

Startup == New \/ ListenOn \/ DialBootstrap \/ EnterLoop

Next ==
    \/ New
    \/ ListenOn
    \/ DialBootstrap
    \/ EnterLoop
    \/ ShutdownBranch
    \/ StatusTick
    \/ SwarmNext
    \/ SwarmExhausted
    \/ RequestShutdown
    \/ TaskEnds
    \/ Restart

\* run is one task on the runtime, so its straight-line start is taken; a
\* select whose shutdown branch stays ready takes it in the end.
Fairness == WF_vars(Startup) /\ WF_vars(ShutdownBranch)

Spec == Init /\ [][Next]_vars /\ Fairness

-----------------------------------------------------------------------------
TypeOK ==
    /\ pc \in Lifecycle
    /\ result \in {Running, Ok} \cup Errors
    /\ result = Running <=> pc \notin Terminal
    /\ todo \in Seq(Peers) /\ IsSuffix(todo, BootstrapNodes)
    /\ shutdown \in BOOLEAN
    /\ handlers \subseteq Domains
    /\ listening \in BOOLEAN
    /\ dialing \subseteq Peers /\ outgoing \subseteq Peers
    /\ incoming \subseteq Peers
    /\ tasks \subseteq Peers \X handlers
    /\ config \in P2pConfig
    /\ peer_id \in Keys \cup {NoKey}
    /\ peer_id = NoKey <=> pc = "new" \/ result \in {"Identity", "Transport"}
    /\ file \in Keys \cup {NoKey, Garbage}
    /\ generated \in 0..(restarts + 1)
    /\ restarts \in 0..MaxRestarts

\* Bootstrap is best effort: once the listen address is bound, run reaches
\* its select loop whatever swarm.dial answers for the bootstrap nodes (the
\* dial loop of run logs a refused dial and goes on).
BootstrapIsBestEffort == (pc = "dial") ~> (pc = "running")

\* A requested shutdown ends the service: the select loop of run has a
\* graceful_shutdown() branch that breaks out of the loop, whatever else the
\* swarm has ready.
ShutdownStopsService == shutdown ~> (pc \in Terminal)

\* A keypair that is on file stays the identity of the node: once the
\* configured identity file holds a keypair, no start of the node replaces
\* it, and every swarm built from then on has that keypair, whichever run
\* wrote the file and however the runs in between ended (load_identity in
\* MadaraP2p::new, called again at every start of the node).
IdentityFileIsKept ==
    [][(config.identity_file /\ file \in Keys) =>
           file' = file /\ peer_id' \in {NoKey, file}]_vars

\* Faults of one peer or one request never end the reactor: run returns an
\* error only when it could not bind (the error-propagation policy of the
\* service; run's `?` on handle_event is the code it is about).
OnlyStartupFaultsEndRun == (result \in Errors) => ~listening
=============================================================================
