----------------------------- MODULE ChainConfig -----------------------------
(***************************************************************************)
(* The chain configuration of crates/primitives/chain_config: the four     *)
(* presets, the loading of a configuration from a yaml file (with the      *)
(* versioned constants it names read file by file), and the two questions  *)
(* the node asks of a configuration: the execution constants of a protocol *)
(* version and the number of pending ticks in a block.                     *)
(*                                                                         *)
(* A protocol version is a tuple of four numbers, ordered as the code      *)
(* orders StarknetVersion.  The content of a constants file is a value of  *)
(* Constants; a duration is a number of microseconds.                      *)
(***************************************************************************)
EXTENDS Naturals, Sequences, FiniteSets, SequencesExt

CONSTANTS
    VersionStrings,  \* keys a yaml file may use, in the order of String
    Parse,           \* StarknetVersion::from_str on those of them it accepts
    Paths,           \* the paths a yaml file may name
    Constants,       \* contents of well-formed constants files
    Durations,       \* the durations a yaml file may give
    QueryVersions,   \* the versions the node asks constants for
    USIZE_MAX,       \* the largest usize
    Nil,             \* no configuration, no error, no answer yet
    Panic            \* a call that did not return

Unsupported == "UnsupportedProtocolVersion"

V0_13_0 == <<0, 13, 0, 0>>
V0_13_1 == <<0, 13, 1, 0>>
V0_13_1_1 == <<0, 13, 1, 1>>
V0_13_2 == <<0, 13, 2, 0>>

Versions ==
    {V0_13_0, V0_13_1, V0_13_1_1, V0_13_2}
        \cup {Parse[s] : s \in DOMAIN Parse}

\* What a path may hold: nothing, something unreadable, something that is
\* not the JSON of versioned constants, or versioned constants.
FileStates == {"missing", "unreadable", "badjson"} \cup Constants

ASSUME
    /\ VersionStrings \in Seq(STRING)
    /\ DOMAIN Parse \subseteq ToSet(VersionStrings)
    /\ \A s \in DOMAIN Parse : Parse[s] \in Nat \X Nat \X Nat \X Nat
    /\ Durations \subseteq Nat
    /\ USIZE_MAX \in Nat

VARIABLES
    pc,          \* "start", "constants", "loaded", "failed", "panicked"
    files,       \* the file system: what each path holds
    file_paths,  \* the yaml's versioned_constants: version string -> path
    todo,        \* the entries of file_paths the loop has not reached yet
    result,      \* the map the loop builds: version -> constants
    config,      \* the ChainConfig, once there is one
    error,       \* why there is none
    asked,       \* the version last asked for
    answer,      \* the constants returned for it
    ticks        \* the last n_pending_ticks_per_block

vars == <<pc, files, file_paths, todo, result, config, error, asked, answer, ticks>>

Empty == <<>>

\* Faulty variant: a version already in the map keeps its constants.
InsertIfAbsent(map, version, constants) ==
    IF version \in DOMAIN map THEN map ELSE (version :> constants) @@ map

\* result.insert(parsed_version, constants)
Insert(map, version, constants) == (version :> constants) @@ map

\* impl From<[(StarknetVersion, VersionedConstants); N]>: the pairs are
\* collected into the map one after the other.
FromArray(arr) ==
    FoldLeft(LAMBDA map, pair : Insert(map, pair[1], pair[2]), Empty, arr)

-----------------------------------------------------------------------------
(* StarknetVersion and Duration, as far as the configuration uses them *)

\* Faulty variant: the comparison is strict.
VersionLess(a, b) ==
    \E i \in 1..4 : a[i] < b[i] /\ \A j \in 1..(i - 1) : a[j] = b[j]

\* k <= &version
VersionLeq(a, b) ==
    \/ a = b
    \/ \E i \in 1..4 : a[i] < b[i] /\ \A j \in 1..(i - 1) : a[j] = b[j]

VersionGeq(a, b) == VersionLeq(b, a)

AsMillis(d) == d \div 1000
FromSecs(s) == s * 1000000

\* `as usize` of a u128
AsUsize(n) == n % (USIZE_MAX + 1)

-----------------------------------------------------------------------------
(* The presets *)

\* The pairs every preset is built from: the files embedded for the three
\* older versions, VersionedConstants::latest_constants() for 0.13.2.
BLOCKIFIER_VERSIONED_CONSTANTS ==
    <<<<V0_13_0, "13_0">>, <<V0_13_1, "13_1">>, <<V0_13_1_1, "13_1_1">>,
      <<V0_13_2, "latest">>>>

starknet_mainnet ==
    [chain_name                |-> "Starknet Mainnet",
     chain_id                  |-> "Mainnet",
     versioned_constants       |-> FromArray(BLOCKIFIER_VERSIONED_CONSTANTS),
     eth_core_contract_address |-> "MAINNET",
     latest_protocol_version   |-> V0_13_2,
     block_time                |-> FromSecs(6 * 60),
     pending_block_update_time |-> FromSecs(2),
     sequencer_address         |-> 0]

starknet_sepolia ==
    [starknet_mainnet EXCEPT
        !.chain_name = "Starknet Sepolia",
        !.chain_id = "Sepolia",
        !.eth_core_contract_address = "SEPOLIA_TESTNET"]

starknet_integration ==
    [starknet_mainnet EXCEPT
        !.chain_name = "Starknet Sepolia Integration",
        !.chain_id = "IntegrationSepolia",
        !.eth_core_contract_address = "SEPOLIA_INTEGRATION"]

madara_devnet ==
    [starknet_sepolia EXCEPT
        !.chain_name = "MADARA",
        !.chain_id = "MADARA_DEVNET",
        !.sequencer_address = 1]

\* ChainPreset::from_str followed by get_config; a name from_str does not
\* know is not in the domain.
ChainPreset ==
    ("mainnet" :> starknet_mainnet) @@ ("sepolia" :> starknet_sepolia)
        @@ ("integration-sepolia" :> starknet_integration)
        @@ ("devnet" :> madara_devnet)

PresetNames == DOMAIN ChainPreset \cup {"Mainnet", "integration"}

-----------------------------------------------------------------------------
(* The questions asked of a configuration *)

\* Faulty variant: the constants are scanned from the oldest version on.
KeysOldestFirst(versioned_constants) ==
    SetToSortSeq(DOMAIN versioned_constants, VersionLeq)

\* self.versioned_constants.0.iter().rev()
KeysNewestFirst(versioned_constants) ==
    SetToSortSeq(DOMAIN versioned_constants, VersionGeq)

exec_constants_by_protocol_version(versioned_constants, version) ==
    LET keys == KeysNewestFirst(versioned_constants)
        hit == SelectInSeq(keys, LAMBDA k : VersionLeq(k, version))
    IN  IF hit = 0 THEN Unsupported ELSE versioned_constants[keys[hit]]

n_pending_ticks_per_block(c) ==
    IF AsMillis(c.pending_block_update_time) = 0
    THEN Panic
    ELSE AsUsize(AsMillis(c.block_time) \div AsMillis(c.pending_block_update_time))

-----------------------------------------------------------------------------
(* ChainConfig::from_preset_name *)

\* Faulty variant: the failure is not reported.
FailSilently(err) ==
    /\ pc' = "failed"
    /\ UNCHANGED <<config, error>>

\* bail!, and `?` on an Err
Fail(err) ==
    /\ pc' = "failed"
    /\ error' = err
    /\ UNCHANGED config

FromPresetName ==
    /\ pc = "start"
    /\ \E preset_name \in PresetNames :
          IF preset_name \in DOMAIN ChainPreset
          THEN /\ config' = ChainPreset[preset_name]
               /\ pc' = "loaded"
               /\ UNCHANGED error
          ELSE Fail("FailedToGetPreset")
    /\ UNCHANGED <<files, file_paths, todo, result, asked, answer, ticks>>

-----------------------------------------------------------------------------
(* ChainConfig::from_yaml *)

\* The yaml files: some of the version strings, each with a path.
YamlConstants ==
    UNION {[keys -> Paths] : keys \in SUBSET ToSet(VersionStrings)}

\* fs::read_to_string, and the deserializer reaching versioned_constants:
\* the BTreeMap<String, String> is walked in the order of its keys.
FromYaml ==
    /\ pc = "start"
    /\ \/ Fail("Io") /\ UNCHANGED <<file_paths, todo>>
       \/ \E yaml \in YamlConstants :
             /\ file_paths' = yaml
             /\ todo' = SelectSeq(VersionStrings, LAMBDA s : s \in DOMAIN yaml)
             /\ pc' = "constants"
             /\ UNCHANGED <<config, error>>
    /\ UNCHANGED <<files, result, asked, answer, ticks>>

\* One turn of the loop of ChainVersionedConstants::deserialize: open, read,
\* parse the JSON, parse the version, insert.
LoadConstants ==
    /\ pc = "constants"
    /\ todo # <<>>
    /\ LET version == Head(todo)
           file == files[file_paths[version]]
       IN  CASE file = "missing" -> Fail("FailedToOpenFile") /\ UNCHANGED result
             [] file = "unreadable" -> Fail("FailedToReadFile") /\ UNCHANGED result
             [] file = "badjson" -> Fail("FailedToParseJson") /\ UNCHANGED result
             [] version \notin DOMAIN Parse ->
                    Fail("FailedToParseVersion") /\ UNCHANGED result
             [] OTHER ->
                    /\ result' = Insert(result, Parse[version], file)
                    /\ UNCHANGED <<pc, config, error>>
    /\ todo' = Tail(todo)
    /\ UNCHANGED <<files, file_paths, asked, answer, ticks>>

\* The loop is over: the remaining fields of the yaml are deserialized
\* (latest_protocol_version by deserialize_starknet_version) and from_yaml
\* returns.
DeserializeFields ==
    /\ pc = "constants"
    /\ todo = <<>>
    /\ \/ Fail("WhileDeserializing")
       \/ \E s \in ToSet(VersionStrings), block_time, update_time \in Durations :
             IF s \notin DOMAIN Parse
             THEN Fail("WhileDeserializing")
             ELSE /\ config' = [chain_name                |-> "yaml",
                                chain_id                  |-> "yaml",
                                versioned_constants       |-> result,
                                eth_core_contract_address |-> "yaml",
                                latest_protocol_version   |-> Parse[s],
                                block_time                |-> block_time,
                                pending_block_update_time |-> update_time,
                                sequencer_address         |-> 0]
                  /\ pc' = "loaded"
                  /\ UNCHANGED error
    /\ UNCHANGED <<files, file_paths, todo, result, asked, answer, ticks>>

-----------------------------------------------------------------------------
(* The node uses the configuration *)

ExecConstants ==
    /\ pc = "loaded"
    /\ \E version \in QueryVersions \cup {config.latest_protocol_version} :
          /\ asked' = version
          /\ answer' = exec_constants_by_protocol_version(
                           config.versioned_constants, version)
    /\ UNCHANGED <<pc, files, file_paths, todo, result, config, error, ticks>>

NPendingTicks ==
    /\ pc = "loaded"
    /\ ticks' = n_pending_ticks_per_block(config)
    /\ pc' = IF ticks' = Panic THEN "panicked" ELSE pc
    /\ UNCHANGED <<files, file_paths, todo, result, config, error, asked, answer>>

-----------------------------------------------------------------------------
(* test_exec_constants *)

\* The constants of the configuration the test builds, told apart by
\* their validate_max_n_steps: 5 from version 0.1.5 on, 10 from 0.2.0 on.
TestVersionedConstants ==
    FromArray(<<<<<<0, 1, 5, 0>>, "steps_5">>, <<<<0, 2, 0, 0>>, "steps_10">>>>)

\* ChainConfig { versioned_constants: [..].into(), ..ChainConfig::madara_devnet() }
TestConfig ==
    [madara_devnet EXCEPT !.versioned_constants = TestVersionedConstants]

\* What the test asserts of the answer for each version it asks for.
test_exec_constants ==
    (<<0, 1, 5, 0>> :> "steps_5") @@ (<<0, 1, 6, 0>> :> "steps_5")
        @@ (<<0, 1, 7, 0>> :> "steps_5") @@ (<<0, 2, 0, 0>> :> "steps_10")
        @@ (<<0, 2, 5, 0>> :> "steps_10") @@ (<<1, 0, 0, 0>> :> "steps_10")
        @@ (<<0, 0, 0, 0>> :> Unsupported)

\* The test: the configuration is built, then asked version after version.
TestExecConstants ==
    /\ pc = "start" \/ config = TestConfig
    /\ config' = TestConfig
    /\ pc' = "loaded"
    /\ \E version \in DOMAIN test_exec_constants :
          /\ asked' = version
          /\ answer' = exec_constants_by_protocol_version(
                           TestConfig.versioned_constants, version)
    /\ UNCHANGED <<files, file_paths, todo, result, error, ticks>>

-----------------------------------------------------------------------------
Init ==
    /\ pc = "start"
    /\ files \in [Paths -> FileStates]
    /\ file_paths = Empty
    /\ todo = <<>>
    /\ result = Empty
    /\ config = Nil
    /\ error = Nil
    /\ asked = Nil
    /\ answer = Nil
    /\ ticks = Nil

Next ==
    \/ FromPresetName
    \/ FromYaml
    \/ LoadConstants
    \/ DeserializeFields
    \/ ExecConstants
    \/ NPendingTicks
    \/ TestExecConstants

Spec == Init /\ [][Next]_vars

-----------------------------------------------------------------------------
ConstantsMaps ==
    UNION {[keys -> Constants \cup {"13_0", "13_1", "13_1_1", "latest"}] :
               keys \in SUBSET Versions}

\* struct ChainConfig: names and addresses are tokens, a Duration is its
\* microseconds; the fee token addresses, the bouncer and the nonce limit,
\* which no operation reads, are left out.
ChainConfigs ==
    [chain_name                : STRING,
     chain_id                  : STRING,
     versioned_constants       : ConstantsMaps \cup {TestVersionedConstants},
     eth_core_contract_address : STRING,
     latest_protocol_version   : Versions,
     block_time                : Nat,
     pending_block_update_time : Nat,
     sequencer_address         : Nat]

TypeOK ==
    /\ pc \in {"start", "constants", "loaded", "failed", "panicked"}
    /\ files \in [Paths -> FileStates]
    /\ file_paths \in YamlConstants
    /\ todo \in Seq(DOMAIN file_paths)
    /\ result \in ConstantsMaps
    /\ (config = Nil) <=> (pc \in {"start", "constants", "failed"})
    /\ config # Nil => config \in ChainConfigs
    /\ (error = Nil) <=> (pc # "failed")
    /\ asked \in QueryVersions \cup Versions \cup DOMAIN test_exec_constants \cup {Nil}
    /\ ticks \in {Nil, Panic} \/ ticks \in 0..USIZE_MAX

\* The greatest version of the map that is not above `version`.
Floor(versioned_constants, version) ==
    CHOOSE k \in DOMAIN versioned_constants :
        /\ VersionLeq(k, version)
        /\ \A other \in DOMAIN versioned_constants :
              VersionLeq(other, version) => VersionLeq(other, k)

\* exec_constants_by_protocol_version returns the constants of the newest
\* version of the configuration that is not newer than the version asked
\* for, and UnsupportedProtocolVersion only when every version of the
\* configuration is newer (the reverse scan with its early return).
ExecConstantsIsFloor ==
    asked # Nil =>
        LET known == config.versioned_constants
        IN  IF \E k \in DOMAIN known : VersionLeq(k, asked)
            THEN answer = known[Floor(known, asked)]
            ELSE answer = Unsupported

\* The assertions of test_exec_constants hold: asked for a version it has
\* constants for, for one between two of them or for one above them all,
\* the configuration of the test answers with the constants the test
\* expects, and for a version below them all with an error.
ExecConstantsTestPasses ==
    (config = TestConfig /\ asked \in DOMAIN test_exec_constants)
        => answer = test_exec_constants[asked]

\* The version strings of the yaml that are written like `s` or after it in
\* the order of String, and name the same version.
LaterAliases(s) ==
    {t \in DOMAIN file_paths :
        /\ Parse[t] = Parse[s]
        /\ \E i, j \in 1..Len(VersionStrings) :
              VersionStrings[i] = s /\ VersionStrings[j] = t /\ i < j}

\* A configuration loaded from yaml has constants for exactly the versions
\* the yaml names, each taken from the file the yaml gives for it; when two
\* keys of the yaml name the same version, the file of the key that comes
\* last in the order of String is the one that counts (the loop of
\* ChainVersionedConstants::deserialize inserts in that order).
LoadedConstantsAreTheFiles ==
    (pc = "loaded" /\ config.chain_name = "yaml") =>
        LET loaded == config.versioned_constants
        IN  /\ DOMAIN loaded = {Parse[s] : s \in DOMAIN file_paths}
            /\ \A s \in DOMAIN file_paths :
                  LaterAliases(s) = {} =>
                      loaded[Parse[s]] = files[file_paths[s]]

\* n_pending_ticks_per_block is the number of pending ticks in a block: it
\* has a value for every configuration the node can have loaded.
NPendingTicksIsANumber == ticks # Panic
=============================================================================
