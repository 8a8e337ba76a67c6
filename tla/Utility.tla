------------------------------- MODULE Utility -------------------------------
(***************************************************************************)
(* The helpers of the L1 sync worker, crates/client/sync/src/utils/        *)
(* utility.rs: the two functions that shorten an address and a hash for    *)
(* the log, the conversion of a state-update event of the L1 core contract *)
(* into the node's L1StateUpdate, and the fetch of a random name.          *)
(*                                                                         *)
(* A string is the sequence of its characters, since the functions slice   *)
(* at fixed byte offsets and search for the first character that is not    *)
(* `0`.  Numbers keep their width: I256 and U256 arguments are wider than  *)
(* the u64 and the felt they are converted to.                             *)
(***************************************************************************)
EXTENDS Integers, Sequences, FiniteSets, SequencesExt

CONSTANTS
    Panic,        \* a call that panics
    Digits,       \* the hexadecimal digits tried, "0" among them
    MaxDigits,    \* the longest digit string tried
    U64_MAX,      \* the largest u64 (scaled down)
    FELT_MAX,     \* the largest value StarkFelt::new accepts (scaled down)
    U256_MAX,     \* the largest U256 (scaled down): above FELT_MAX
    I256_MIN,     \* the smallest I256 (scaled down): negative
    I256_MAX,     \* the largest I256 (scaled down): above U64_MAX
    Names         \* the names a response may list

ASSUME
    /\ "0" \in Digits /\ MaxDigits \in Nat
    /\ FELT_MAX < U256_MAX /\ I256_MIN < 0 /\ U64_MAX < I256_MAX

VARIABLES
    call   \* the last call made: its function, its argument and its result

vars == <<call>>

Err(e) == [err |-> e]
Ok(v) == [ok |-> v]

Ox == <<"0", "x">>
Ellipsis == <<".", ".", ".">>

\* The digit strings tried, and the strings of an address: with or without
\* the 0x prefix.
DigitStrings == UNION {[1..n -> Digits] : n \in 0..MaxDigits}
Addresses == DigitStrings \cup {Ox \o d : d \in DigitStrings}

\* `{:#x}` of a felt: 0x and its digits without leading zeros.
LowerHex == {Ox \o d : d \in {s \in DigitStrings : s # <<>> /\ (s[1] = "0" => Len(s) = 1)}}

\* s[from..], with Rust's offsets: from 0.
SliceFrom(s, from) == SubSeq(s, from + 1, Len(s))
\* s[..to]
SliceTo(s, to) == SubSeq(s, 1, to)

-----------------------------------------------------------------------------
\* `address` with 0x before it unless it has one.
Prefixed(address) == IF IsPrefix(Ox, address) THEN address ELSE Ox \o address

\* The first six and the last four characters of what is longer than ten.
Shortened(s) ==
    IF Len(s) > 10
    THEN SliceTo(s, 6) \o Ellipsis \o SliceFrom(s, Len(s) - 4)
    ELSE s

\* Faulty variant: the leading zeros are kept.
format_address_unstripped(address) == Shortened(Prefixed(address))

format_address(address) ==
    LET non_zero_index ==
            SelectInSeq(SliceFrom(Prefixed(address), 2), LAMBDA c : c # "0")
    IN  Shortened(IF non_zero_index # 0
                  THEN Ox \o SliceFrom(Prefixed(address), 2 + non_zero_index - 1)
                  ELSE Prefixed(address))

\* The first `n` characters, the dots and the last six.
Trimmed(s, n) ==
    IF Len(s) < n THEN Panic
    ELSE SliceTo(s, n) \o Ellipsis \o SliceFrom(s, Len(s) - 6)

\* Faulty variant: the prefix is cut after six characters, 0x included.
trim_hash_short(hash_str) == Trimmed(hash_str, 6)

\* A slice beyond the end of the string panics.
trim_hash(hash_str) == Trimmed(hash_str, 6 + 2)

u256_to_starkfelt(u256) ==
    IF u256 <= FELT_MAX THEN Ok(u256) ELSE Err("converting U256 to StarkFelt")

low_u64(n) == n % (U64_MAX + 1)

LogStateUpdates ==
    [block_number : I256_MIN..I256_MAX, global_root : 0..U256_MAX, block_hash : 0..U256_MAX]

\* The update made of an event once its number is known to be no less than
\* zero: the first of the two felts that is out of range is the error.
Converted(log_state_update) ==
    LET global_root == u256_to_starkfelt(log_state_update.global_root)
        block_hash == u256_to_starkfelt(log_state_update.block_hash)
    IN  IF "err" \in DOMAIN global_root THEN global_root
        ELSE IF "err" \in DOMAIN block_hash THEN block_hash
        ELSE Ok([block_number |-> low_u64(log_state_update.block_number),
                 global_root |-> global_root.ok, block_hash |-> block_hash.ok])

\* Faulty variant: the sign of the block number is not looked at.
convert_log_state_update_unsigned(log_state_update) == Converted(log_state_update)

convert_log_state_update(log_state_update) ==
    IF log_state_update.block_number < 0 THEN Err("Block number is negative")
    ELSE Converted(log_state_update)

\* What the request of get_random_pokemon_name may come back with: a failed
\* request, a body that is not JSON, JSON without a `results` array, or the
\* array, whose entries have a name or not.
Responses ==
    {[kind |-> k] : k \in {"RequestFailed", "NotJson", "NoResults"}}
        \cup {[kind |-> "Results", results |-> r] : r \in SUBSET (Names \cup {Panic})}

\* Faulty variant: whatever goes wrong is reported as a body that is not JSON.
PokemonNamesOneError(response) == {Err("NotJson")}

\* The results get_random_pokemon_name can give for a response: `?` hands an
\* error on, each unwrap panics on what it does not find.
PokemonNames(response) ==
    IF response.kind \in {"RequestFailed", "NotJson"} THEN {Err(response.kind)}
    ELSE IF response.kind = "NoResults" \/ response.results = {} THEN {Panic}
    ELSE {IF n = Panic THEN Panic ELSE Ok(n) : n \in response.results}

-----------------------------------------------------------------------------
NoCall == [fn |-> "none"]

FormatAddress ==
    /\ call = NoCall
    /\ \E a \in Addresses :
          call' = [fn |-> "format_address", arg |-> a, result |-> format_address(a)]

TrimHash ==
    /\ call = NoCall
    /\ \E h \in LowerHex :
          call' = [fn |-> "trim_hash", arg |-> h, result |-> trim_hash(h)]

ConvertLogStateUpdate ==
    /\ call = NoCall
    /\ \E l \in LogStateUpdates :
          call' = [fn |-> "convert_log_state_update", arg |-> l,
                   result |-> convert_log_state_update(l)]

GetRandomPokemonName ==
    /\ call = NoCall
    /\ \E r \in Responses :
          \E n \in PokemonNames(r) :
              call' = [fn |-> "get_random_pokemon_name", arg |-> r, result |-> n]

\* The caller has taken the result.
Return == call # NoCall /\ call' = NoCall

Init == call = NoCall

Next ==
    \/ FormatAddress
    \/ TrimHash
    \/ ConvertLogStateUpdate
    \/ GetRandomPokemonName
    \/ Return

Spec == Init /\ [][Next]_vars

-----------------------------------------------------------------------------
Functions ==
    {"none", "format_address", "trim_hash", "convert_log_state_update",
     "get_random_pokemon_name"}

Called(fn) == call.fn = fn

TypeOK ==
    /\ call.fn \in Functions
    /\ Called("format_address") => call.result \in Seq(Digits \cup {"x", "."})
    /\ Called("convert_log_state_update") /\ "ok" \in DOMAIN call.result =>
          call.result.ok \in [block_number : 0..U64_MAX, global_root : 0..FELT_MAX,
                              block_hash : 0..FELT_MAX]
    /\ Called("get_random_pokemon_name") =>
          \/ call.result = Panic
          \/ /\ "err" \in DOMAIN call.result
             /\ call.arg.kind = call.result.err
          \/ /\ "ok" \in DOMAIN call.result
             /\ call.result.ok \in call.arg.results

\* The digits of an address without 0x and without leading zeros.
Significant(address) ==
    LET digits == IF IsPrefix(Ox, address) THEN SliceFrom(address, 2) ELSE address
        first == SelectInSeq(digits, LAMBDA c : c # "0")
    IN  IF first = 0 THEN <<>> ELSE SliceFrom(digits, first - 1)

\* Every spelling of an address that is not zero (with or without 0x, with
\* or without leading zeros) is shortened to the same text, of at most 13
\* characters, which format_address leaves as it is when given it again.
FormatAddressIsCanonical ==
    (Called("format_address") /\ Significant(call.arg) # <<>>) =>
        /\ call.result = format_address(Significant(call.arg))
        /\ Len(call.result) <= 13
        /\ IsPrefix(Ox, call.result) /\ call.result[3] # "0"
        /\ Len(call.result) > 10 => format_address(call.result) = call.result

\* What trim_hash gives shows the first and the last six digits of the hash:
\* its text has 0x and six digits before the dots and six digits after them
\* (the two slices of trim_hash, which take eight and six characters).
TrimHashShowsBothEnds ==
    (Called("trim_hash") /\ call.result # Panic) =>
        /\ Len(call.result) = 17
        /\ IsPrefix(SliceTo(call.result, 8), call.arg)
        /\ IsSuffix(SliceFrom(call.result, 11), call.arg)
        /\ \A i \in 3..8 : call.result[i] \in Digits

\* An event of the core contract is refused when its block number is below
\* zero or its root or hash is no felt, and converted otherwise
\* (convert_log_state_update, u256_to_starkfelt).  A converted update has the
\* root and the hash of the event; its block number is a u64 that differs
\* from the event's by a multiple of 2^64: the event's number when that is a
\* u64, and another block's number when it is wider, since low_u64
\* (utility.rs:74) cuts such a number and nothing refuses it.
ConvertedUpdateIsEventLow64 ==
    Called("convert_log_state_update") =>
        IF "ok" \in DOMAIN call.result
        THEN /\ call.arg.block_number >= 0
             /\ call.result.ok.global_root = call.arg.global_root
             /\ call.result.ok.block_hash = call.arg.block_hash
             /\ call.result.ok.block_number \in 0..U64_MAX
             /\ (call.arg.block_number - call.result.ok.block_number)
                    % (U64_MAX + 1) = 0
        ELSE \/ call.arg.block_number < 0
             \/ call.arg.global_root > FELT_MAX
             \/ call.arg.block_hash > FELT_MAX
=============================================================================
