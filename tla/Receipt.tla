------------------------------- MODULE Receipt -------------------------------
(***************************************************************************)
(* The receipt conversions of crates/primitives/gateway/src/receipt.rs:    *)
(* ConfirmedReceipt::new turns a stored receipt into the gateway's form,   *)
(* ConfirmedReceipt::into_mp turns the gateway's form, together with the   *)
(* transaction, back into a stored receipt.  A node that serves its blocks *)
(* over the gateway applies the first, a node that syncs from a gateway    *)
(* the second, so a receipt travels down a chain of nodes through both,    *)
(* again and again.  Neither form can say everything the other can; the    *)
(* module follows one receipt down such a chain.                           *)
(*                                                                         *)
(* Transaction hashes, events and messages are values that are only       *)
(* handed on; the hash of an L1 message is worked out again at every sync  *)
(* and is a number, since it must fit a felt.  An Option is its value or   *)
(* Nil.                                                                    *)
(***************************************************************************)
EXTENDS Naturals, Sequences, FiniteSets, SequencesExt

CONSTANTS
    Nil,             \* Option::None
    Felts,           \* the field elements addresses and nonces are taken from
    FELT_MAX,        \* the largest felt
    ETH_ADDRESS_MAX, \* the largest felt that is an Ethereum address
    U64_MAX,         \* the largest u64
    Keccak,          \* the Hash256 of each message to L2
    Counts,          \* the counts a resource counter may hold
    Builtins,        \* the builtins whose stored counters vary
    MaxNodes         \* the length of the chain of nodes

MpBuiltins ==
    {"pedersen", "range_check", "ecdsa", "bitwise", "ec_op", "keccak",
     "poseidon", "segment_arena"}

\* BuiltinCounters: the gateway's form also counts these three.
GatewayBuiltins == MpBuiltins \cup {"output", "add_mod", "mul_mod"}

\* The one contract and the one entry point of the transactions tried.
Contracts == {1}
Selectors == {1}

\* starknet_core::types::MsgToL2: the payload is handed on and left out.
MsgToL2 ==
    [from_address : 0..ETH_ADDRESS_MAX, to_address : Contracts,
     selector : Selectors, nonce : 0..U64_MAX]

ASSUME
    /\ FELT_MAX \in Nat /\ Felts \subseteq 0..FELT_MAX /\ Counts \subseteq Nat
    /\ ETH_ADDRESS_MAX \in 0..FELT_MAX /\ U64_MAX \in 0..FELT_MAX
    /\ Keccak \in [MsgToL2 -> Nat] /\ IsInjective(Keccak)
    /\ Builtins \subseteq MpBuiltins
    /\ MaxNodes \in Nat \ {0}

VARIABLES
    tx,       \* the transaction the receipt is of
    stored,   \* the receipt as each node of the chain has it, first node first
    served,   \* the gateway's form of it, as each node was served it
    wire      \* the gateway's form on its way to the next node, or Nil

vars == <<tx, stored, served, wire>>

Kinds == {"Invoke", "L1Handler", "Declare", "Deploy", "DeployAccount"}

Succeeded == [status |-> "Succeeded"]
Reverted(reason) == [status |-> "Reverted", reason |-> reason]

-----------------------------------------------------------------------------
(* Helpers of the conversions *)

UnwrapOr(option, default) == IF option = Nil THEN default ELSE option

\* Faulty variant: a count of one is dropped as well.
NoneIfBelowTwo(n) == IF n <= 1 THEN Nil ELSE n

none_if_zero(n) == IF n = 0 THEN Nil ELSE n

\* Felt -> FeePayment: the gateway's form has no unit.
FeeFromFelt(amount) == [amount |-> amount, unit |-> "Wei"]

\* from_address.try_into(), felt_to_u64(&tx.nonce)
TryIntoEthAddress(felt) == IF felt <= ETH_ADDRESS_MAX THEN felt ELSE Nil
felt_to_u64(felt) == IF felt <= U64_MAX THEN felt ELSE Nil

\* MsgToL2::hash
Hash(message) == Keccak[message]

\* Hash256 -> Felt: a hash above the largest felt is none.
TryIntoFelt(hash) == IF hash <= FELT_MAX THEN hash ELSE Nil

-----------------------------------------------------------------------------
(* ExecutionResources, both ways *)

\* Faulty variant: the counters of pedersen and range_check change places.
GatewayResourcesSwapped(resources) ==
    LET from(b) == CASE b = "pedersen" -> "range_check"
                     [] b = "range_check" -> "pedersen"
                     [] OTHER -> b
    IN  [builtin_instance_counter |->
            [b \in GatewayBuiltins |->
                IF b \in MpBuiltins THEN UnwrapOr(resources.builtins[from(b)], 0) ELSE 0],
         n_steps            |-> resources.steps,
         n_memory_holes     |-> UnwrapOr(resources.memory_holes, 0),
         data_availability  |-> resources.data_availability,
         total_gas_consumed |-> resources.total_gas_consumed]

\* impl From<mp_receipt::ExecutionResources> for ExecutionResources
GatewayResources(resources) ==
    [builtin_instance_counter |->
        [b \in GatewayBuiltins |->
            IF b \in MpBuiltins THEN UnwrapOr(resources.builtins[b], 0) ELSE 0],
     n_steps            |-> resources.steps,
     n_memory_holes     |-> UnwrapOr(resources.memory_holes, 0),
     data_availability  |-> resources.data_availability,
     total_gas_consumed |-> resources.total_gas_consumed]

\* impl From<ExecutionResources> for mp_receipt::ExecutionResources
MpResources(resources) ==
    [steps              |-> resources.n_steps,
     memory_holes       |-> none_if_zero(resources.n_memory_holes),
     builtins           |-> [b \in MpBuiltins |->
                                none_if_zero(resources.builtin_instance_counter[b])],
     data_availability  |-> UnwrapOr(resources.data_availability, 0),
     total_gas_consumed |-> UnwrapOr(resources.total_gas_consumed, 0)]

-----------------------------------------------------------------------------
(* ConfirmedReceipt::new *)

New(transaction_receipt, l1_to_l2_consumed_message, index) ==
    LET result == transaction_receipt.execution_result
        reverted == result.status = "Reverted"
    IN  [transaction_hash          |-> transaction_receipt.transaction_hash,
         transaction_index         |-> index,
         actual_fee                |-> transaction_receipt.actual_fee.amount,
         execution_resources       |-> GatewayResources(transaction_receipt.execution_resources),
         l2_to_l1_messages         |-> transaction_receipt.messages_sent,
         l1_to_l2_consumed_message |-> l1_to_l2_consumed_message,
         events                    |-> transaction_receipt.events,
         execution_status          |-> result.status,
         revert_error              |-> IF reverted THEN result.reason ELSE Nil]

-----------------------------------------------------------------------------
(* ConfirmedReceipt::into_mp *)

\* Faulty variant: a revert without revert_error keeps no reason at all.
ExecutionResultWithoutDefault(status, reason) ==
    IF status = "Succeeded" THEN Succeeded ELSE Reverted(reason)

execution_result(status, reason) ==
    IF status = "Succeeded" THEN Succeeded ELSE Reverted(UnwrapOr(reason, ""))

\* The hash into_mp_l1_handler works out from the transaction: each of the
\* three conversions that fails gives zero.
L1HandlerMessageHash(t) ==
    LET from_address == IF t.calldata_empty THEN 0 ELSE t.from_address
        message_to_l2 ==
            [from_address |-> UnwrapOr(TryIntoEthAddress(from_address), 0),
             to_address   |-> t.contract_address,
             selector     |-> t.entry_point_selector,
             nonce        |-> UnwrapOr(felt_to_u64(t.nonce), 0)]
    IN  UnwrapOr(TryIntoFelt(Hash(message_to_l2)), 0)

\* The contract address into_mp_deploy and into_mp_deploy_account take from
\* the transaction.
ContractAddress(t) ==
    CASE t.kind = "Deploy" -> t.contract_address
      [] t.kind = "DeployAccount" ->
            IF t.version = "V1" THEN t.contract_address ELSE 0
      [] OTHER -> Nil

IntoMp(receipt, t) ==
    [kind                |-> t.kind,
     transaction_hash    |-> receipt.transaction_hash,
     actual_fee          |-> FeeFromFelt(receipt.actual_fee),
     messages_sent       |-> receipt.l2_to_l1_messages,
     events              |-> receipt.events,
     execution_resources |-> MpResources(receipt.execution_resources),
     execution_result    |-> execution_result(receipt.execution_status,
                                              receipt.revert_error),
     message_hash        |-> IF t.kind = "L1Handler"
                             THEN L1HandlerMessageHash(t) ELSE Nil,
     contract_address    |-> ContractAddress(t)]

-----------------------------------------------------------------------------
(* What a node can hold and what a gateway can send *)

Option(S) == S \cup {Nil}

Transactions ==
    [kind : Kinds, version : {"V1", "V3"}, contract_address : Contracts,
     entry_point_selector : Selectors, calldata_empty : BOOLEAN,
     from_address : Felts, nonce : Felts]

\* Stored counters: those of Builtins vary, the others are absent.
StoredBuiltins ==
    {[b \in MpBuiltins |-> IF b \in Builtins THEN f[b] ELSE Nil] :
        f \in [Builtins -> Option(Counts)]}

StoredResources ==
    [steps : {1}, memory_holes : Option(Counts), builtins : StoredBuiltins,
     data_availability : {0, 1}, total_gas_consumed : {1}]

\* The receipts of transaction t a block producer can have stored; how it
\* came by the message hash is its own affair.
StoredReceipts(t) ==
    [kind : {t.kind}, transaction_hash : {1},
     actual_fee : [amount : {1}, unit : {"Wei", "Fri"}],
     messages_sent : {<<>>}, events : {<<>>},
     execution_resources : StoredResources,
     execution_result : {Succeeded, Reverted(""), Reverted("reason")},
     message_hash : IF t.kind = "L1Handler" THEN 0..FELT_MAX ELSE {Nil},
     contract_address : IF t.kind \in {"Deploy", "DeployAccount"}
                        THEN {t.contract_address} ELSE {Nil}]

\* Counters as a gateway may send them: "output" stands for the three
\* counters only the gateway's form has.
GatewayCounters ==
    {[b \in GatewayBuiltins |->
        CASE b \in Builtins -> f[b]
          [] b = "output" -> f["output"]
          [] OTHER -> 0] :
        f \in [Builtins \cup {"output"} -> Counts]}

\* The receipts any gateway can send.
GatewayReceipts ==
    [transaction_hash : {1}, transaction_index : {0}, actual_fee : {1},
     execution_resources :
        [builtin_instance_counter : GatewayCounters, n_steps : {1},
         n_memory_holes : {0}, data_availability : Option({1}),
         total_gas_consumed : {1}],
     l2_to_l1_messages : {<<>>}, l1_to_l2_consumed_message : {Nil},
     events : {<<>>}, execution_status : {"Succeeded", "Reverted"},
     revert_error : Option({"reason"})]

-----------------------------------------------------------------------------
(* A receipt goes down the chain of nodes *)

\* The first node produced the block, or synced it from a gateway that is
\* not one of ours.
Init ==
    /\ tx \in Transactions
    /\ served = <<>>
    /\ \/ stored \in {<<r>> : r \in StoredReceipts(tx)} /\ wire = Nil
       \/ stored = <<>> /\ wire \in GatewayReceipts

\* The last node of the chain serves the receipt over its gateway.
Serve ==
    /\ wire = Nil
    /\ Len(stored) < MaxNodes
    /\ wire' = New(Last(stored), Nil, 0)
    /\ UNCHANGED <<tx, stored, served>>

\* The next node syncs it.
Sync ==
    /\ wire # Nil
    /\ stored' = Append(stored, IntoMp(wire, tx))
    /\ served' = Append(served, wire)
    /\ wire' = Nil
    /\ UNCHANGED tx

Next == Serve \/ Sync

Spec == Init /\ [][Next]_vars

-----------------------------------------------------------------------------
SyncedReceipts ==
    [kind : Kinds, transaction_hash : {1},
     actual_fee : [amount : {1}, unit : {"Wei", "Fri"}],
     messages_sent : {<<>>}, events : {<<>>},
     execution_resources :
        [steps : {1}, memory_holes : Option(Counts),
         builtins : [MpBuiltins -> Option(Counts)],
         data_availability : {0, 1}, total_gas_consumed : {1}],
     execution_result : {Succeeded} \cup {Reverted(r) : r \in {"", "reason"}},
     message_hash : Option(0..FELT_MAX),
     contract_address : Option(Felts)]

TypeOK ==
    /\ tx \in Transactions
    /\ stored \in Seq(SyncedReceipts) /\ Len(stored) <= MaxNodes
    /\ wire # Nil => wire.execution_resources.builtin_instance_counter
                        \in [GatewayBuiltins -> Counts]
    /\ Len(served) \in {Len(stored), Len(stored) - 1}

\* The nodes whose receipt came out of into_mp, and the nodes that were
\* served a receipt that came out of new.
Synced == {i \in 1..Len(stored) : i > Len(stored) - Len(served)}
ServedByUs == {i \in 1..Len(served) : i > 1 \/ Len(stored) > Len(served)}

\* Every node that synced the receipt has the same receipt, and every node
\* that was served it by one of our nodes was served the same: what new and
\* into_mp drop or default, they drop or default once, and a receipt that
\* went through a gateway is unchanged by going through another.
DownstreamNodesAgree ==
    /\ \A i, j \in Synced : stored[i] = stored[j]
    /\ \A i, j \in ServedByUs : served[i] = served[j]

\* A stored receipt the gateway's form can carry whole: a fee in Wei, no
\* counter that is present and zero, no version 3 account deployment.
Portable(receipt, t) ==
    /\ receipt.actual_fee.unit = "Wei"
    /\ receipt.execution_resources.memory_holes # 0
    /\ \A b \in MpBuiltins : receipt.execution_resources.builtins[b] # 0
    /\ t.kind = "DeployAccount" => t.version = "V1"

\* A stored receipt without its message hash, which into_mp works out from
\* the transaction whatever the receipt served had.
Body(receipt) == [f \in DOMAIN receipt \ {"message_hash"} |-> receipt[f]]

\* mp_convert::test::assert_consistent_conversion: of a value a, its
\* conversion b, the conversion c of b and the conversion d of c.
assert_consistent_conversion(a, b, c, d) == a = c /\ b = d

\* new and into_mp are a consistent conversion of exactly the portable
\* receipts: the node that syncs from the producer holds the producer's
\* receipt, message hash aside, and serves what it was served, when the
\* receipt is portable, and holds another receipt when it is not.  So a fee
\* in Fri (receipt.rs:65), a counter that is zero (178) and the address of a
\* version 3 account deployment (128) are each changed by the first sync,
\* and nothing else of the body is.
ExactlyPortableReceiptsSurvive ==
    (Len(served) >= 2 /\ Len(stored) > Len(served)) =>
        (assert_consistent_conversion(Body(stored[1]), served[1],
                                      Body(stored[2]), served[2])
            <=> Portable(stored[1], tx))
=============================================================================
