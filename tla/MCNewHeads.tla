----------------------------- MODULE MCNewHeads -----------------------------
(***************************************************************************)
(* NewHeads instantiated for TLC.  The chain grows to four blocks with     *)
(* BLOCK_PAST_LIMIT = 1, so that a subscription can be too far back, in    *)
(* range, at the head, and ahead of the chain; the sink holds two messages *)
(* and the broadcast channel two blocks, so that both fill up.             *)
(***************************************************************************)
EXTENDS NewHeads

\* Every kind of block id: in range, too far back once the chain has grown,
\* ahead of the chain, and the largest block number there is.
AllBlockIds ==
    {Latest, Pending, Number(0), Number(1), Number(3), Number(U64_MAX),
     Hash(0), Hash(2)}

\* The default subscription: from the latest block on.
LatestOnly == {Latest}

\* A subscription to a block that is two ahead of a chain of one block.
FutureOnly == {Number(2)}
=============================================================================
