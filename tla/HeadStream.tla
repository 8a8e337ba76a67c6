----------------------------- MODULE HeadStream -----------------------------
(***************************************************************************)
(* What a starknet_subscribeNewHeads subscription promises to its client,  *)
(* with everything about how the server does it left out: the client names *)
(* a block, and from then on receives the headers of that block and of     *)
(* every later block, each once, in block order, and never a header of a   *)
(* block the chain does not hold.                                          *)
(*                                                                         *)
(* NewHeads.tla is the server's handler; MCNewHeads.tla states that it     *)
(* implements Spec below.  LiveSpec adds that headers keep coming.         *)
(***************************************************************************)
EXTENDS Naturals, Sequences

CONSTANTS
    MaxBlocks,  \* bound on the number of blocks the chain grows to
    BlockIds,   \* the block ids a client may subscribe with
    NoBlockId,  \* the value of "no subscription requested yet"
    Undecided   \* the value of "the stream has no first block yet"

VARIABLES
    chain,      \* number of blocks stored: blocks 0 .. chain-1 exist
    want,       \* the block id the client subscribed with, or NoBlockId
    first,      \* the block the stream starts at, or Undecided
    out         \* the headers sent so far, as block numbers, in order

vars == <<chain, want, first, out>>

\* The blocks a subscription with block id `id` may start at.
StartsOf(id) ==
    CASE id.tag \in {"Number", "Hash"} -> {id.n}
      [] id.tag = "Latest"             -> {n \in 0..MaxBlocks : n + 1 = chain}
      [] OTHER                         -> {}

Init ==
    /\ chain = 0
    /\ want = NoBlockId
    /\ first = Undecided
    /\ out = <<>>

Grow ==
    /\ chain < MaxBlocks
    /\ chain' = chain + 1
    /\ UNCHANGED <<want, first, out>>

Request(id) ==
    /\ want = NoBlockId
    /\ want' = id
    /\ UNCHANGED <<chain, first, out>>

Begin ==
    /\ want # NoBlockId
    /\ first = Undecided
    /\ first' \in StartsOf(want)
    /\ UNCHANGED <<chain, want, out>>

\* The next header due: the one right after the last one sent.
NextDue == first + Len(out)

Emit ==
    /\ first # Undecided
    /\ NextDue < chain
    /\ out' = Append(out, NextDue)
    /\ UNCHANGED <<chain, want, first>>

Next ==
    \/ Grow
    \/ \E id \in BlockIds : Request(id)
    \/ Begin
    \/ Emit

Spec == Init /\ [][Next]_vars

\* The stream does not fall silent: a header that is due is sent.
LiveSpec == Spec /\ WF_vars(Emit)
=============================================================================
