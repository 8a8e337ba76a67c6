----------------------------- MODULE RangeStream -----------------------------
(***************************************************************************)
(* What the sync protocol promises to a peer that asks for the blocks      *)
(* [a, b) of one domain, with tasks, channels and storage left out: the    *)
(* peer receives block a, then a + 1, and so on, never one at or past b,   *)
(* until the stream ends; a stream that has ended stays ended and yields   *)
(* nothing more.  Where it ends is not promised here.                      *)
(*                                                                         *)
(* SyncHandler.tla is the handler framework; it states that it implements  *)
(* Spec below.                                                             *)
(***************************************************************************)
EXTENDS Naturals, Sequences

CONSTANTS
    Requests,  \* the requests of the peers
    Starts,    \* the blocks a range may start at
    Ends       \* the blocks a range may end before

VARIABLES
    asked,     \* per request: the range <<a, b>>, or NotAsked
    got,       \* per request: the blocks the peer has received, in order
    over       \* per request: the stream has ended

vars == <<asked, got, over>>

NotAsked == <<>>

Init ==
    /\ asked = [r \in Requests |-> NotAsked]
    /\ got = [r \in Requests |-> <<>>]
    /\ over = [r \in Requests |-> FALSE]

Ask(r) ==
    /\ asked[r] = NotAsked
    /\ \E a \in Starts, b \in Ends : asked' = [asked EXCEPT ![r] = <<a, b>>]
    /\ UNCHANGED <<got, over>>

\* The block due next: the one after the last block received.
NextDue(r) == asked[r][1] + Len(got[r])

\* The peer receives the next block of its range; it may be the last thing
\* the stream yields.
Receive(r) ==
    /\ asked[r] # NotAsked
    /\ ~over[r]
    /\ NextDue(r) < asked[r][2]
    /\ got' = [got EXCEPT ![r] = Append(@, NextDue(r))]
    /\ \E last \in BOOLEAN : over' = [over EXCEPT ![r] = last]
    /\ UNCHANGED asked

End(r) ==
    /\ asked[r] # NotAsked
    /\ ~over[r]
    /\ over' = [over EXCEPT ![r] = TRUE]
    /\ UNCHANGED <<asked, got>>

Next == \E r \in Requests : Ask(r) \/ Receive(r) \/ End(r)

Spec == Init /\ [][Next]_vars
=============================================================================
