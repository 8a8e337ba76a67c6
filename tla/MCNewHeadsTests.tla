-------------------------- MODULE MCNewHeadsTests --------------------------
(***************************************************************************)
(* NewHeadsTests for TLC.  BLOCK_PAST_LIMIT is 2 (1024 in the code), so    *)
(* that the test of many blocks awaits more than one header and the tests  *)
(* of a start too far back store four blocks.                              *)
(***************************************************************************)
EXTENDS NewHeadsTests

AllTests == DOMAIN Script

\* The block ids the tests subscribe with.
TestBlockIds == {Latest, Pending, Number(0), Number(1), Hash(0)}
=============================================================================
