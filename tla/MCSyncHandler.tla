--------------------------- MODULE MCSyncHandler ---------------------------
(***************************************************************************)
(* SyncHandler for TLC: two requests side by side on a chain of at most    *)
(* three blocks, with an output channel of one part.                       *)
(***************************************************************************)
EXTENDS SyncHandler

CONSTANTS r1, r2

MCRequests == {r1, r2}
MCMaxHeight == 2
MCInitialHeights == {0, 1}
MCChannelCapacity == 1
=============================================================================
