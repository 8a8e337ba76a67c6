------------------------------ MODULE MCReceipt ------------------------------
(***************************************************************************)
(* Receipt for TLC.  Felts 0..3, of which 0..2 are Ethereum addresses and  *)
(* 0..1 are u64, so that a sender and a nonce can be too wide, each alone. *)
(* The hashes of the six messages are 1..6 and the felts end at 3, so that *)
(* for a sender and for a nonce some hashes are felts and some are not.    *)
(* Counters are 0 or 1, and those of pedersen and range_check vary.  Three *)
(* nodes:                                                                  *)
(* a producer or foreign gateway, and two that sync one after the other.   *)
(***************************************************************************)
EXTENDS Receipt

MCFelts == 0..3
MCEthAddressMax == 2
MCU64Max == 1
MCFeltMax == 3
MCKeccak == [m \in MsgToL2 |-> 1 + 2 * m.from_address + m.nonce]
MCCounts == {0, 1}
MCBuiltins == {"pedersen", "range_check"}
MCMaxNodes == 3
=============================================================================
