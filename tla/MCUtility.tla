----------------------------- MODULE MCUtility -----------------------------
(***************************************************************************)
(* Utility for TLC: digit strings of up to ten digits over two digits, so  *)
(* that addresses reach both sides of the length at which they are         *)
(* shortened and hashes both sides of the length trim_hash needs; numbers  *)
(* of a few values on both sides of each width.                            *)
(***************************************************************************)
EXTENDS Utility

CONSTANTS n1, n2

MCDigits == {"0", "1"}
MCMaxDigits == 10
MCU64Max == 3
MCFeltMax == 2
MCU256Max == 3
MCI256Min == -2
MCI256Max == 5
MCNames == {n1, n2}
=============================================================================
