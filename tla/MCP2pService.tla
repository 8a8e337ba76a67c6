---------------------------- MODULE MCP2pService ----------------------------
(***************************************************************************)
(* P2pService for TLC: two peers, both configured as bootstrap nodes (each *)
(* can also connect inwards), and two of the five sync domains (the        *)
(* domains differ by name only).  MaxRestarts is set in the cfg: with 2    *)
(* the node runs three times, enough for a run that fails to write its     *)
(* identity, one that writes it and one that loads it.                     *)
(***************************************************************************)
EXTENDS P2pService

CONSTANTS p1, p2

MCPeers == {p1, p2}
MCBootstrapNodes == <<p1, p2>>
MCDomains == {"headers", "transactions"}
=============================================================================
