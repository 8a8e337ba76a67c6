---------------------------- MODULE MCRpcParams ----------------------------
(***************************************************************************)
(* RpcParams for TLC: every command line over a few values of each option, *)
(* the defaults of the two ports among them.                               *)
(***************************************************************************)
EXTENDS RpcParams

MCLower ==
    [s \in {"auto", "safe", "unsafe"} |-> s]
        @@ ("UNSAFE" :> "unsafe") @@ ("admin" :> "admin")
MCMethodArgs == DOMAIN MCLower
MCPorts == {RPC_DEFAULT_PORT_ADMIN, RPC_DEFAULT_PORT, 8545}
MCBatchLens == {0, 5}
MCCorsArgs ==
    {<<"all">>, <<"*">>, <<"a">>, <<"a", "b">>, <<"a", "all">>,
     <<"*", "a">>, <<"a", "all", "b">>, <<"">>, <<"ALL">>}
=============================================================================
