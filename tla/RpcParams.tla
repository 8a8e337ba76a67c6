------------------------------ MODULE RpcParams ------------------------------
(***************************************************************************)
(* The RPC options of the node's command line, crates/node/src/cli/rpc.rs: *)
(* what clap makes of the arguments (defaults, the value parsers of         *)
(* --rpc-methods and --rpc-cors, the conflict of the two batch options) and *)
(* what the RPC service then asks of RpcParams: the origins allowed, the    *)
(* socket address of the user and of the admin listener, the batch policy.  *)
(*                                                                         *)
(* A string is kept as what its parser tells apart: the value of           *)
(* --rpc-cors is the sequence of its comma-separated parts.                *)
(***************************************************************************)
EXTENDS Naturals, Sequences, FiniteSets, SequencesExt

CONSTANTS
    Nil,           \* an option that is not given, and Option::None
    MethodArgs,    \* the values tried for --rpc-methods
    Lower,         \* the lower-case form of each of them
    Ports,         \* the values tried for --rpc-port and --rpc-port-admin
    BatchLens,     \* the values tried for --rpc-max-batch-request-len
    CorsArgs       \* the values tried for --rpc-cors, each split at its commas

VARIABLES
    pc,      \* "args", "parsed", or "usage" when clap refused the arguments
    args,    \* the command line
    params,  \* RpcParams
    out      \* what the service has asked of params so far

vars == <<pc, args, params, out>>

RpcEndpoints == {"auto", "safe", "unsafe"}

RPC_DEFAULT_PORT == 9944
RPC_DEFAULT_PORT_ADMIN == 9943

UNSPECIFIED == "0.0.0.0"
LOCALHOST == "127.0.0.1"

All == [kind |-> "All"]
List(origins) == [kind |-> "List", origins |-> origins]

SocketAddr(ip, port) == [ip |-> ip, port |-> port]

Disabled == [kind |-> "Disabled"]
Unlimited == [kind |-> "Unlimited"]
Limit(l) == [kind |-> "Limit", len |-> l]

LocalOrigins ==
    <<"http://localhost:*", "http://127.0.0.1:*",
      "https://localhost:*", "https://127.0.0.1:*">>

\* `given` when the option is on the command line, else its default.
OrDefault(given, default) == IF given = Nil THEN default ELSE given

-----------------------------------------------------------------------------
(* Cors::from_str *)

\* Faulty variant: the loop is left at `all` with is_all still unset.
RECURSIVE ForEachPartNoFlag(_, _)
ForEachPartNoFlag(parts, origins) ==
    IF parts = <<>> \/ Head(parts) \in {"all", "*"} THEN List(origins)
    ELSE ForEachPartNoFlag(Tail(parts), Append(origins, Head(parts)))

\* The loop over the parts: `all` or `*` leaves it at once.
RECURSIVE ForEachPart(_, _)
ForEachPart(parts, origins) ==
    IF parts = <<>> THEN List(origins)
    ELSE IF Head(parts) \in {"all", "*"} THEN All
    ELSE ForEachPart(Tail(parts), Append(origins, Head(parts)))

from_str(s) == ForEachPart(s, <<>>)

-----------------------------------------------------------------------------
(* clap *)

CommandLines ==
    [rpc_external : BOOLEAN,
     rpc_methods : MethodArgs \cup {Nil},
     rpc_port : Ports \cup {Nil},
     rpc_port_admin : Ports \cup {Nil},
     rpc_disable_batch_requests : BOOLEAN,
     rpc_max_batch_request_len : BatchLens \cup {Nil},
     rpc_cors : CorsArgs \cup {Nil}]

\* Faulty variant: the two batch options are not declared to conflict.
NoConflict(a) == FALSE

\* conflicts_with_all of the two batch options.
Conflict(a) ==
    a.rpc_disable_batch_requests /\ a.rpc_max_batch_request_len # Nil

\* value_enum with ignore_case.
BadValue(a) == a.rpc_methods # Nil /\ Lower[a.rpc_methods] \notin RpcEndpoints

\* Faulty variant: --rpc-port-admin has the default of --rpc-port.
FromArgsOneDefaultPort(a) ==
    [rpc_external |-> a.rpc_external,
     rpc_endpoints |-> IF a.rpc_methods = Nil THEN "auto" ELSE Lower[a.rpc_methods],
     rpc_port |-> OrDefault(a.rpc_port, RPC_DEFAULT_PORT),
     rpc_port_admin |-> OrDefault(a.rpc_port_admin, RPC_DEFAULT_PORT),
     rpc_disable_batch_requests |-> a.rpc_disable_batch_requests,
     rpc_max_batch_request_len |-> a.rpc_max_batch_request_len,
     rpc_cors |-> IF a.rpc_cors = Nil THEN Nil ELSE from_str(a.rpc_cors)]

\* The struct clap fills: defaults for what is not given.
FromArgs(a) ==
    [rpc_external |-> a.rpc_external,
     rpc_endpoints |-> IF a.rpc_methods = Nil THEN "auto" ELSE Lower[a.rpc_methods],
     rpc_port |-> OrDefault(a.rpc_port, RPC_DEFAULT_PORT),
     rpc_port_admin |-> OrDefault(a.rpc_port_admin, RPC_DEFAULT_PORT_ADMIN),
     rpc_disable_batch_requests |-> a.rpc_disable_batch_requests,
     rpc_max_batch_request_len |-> a.rpc_max_batch_request_len,
     rpc_cors |-> IF a.rpc_cors = Nil THEN Nil ELSE from_str(a.rpc_cors)]

Parse ==
    /\ pc = "args"
    /\ IF Conflict(args) \/ BadValue(args)
       THEN pc' = "usage" /\ UNCHANGED params
       ELSE pc' = "parsed" /\ params' = FromArgs(args)
    /\ UNCHANGED <<args, out>>

-----------------------------------------------------------------------------
(* impl RpcParams *)

cors(p) ==
    LET c == IF p.rpc_cors # Nil THEN p.rpc_cors
             ELSE IF p.rpc_external THEN All ELSE List(LocalOrigins)
    IN  IF c = All THEN Nil ELSE c.origins

addr_user(p) ==
    SocketAddr(IF p.rpc_external THEN UNSPECIFIED ELSE LOCALHOST, p.rpc_port)

\* Faulty variant: `||` for `&&`.
addr_admin_either(p) ==
    SocketAddr(IF p.rpc_external \/ p.rpc_endpoints = "unsafe"
               THEN UNSPECIFIED ELSE LOCALHOST,
               p.rpc_port_admin)

addr_admin(p) ==
    SocketAddr(IF p.rpc_external /\ p.rpc_endpoints = "unsafe"
               THEN UNSPECIFIED ELSE LOCALHOST,
               p.rpc_port_admin)

batch_config(p) ==
    IF p.rpc_disable_batch_requests THEN Disabled
    ELSE IF p.rpc_max_batch_request_len # Nil THEN Limit(p.rpc_max_batch_request_len)
    ELSE Unlimited

GetterNames == {"cors", "addr_user", "addr_admin", "batch_config"}

Getters ==
    [cors |-> cors(params), addr_user |-> addr_user(params),
     addr_admin |-> addr_admin(params), batch_config |-> batch_config(params)]

\* The service asks for one more of the four values.
Ask ==
    /\ pc = "parsed"
    /\ \E g \in GetterNames \ DOMAIN out : out' = (g :> Getters[g]) @@ out
    /\ UNCHANGED <<pc, args, params>>

-----------------------------------------------------------------------------
Init ==
    /\ pc = "args"
    /\ args \in CommandLines
    /\ params = Nil
    /\ out = <<>>

Next == Parse \/ Ask

Spec == Init /\ [][Next]_vars

-----------------------------------------------------------------------------
IpAddrs == {UNSPECIFIED, LOCALHOST}

TypeOK ==
    /\ pc \in {"args", "parsed", "usage"}
    /\ args \in CommandLines
    /\ pc = "parsed" =>
          /\ params.rpc_endpoints \in RpcEndpoints
          /\ params.rpc_port \in Ports /\ params.rpc_port_admin \in Ports
          /\ params.rpc_port = RPC_DEFAULT_PORT_ADMIN => args.rpc_port # Nil
          /\ params.rpc_port_admin = RPC_DEFAULT_PORT => args.rpc_port_admin # Nil
    /\ DOMAIN out \subseteq GetterNames
    /\ "addr_user" \in DOMAIN out => out.addr_user \in [ip : IpAddrs, port : Ports]
    /\ "addr_admin" \in DOMAIN out => out.addr_admin \in [ip : IpAddrs, port : Ports]

\* The admin methods are reachable from outside only when the command line
\* asks for it twice, with --rpc-external and with --rpc-methods unsafe in
\* any letter case, and then the user methods are reachable from outside as
\* well (addr_admin and addr_user; the comment on RpcEndpoints).
AdminIsNoWiderThanAsked ==
    ("addr_admin" \in DOMAIN out /\ out.addr_admin.ip = UNSPECIFIED) =>
        /\ args.rpc_external
        /\ args.rpc_methods # Nil /\ Lower[args.rpc_methods] = "unsafe"
        /\ addr_user(params).ip = UNSPECIFIED

\* The origins --rpc-cors allows are all of them exactly when one of its
\* parts is `all` or `*`, wherever it stands, and else the parts in the order
\* given (the loop of Cors::from_str, and RpcParams::cors on top of it).
CorsIsAllOrTheParts ==
    (pc = "parsed" /\ args.rpc_cors # Nil) =>
        IF \E i \in DOMAIN args.rpc_cors : args.rpc_cors[i] \in {"all", "*"}
        THEN cors(params) = Nil
        ELSE cors(params) = args.rpc_cors

\* A limit given for the length of a batch is the policy of the server: no
\* accepted command line has its --rpc-max-batch-request-len overruled by
\* --rpc-disable-batch-requests (batch_config, and the conflict clap checks).
BatchLimitIsThePolicy ==
    ("batch_config" \in DOMAIN out /\ args.rpc_max_batch_request_len # Nil) =>
        out.batch_config = Limit(args.rpc_max_batch_request_len)
=============================================================================
