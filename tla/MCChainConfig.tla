---------------------------- MODULE MCChainConfig ----------------------------
(***************************************************************************)
(* ChainConfig for TLC.  The yaml may use four keys: two spellings of      *)
(* version 0.13.1, version 0.13.2 and a key that is no version; they are   *)
(* listed in the order of String.  Two paths, each of which may hold either *)
(* of two constants files or one of the three kinds of bad file.  The      *)
(* durations include zero, half a millisecond, one and two milliseconds    *)
(* and six milliseconds; USIZE_MAX stands for 2^64 - 1.                    *)
(***************************************************************************)
EXTENDS ChainConfig

CONSTANTS f1, f2

MCVersionStrings == <<"0.13.1", "0.13.1.0", "0.13.2", "latest">>

MCParse ==
    ("0.13.1" :> <<0, 13, 1, 0>>) @@ ("0.13.1.0" :> <<0, 13, 1, 0>>)
        @@ ("0.13.2" :> <<0, 13, 2, 0>>)

MCPaths == {f1, f2}
MCConstants == {"c1", "c2"}
MCDurations == {0, 500, 1000, 2000, 6000}

MCQueryVersions ==
    {<<0, 0, 0, 0>>, <<0, 13, 0, 0>>, <<0, 13, 1, 0>>, <<0, 13, 1, 1>>,
     <<0, 13, 2, 0>>, <<1, 0, 0, 0>>}

MCUsizeMax == 1048575
=============================================================================
