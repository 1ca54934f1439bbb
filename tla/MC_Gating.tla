-------------------------------- MODULE MC_Gating --------------------------------
(***************************************************************************)
(* A TLC instance of Gating: every requirement set with up to one entry    *)
(* per list (two failing binaries for the order), on one host.             *)
(***************************************************************************)
EXTENDS GatingProofs

(* pip prints "a-b==1"; requirements name it "a-b" or "A-b", or "a_b".    *)
PkgDash == <<"a", "-", "b">>
PkgUpper == <<"A", "-", "b">>
PkgUnderscore == <<"a", "_", "b">>

MCUpper == [c \in {"A"} |-> "a"]
MCPipLines == {PkgDash \o <<"=", "=", "1">>}
MCOnPath == {"git", "python3"}
MCPipWorks == {"python3"}
MCExistingConfigs == {"/etc/app.toml"}
(* HOME is set, UNSET is not, RAW holds bytes that are not UTF-8.          *)
MCEnvValue == [v \in {"HOME", "UNSET", "RAW"} |->
                 CASE v = "HOME" -> "utf8" [] v = "UNSET" -> "unset" [] v = "RAW" -> "nonutf8"]

MCRequirements ==
  [bins : {<<>>, <<"git">>, <<"nosuch">>, <<"nosuch", "gone">>},
   env : {<<>>, <<"HOME">>, <<"UNSET">>, <<"RAW">>},
   config : {<<>>, <<"/etc/app.toml">>, <<"/missing">>},
   python_packages : {<<>>, <<PkgUpper>>, <<PkgUnderscore>>},
   optional_bins : {<<>>, <<"nosuch">>},
   optional_env : {<<>>, <<"UNSET">>},
   optional_config : {<<>>, <<"/missing">>}]
=============================================================================
