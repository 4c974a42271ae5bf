--------------------------- MODULE MCMergeConfig ---------------------------
(***************************************************************************)
(* Every sequence of up to three definitions of a variable that collects   *)
(* its values (under its name and an older one) and one that does not;     *)
(* what a cycle of aliases does, and variables that are expanded.          *)
(***************************************************************************)
EXTENDS MergeConfig, TLC

MCName == {"old", "older", "new", "plain", "chicken", "egg",
           "ROOT_PASSWORD", "sink", "ula", "doc", "custom", "routes"}
MCWord == {"1", "*", "a", "b", "$y", "fc00::", "192.0.2.0", "c"}
MCAlias == "older" :> "old" @@ "old" :> "new" @@ "chicken" :> "egg" @@ "egg" :> "chicken"
MCNetwork == {"fc00::", "192.0.2.0", "c"}
MCRouteSwitch == "ula" :> "fc00::" @@ "doc" :> "192.0.2.0"

Define(mode, name, value) == [mode |-> mode, name |-> name, value |-> value]
Mode == {"declare", "set", "optional"}

Small == [mode : Mode, name : {"older", "new", "plain"}, value : {<<"a">>, <<"b">>}]

Cycles == {<<Define("declare", "plain", <<"a">>), Define(m, n, <<"a">>)>> :
              m \in Mode, n \in {"chicken", "egg"}}

Passwords == {<<Define("declare", "ROOT_PASSWORD", v), Define("set", "ROOT_PASSWORD", w)>> :
                 v, w \in {<<>>, <<"a">>, <<"$y">>, <<"*">>}}

Sinkholes == {<<Define("declare", "sink", s), Define("declare", "ula", u),
                Define("declare", "doc", d), Define("declare", "custom", c),
                Define("optional", "routes", <<"a">>)>> :
                 s, u, d \in {<<"1">>, <<>>}, c \in {<<>>, <<"c">>, <<"c", "a">>}}

MCInputs == UNION {[1..n -> Small] : n \in 0..3} \cup Cycles \cup Passwords \cup Sinkholes
=============================================================================
