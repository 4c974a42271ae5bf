---------------------------- MODULE MergeConfig ----------------------------
(***************************************************************************)
(* merge-config.py: the configuration of an image is merged from the       *)
(* config files of its collections, the defaults of the project, the       *)
(* profile and what mkimage.py adds on the command line.                   *)
(*                                                                         *)
(* "name*=value" declares a variable, "name=value" sets one that has been  *)
(* declared, "name?=value" sets one in any case.  Old names are mapped to  *)
(* new ones.  Some variables collect their values.                         *)
(***************************************************************************)
EXTENDS Naturals, FiniteSets, SequencesExt

CONSTANTS Name,         \* names of variables
          Word,         \* what values are made of
          Alias,        \* the alias map: a function from old names to new ones
          MergeVars,    \* the names listed as variables that collect their values
          Password,     \* names that end with _PASSWORD
          Hashed,       \* words that begin with a dollar sign
          Sinkhole,     \* the switch for the routes to drop, and where their list goes
          RouteList,
          RouteCustom,  \* the list of additional routes
          RouteSwitch,  \* a function from the names of other switches to routes
          Network,      \* words that ipaddress takes for a network
          Inputs        \* the sequences of definitions considered

\* A value is a sequence of words; the empty string is the empty sequence.
Value == Seq(Word)
Definition == [mode : {"declare", "set", "optional"}, name : Name, value : Value]

On == <<"1">>          \* the value of a switch that is on
NoPassword == <<"*">>

ASSUME NameAssumption ==
    /\ Alias \in [DOMAIN Alias -> Name] /\ DOMAIN Alias \subseteq Name /\ IsFiniteSet(DOMAIN Alias)
    /\ MergeVars \subseteq Name /\ Password \subseteq Name
    /\ {Sinkhole, RouteList, RouteCustom} \cup DOMAIN RouteSwitch \subseteq Name
ASSUME WordAssumption == /\ {"1", "*"} \cup Range(RouteSwitch) \cup Hashed \subseteq Word
                         /\ Hashed # {}
ASSUME InputsAssumption == Inputs \subseteq Seq(Definition)

VARIABLES
    defs,    \* all definitions, in the order of the files and the command line
    pos,     \* how many of them have been merged
    vmap,    \* the variables: a function from names to values
    merge    \* "merge", "expand", "done", or the error that ended it

vars == <<defs, pos, vmap, merge>>

-----------------------------------------------------------------------------
(* unalias_varname()                                                       *)

\* The name after as many replacements as there are old names.
Unaliased(name) ==
    LET after[k \in 0..Cardinality(DOMAIN Alias)] ==
            IF k = 0 THEN name
            ELSE IF after[k - 1] \in DOMAIN Alias THEN Alias[after[k - 1]] ELSE after[k - 1]
    IN  after[Cardinality(DOMAIN Alias)]

\* If it is an old name itself, then replacing came back to where it was before.
Circular(name) == Unaliased(name) \in DOMAIN Alias

\* A fault that the checks detect: a list of names to collect in is not unaliased.
CollectsListed(name) == name \in MergeVars

Collects(name) == \E listed \in MergeVars : Unaliased(listed) = name

-----------------------------------------------------------------------------
Start(input) ==
    [defs |-> input, pos |-> 0, vmap |-> <<>>,
     merge |-> IF \E name \in MergeVars : Circular(name) THEN "circular" ELSE "merge"]

Init == \E input \in Inputs :
            /\ defs = Start(input).defs
            /\ pos = Start(input).pos
            /\ vmap = Start(input).vmap
            /\ merge = Start(input).merge

Known(name) == name \in DOMAIN vmap
Get(name) == IF Known(name) THEN vmap[name] ELSE <<>>
With(map, name, value) ==
    [n \in DOMAIN map \cup {name} |-> IF n = name THEN value ELSE map[n]]

\* A fault that the checks detect: what is known is looked up by the old name.
RefusalByOldName(d) ==
    IF Circular(d.name) THEN "circular"
    ELSE CASE d.mode = "set" /\ ~ Known(d.name) -> "undeclared"
           [] d.mode = "declare" /\ Known(d.name) -> "redeclared"
           [] OTHER -> "none"

Refusal(d) ==
    IF Circular(d.name) THEN "circular"
    ELSE CASE d.mode = "set" /\ ~ Known(Unaliased(d.name)) -> "undeclared"
           [] d.mode = "declare" /\ Known(Unaliased(d.name)) -> "redeclared"
           [] OTHER -> "none"

\* One turn of the loop of merge_config_vars().
MergeOne ==
    /\ merge = "merge" /\ pos < Len(defs)
    /\ LET d == defs[pos + 1]
           name == Unaliased(d.name)
       IN  /\ Refusal(d) = "none"
           /\ vmap' = With(vmap, name, IF Collects(name) THEN Get(name) \o d.value ELSE d.value)
    /\ pos' = pos + 1
    /\ UNCHANGED <<defs, merge>>

Refuse ==
    /\ merge = "merge" /\ pos < Len(defs)
    /\ Refusal(defs[pos + 1]) # "none"
    /\ merge' = Refusal(defs[pos + 1])
    /\ UNCHANGED <<defs, pos, vmap>>

\* expand_config_pwvars(), or mkpasswd fails.
ExpandPasswords ==
    /\ merge = "merge" /\ pos = Len(defs)
    /\ \E hash \in Hashed :
          vmap' = [n \in DOMAIN vmap |->
                      IF n \notin Password THEN vmap[n]
                      ELSE IF vmap[n] = <<>> THEN NoPassword
                      ELSE IF vmap[n][1] \in Hashed THEN vmap[n] ELSE <<hash>>]
    /\ merge' = "expand"
    /\ UNCHANGED <<defs, pos>>

HashFails ==
    /\ merge = "merge" /\ pos = Len(defs)
    /\ \E n \in Password \cap DOMAIN vmap : vmap[n] # <<>> /\ vmap[n][1] \notin Hashed
    /\ merge' = "failed"
    /\ UNCHANGED <<defs, pos, vmap>>

ValidRoutes == Get(Sinkhole) = On => Range(Get(RouteCustom)) \subseteq Network

\* expand_config_net_sinkhole(): the list is made anew, and kept if the switch
\* is off (two names that do not exist are removed then).
ExpandRoutes ==
    /\ merge = "expand" /\ ValidRoutes
    /\ LET routes == {RouteSwitch[n] : n \in {s \in DOMAIN RouteSwitch : Get(s) = On}}
                       \cup Range(Get(RouteCustom))
       IN  vmap' = IF Get(Sinkhole) = On THEN With(vmap, RouteList, SetToSeq(routes)) ELSE vmap
    /\ merge' = "done"
    /\ UNCHANGED <<defs, pos>>

\* An additional route that is no network is a ValueError.
InvalidRoute ==
    /\ merge = "expand" /\ ~ ValidRoutes
    /\ merge' = "failed"
    /\ UNCHANGED <<defs, pos, vmap>>

Next == MergeOne \/ Refuse \/ ExpandPasswords \/ HashFails \/ ExpandRoutes \/ InvalidRoute

Spec == Init /\ [][Next]_vars

-----------------------------------------------------------------------------
(* Properties                                                              *)

\* The definitions of a variable, by whatever name, among the first k.
DefinitionsOf(name, k) == {i \in 1..k : Unaliased(defs[i].name) = name}

\* A variable has the value that its last definition gives it, or all values
\* that its definitions give it in their order, under whichever of its names.
ValuesAsDefined ==
    merge = "merge" =>
        /\ DOMAIN vmap = {Unaliased(defs[i].name) : i \in 1..pos}
        /\ \A name \in DOMAIN vmap :
              LET places == DefinitionsOf(name, pos)
                  given == [i \in 1..pos |-> IF i \in places THEN defs[i].value ELSE <<>>]
              IN  vmap[name] = IF name \in {Unaliased(listed) : listed \in MergeVars}
                               THEN FlattenSeq(given)
                               ELSE defs[Max(places)].value

\* A chain of aliases has no end if it stays within a set of old names.
Endless(name) == \E old \in SUBSET DOMAIN Alias : name \in old /\ \A n \in old : Alias[n] \in old

\* The files are accepted exactly if every variable is declared before it is
\* set, and at most once, as its first definition, under all names that it has;
\* names without end are refused, and nothing else is.
AcceptedIffDeclared ==
    LET declaredFirst ==
            \A i \in DOMAIN defs :
                LET earlier == DefinitionsOf(Unaliased(defs[i].name), i - 1) IN
                CASE defs[i].mode = "set" -> earlier # {}
                  [] defs[i].mode = "declare" -> earlier = {}
                  [] OTHER -> TRUE
        named == {defs[i].name : i \in DOMAIN defs}
    IN  /\ merge \in {"expand", "done", "failed"} => declaredFirst /\ \A n \in named : ~ Endless(n)
        /\ merge \in {"undeclared", "redeclared"} => ~ declaredFirst
        /\ merge = "circular" => \E n \in named \cup MergeVars : Endless(n)
=============================================================================
