------------------------ MODULE MCBuildCollections ------------------------
(***************************************************************************)
(* All the meta files of the shapes below over three collections: up to    *)
(* two dependencies, self dependencies, wants, after with and without a    *)
(* dependency, "*", virtual ones, and a collection that does not exist.    *)
(***************************************************************************)
EXTENDS BuildCollections, TLC

CONSTANTS a, b, c

Meta(depends, wants, after, isLate, isVirtual) ==
    [depends |-> depends, wants |-> wants, after |-> after,
     late |-> isLate, virtual |-> isVirtual, isDir |-> TRUE]

Missing == [Meta(<<>>, <<>>, <<>>, FALSE, FALSE) EXCEPT !.isDir = FALSE]

\* The meta files considered for self, the other two collections being x and y.
MetasOf(self, x, y) ==
    {Meta(d, <<>>, <<>>, FALSE, v) :
        d \in {<<>>, <<x>>, <<y>>, <<x, y>>}, v \in BOOLEAN}
    \cup {Meta(<<self>>, <<>>, <<>>, FALSE, FALSE)}
    \cup {Meta(<<>>, <<w>>, <<>>, FALSE, FALSE) : w \in {x, y}}
    \cup {Meta(<<>>, <<>>, <<k>>, FALSE, v) : k \in {x, y}, v \in BOOLEAN}
    \cup {Meta(<<x>>, <<>>, <<y>>, FALSE, FALSE), Meta(<<y>>, <<>>, <<x>>, FALSE, FALSE)}
    \cup {Meta(d, <<>>, <<>>, TRUE, FALSE) : d \in {<<>>, <<x>>, <<y>>}}
    \cup {Meta(<<>>, <<>>, <<>>, TRUE, TRUE), Missing}

MCMetaSpace == {(a :> ma @@ b :> mb @@ c :> mc) :
                   ma \in MetasOf(a, b, c), mb \in MetasOf(b, a, c), mc \in MetasOf(c, a, b)}

\* The meta files are closed under renaming, so one request of each shape is enough.
MCWantedSpace == {<<a>>, <<a, b, a>>, <<a, b, c>>}
=============================================================================
