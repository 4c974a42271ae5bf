-------------------------- MODULE CollectionGraph --------------------------
(***************************************************************************)
(* The dependency graph that the [collection] meta files of dbuild span,   *)
(* as definitions that are independent of the algorithm in mkimage.py:     *)
(* which collections a request pulls in, and which ones must be handled    *)
(* before a given one.  "meta" maps a collection name to its meta record,  *)
(* "wanted" is the sequence given by DBUILD_TARGET_COLLECTIONS.            *)
(***************************************************************************)
EXTENDS Sequences, Functions

CONSTANTS Name      \* the names of build collections

\* What a meta file says: depends / wants / after as lists of names; late
\* stands for a "*" item in depends or after; a collection without a meta
\* file has empty lists.  isDir: the collection's directory exists.
MetaRecord == [depends : Seq(Name), wants : Seq(Name), after : Seq(Name),
               late : BOOLEAN, virtual : BOOLEAN, isDir : BOOLEAN]

\* The collections that n makes part of the build.
Pulls(meta, n) == Range(meta[n].depends) \cup Range(meta[n].wants)

PullClosed(meta, S) == \A n \in S : Pulls(meta, n) \subseteq S

\* The least set of collections that contains the request and what it pulls in.
Selected(meta, wanted) ==
    {n \in Name : \A S \in SUBSET Name :
        Range(wanted) \subseteq S /\ PullClosed(meta, S) => n \in S}

\* The selected collections that must be handled before n.
Requires(meta, wanted, n) ==
    LET sel == Selected(meta, wanted)
    IN  Range(meta[n].depends) \cup (Range(meta[n].after) \cap sel)
          \cup (IF meta[n].late THEN {k \in sel : ~meta[k].late} ELSE {})

RequireClosed(meta, wanted, S) ==
    \A n \in S : Requires(meta, wanted, n) \subseteq S

\* The selected collections that n needs, directly or through others (n included).
Needs(meta, wanted, n) ==
    {k \in Name : \A S \in SUBSET Name :
        n \in S /\ RequireClosed(meta, wanted, S) => k \in S}

\* Some selected collections wait for each other in a circle.
HasCycle(meta, wanted) ==
    \E S \in SUBSET Selected(meta, wanted) :
        /\ S # {}
        /\ \A n \in S : Requires(meta, wanted, n) \cap S # {}

\* A virtual collection that asks to come last, which is not supported.
HasLateVirtual(meta, wanted) ==
    \E n \in Selected(meta, wanted) : meta[n].virtual /\ meta[n].late
=============================================================================
