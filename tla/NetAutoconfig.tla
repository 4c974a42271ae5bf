--------------------------- MODULE NetAutoconfig ---------------------------
(***************************************************************************)
(* autoconfig-networkd-interfaces.py: a container derives the files of     *)
(* systemd-networkd from /etc/network/interfaces, which its host writes,   *)
(* whenever it boots.  A checksum of the input, written last, lets a boot  *)
(* skip what an earlier one did.                                           *)
(*                                                                         *)
(* A boot may be cut off at any point: the container is killed or loses    *)
(* power.  open(..., "wt") leaves an empty file until the text is written. *)
(***************************************************************************)
EXTENDS Naturals, FiniteSets, SequencesExt

CONSTANTS Iface,      \* names of interfaces
          Before,     \* their order: a set of pairs
          Address,    \* what the values of options are
          NoValue,
          Missing,    \* no /etc/network/interfaces
          Inputs,     \* texts of /etc/network/interfaces: sequences of lines
          Edits,      \* those that the host may change it to
          Taken,      \* names that files of others may have
          MaxCrashes, \* bound on the number of boots cut off
          MaxEdits    \* bound on the number of changes to the input

Family == {4, 6}
Key == {"address", "gateway"}

\* Comments and empty lines are gone.  "iface <name> inet[6] static" begins a
\* static stanza, other unindented lines begin another or stand for themselves.
Static == [kind : {"static"}, name : Iface, fam : Family]
Option == [kind : {"option"}, key : Key \cup {"other"}, val : Address]
Other == [kind : {"other"}]
Line == Static \cup Option \cup Other

ASSUME OrderAssumption ==
    /\ IsFiniteSet(Iface) /\ Before \subseteq Iface \X Iface
    /\ \A a, b \in Iface : <<a, b>> \in Before <=> a # b /\ <<b, a>> \notin Before
    /\ \A a, b, c \in Iface : <<a, b>> \in Before /\ <<b, c>> \in Before => <<a, c>> \in Before
ASSUME InputAssumption == Inputs \subseteq Seq(Line) /\ Edits \subseteq Inputs /\ Missing \notin Inputs
ASSUME ValueAssumption == NoValue \notin Address
ASSUME BoundAssumption == MaxCrashes \in Nat /\ MaxEdits \in Nat

-----------------------------------------------------------------------------
(* read_network_interfaces_config() and gen_networkd_config()              *)

NoContext == [name |-> NoValue, fam |-> 0]
Nothing == [context |-> NoContext, options |-> [o \in Iface \X Key \X Family |-> NoValue]]

\* The keys of ifcfg_map: an entry is made for every static stanza.
Found(text) == {text[p].name : p \in {q \in DOMAIN text : text[q].kind = "static"}}

\* A fault that the checks detect: the family of the context is not updated.
ReadLineOfFirst(map, line) ==
    CASE line.kind = "static" ->
            [map EXCEPT !.context = [name |-> line.name,
                                     fam |-> IF @ = NoContext THEN line.fam ELSE @.fam]]
      [] line.kind = "option" /\ line.key \in Key /\ map.context # NoContext ->
            [map EXCEPT !.options[<<map.context.name, line.key, map.context.fam>>] = line.val]
      [] OTHER -> map

\* The branch that resets the context is reached only while there is none.
ReadLine(map, line) ==
    CASE line.kind = "static" ->
            [map EXCEPT !.context = [name |-> line.name, fam |-> line.fam]]
      [] line.kind = "option" /\ line.key \in Key /\ map.context # NoContext ->
            [map EXCEPT !.options[<<map.context.name, line.key, map.context.fam>>] = line.val]
      [] OTHER -> map

Parse == [text \in Inputs |-> FoldLeft(ReadLine, Nothing, text)]

\* "10-eth0.network": the number is the position of the interface.
FileName == (1..Cardinality(Iface)) \X Iface
NameOf(found, i) == <<Cardinality({j \in found : <<j, i>> \in Before}) + 1, i>>

\* A file: whose it is, and the options in it, with family and value.
NoFile == [mark |-> "none", settings |-> {}]
EmptyFile == [mark |-> "empty", settings |-> {}]
ForeignFile == [mark |-> "foreign", settings |-> {}]

\* What is written: a gateway only together with an address.
Settings(map, i) ==
    LET value(k, f) == map.options[<<i, k, f>>]
    IN  {<<kf, value(kf[1], kf[2])>> :
            kf \in {x \in Key \X Family : /\ value(x[1], x[2]) # NoValue
                                         /\ value("address", x[2]) # NoValue}}

Written(map, i) == [mark |-> "own", settings |-> Settings(map, i)]

-----------------------------------------------------------------------------
VARIABLES
    input,     \* /etc/network/interfaces, or Missing
    dir,       \* whether the directory of the files exists
    files,     \* files[n]: the file of that name
    checksum,  \* the set of the input that the checksum is of, or {} if missing or empty
    at,        \* where the boot's run of the program is
    toDelete,  \* names in files_to_del
    toWrite,   \* interfaces whose file has not been written
    ended,     \* how the last run ended
    crashes, edits,
    cut        \* history: a run was cut off while it changed files, and none completed since

vars == <<input, dir, files, checksum, at, toDelete, toWrite, ended, crashes, edits, cut>>
boot == <<input, crashes, edits>>

Init ==
    /\ input \in Inputs \cup {Missing}
    /\ dir \in BOOLEAN
    /\ \E foreign \in SUBSET (Taken \cap FileName) :
          /\ ~ dir => foreign = {}
          /\ files = [n \in FileName |-> IF n \in foreign THEN ForeignFile ELSE NoFile]
    /\ checksum = {}
    /\ at = "idle" /\ toDelete = {} /\ toWrite = {} /\ ended = "none"
    /\ crashes = 0 /\ edits = 0 /\ cut = FALSE

Start ==
    /\ at = "idle"
    /\ at' = "read" /\ ended' = "none"
    /\ UNCHANGED <<boot, dir, files, checksum, toDelete, toWrite, cut>>

End(how) ==
    /\ at' = "idle" /\ ended' = how /\ toDelete' = {} /\ toWrite' = {}

NoInput ==
    /\ at = "read" /\ input = Missing
    /\ End("missing")
    /\ UNCHANGED <<boot, dir, files, checksum, cut>>

UpToDate ==
    /\ at = "read" /\ input # Missing /\ input \in checksum
    /\ End("current")
    /\ UNCHANGED <<boot, dir, files, checksum, cut>>

\* A fault that the checks detect: the first line of an empty file is an error.
NoFirstLine ==
    /\ at = "read" /\ input # Missing /\ input \notin checksum
    /\ dir => \E n \in FileName : files[n].mark = "empty"
    /\ End("failed")
    /\ UNCHANGED <<boot, dir, files, checksum, cut>>

\* os.scandir() of a directory that does not exist raises an error.
NoDirectory ==
    /\ at = "read" /\ input # Missing /\ input \notin checksum /\ ~ dir
    /\ End("failed")
    /\ UNCHANGED <<boot, dir, files, checksum, cut>>

\* A fault that the checks detect: only files of interfaces still there are deleted.
ScanKnown ==
    /\ at = "read" /\ input # Missing /\ input \notin checksum /\ dir
    /\ toDelete' = {n \in FileName : files[n].mark = "own" /\ n[2] \in Found(input)}
    /\ toWrite' = Found(input)
    /\ at' = "change"
    /\ UNCHANGED <<boot, dir, files, checksum, ended, cut>>

\* Parse the input, and find the files that begin with the comment.
Scan ==
    /\ at = "read" /\ input # Missing /\ input \notin checksum /\ dir
    /\ toDelete' = {n \in FileName : files[n].mark = "own"}
    /\ toWrite' = Found(input)
    /\ at' = "change"
    /\ UNCHANGED <<boot, dir, files, checksum, ended, cut>>

Delete ==
    /\ at = "change"
    /\ \E n \in toDelete : /\ files' = [files EXCEPT ![n] = NoFile]
                           /\ toDelete' = toDelete \ {n}
    /\ UNCHANGED <<boot, dir, checksum, at, toWrite, ended, cut>>

IsNext(i) == i \in toWrite /\ \A j \in toWrite \ {i} : <<i, j>> \in Before

\* A fault that the checks detect: all files are opened, then all are written.
OpenAll ==
    /\ at = "change" /\ toDelete = {} /\ toWrite # {}
    /\ files' = [n \in FileName |->
                    IF \E i \in toWrite : n = NameOf(Found(input), i) THEN EmptyFile ELSE files[n]]
    /\ at' = "fill"
    /\ UNCHANGED <<boot, dir, checksum, toDelete, toWrite, ended, cut>>

Open ==
    /\ at = "change" /\ toDelete = {}
    /\ \E i \in toWrite : /\ IsNext(i)
                          /\ files' = [files EXCEPT ![NameOf(Found(input), i)] = EmptyFile]
    /\ at' = "fill"
    /\ UNCHANGED <<boot, dir, checksum, toDelete, toWrite, ended, cut>>

Fill ==
    /\ at = "fill"
    /\ \E i \in toWrite :
          /\ IsNext(i)
          /\ files' = [files EXCEPT ![NameOf(Found(input), i)] = Written(Parse[input], i)]
          /\ toWrite' = toWrite \ {i}
    /\ at' = "change"
    /\ UNCHANGED <<boot, dir, checksum, toDelete, ended, cut>>

OpenChecksum ==
    /\ at = "change" /\ toDelete = {} /\ toWrite = {}
    /\ checksum' = {}
    /\ at' = "sum"
    /\ UNCHANGED <<boot, dir, files, toDelete, toWrite, ended, cut>>

WriteChecksum ==
    /\ at = "sum"
    /\ checksum' = {input} /\ cut' = FALSE
    /\ End("applied")
    /\ UNCHANGED <<boot, dir, files>>

Crash ==
    /\ at # "idle" /\ crashes < MaxCrashes
    /\ crashes' = crashes + 1
    /\ cut' = (cut \/ at # "read")
    /\ End("cut")
    /\ UNCHANGED <<input, dir, files, checksum, edits>>

\* The host writes another configuration while the container does not run.
Edit ==
    /\ at = "idle" /\ edits < MaxEdits
    /\ input' \in Edits \cup {Missing}
    /\ edits' = edits + 1 /\ ended' = "none"
    /\ UNCHANGED <<dir, files, checksum, at, toDelete, toWrite, crashes, cut>>

Run == \/ NoInput \/ UpToDate \/ NoDirectory \/ Scan \/ Delete
       \/ Open \/ Fill \/ OpenChecksum \/ WriteChecksum

Next == Start \/ Run \/ Crash \/ Edit

Spec == Init /\ [][Next]_vars

\* The program goes on once started, and a container that was stopped is
\* started again: the unit belongs to multi-user.target.
FairSpec == Spec /\ WF_vars(Run) /\ WF_vars(Start)

-----------------------------------------------------------------------------
(* Properties                                                              *)

\* The files that the program made, and those that the input asks for.
Own == {<<n, files[n].settings>> : n \in {m \in FileName : files[m].mark = "own"}}
Wanted(text) ==
    {<<NameOf(Found(text), i), Written(Parse[text], i).settings>> : i \in Found(text)}

\* When a run says that the configuration is in place, each file that it asks
\* for is there, and no other one of an earlier configuration.  One exception:
\* an earlier run was cut off, and the input is again what it was before.
AppliedWhenDone ==
    ended \in {"applied", "current"} =>
        \/ Own = Wanted(input)
        \/ ended = "current" /\ cut

\* "Config is up-to-date according to checksum check" (line 59): a run that
\* says so leaves the files that the input asks for.
CurrentMeansApplied == ended = "current" => Own = Wanted(input)

\* An empty file, which no later run recognises as its own, is one that is
\* being written or that a crash left: there are no more of them than crashes.
EmptyFilesExplained ==
    Cardinality({n \in FileName : files[n].mark = "empty"})
        <= crashes + (IF at = "fill" THEN 1 ELSE 0)

\* The position of the last static header before position p, or 0.
HeaderBefore(text, p) ==
    LET places == {q \in 1..(p - 1) : text[q].kind = "static"}
    IN  IF places = {} THEN 0 ELSE CHOOSE q \in places : \A r \in places : r <= q

\* The position of the header of the stanza that the line at p is in, or 0: the
\* last line before it that is no option, whatever that line begins.
StanzaOf(text, p) ==
    LET places == {q \in 1..(p - 1) : text[q].kind # "option"}
    IN  IF places = {} THEN 0 ELSE CHOOSE q \in places : \A r \in places : r <= q

Under(text, h, i, f) == h # 0 /\ text[h] = [kind |-> "static", name |-> i, fam |-> f]

\* An interface gets the last value that its own stanzas give an option.  "Any
\* other line resets the context" (line 198) would make that true of every text.
\* The branch cannot be reached once a static stanza has begun, so there is one
\* exception, and no other: the options of a stanza of another kind go to the
\* static stanza before it, where they replace what that one said.
OptionsOfOwnStanza ==
    input # Missing =>
        \A i \in Iface, k \in Key, f \in Family :
            LET value == Parse[input].options[<<i, k, f>>]
                given == {p \in DOMAIN input : input[p].kind = "option" /\ input[p].key = k}
                own == {p \in given : Under(input, StanzaOf(input, p), i, f)}
                stray == {p \in given : /\ Under(input, HeaderBefore(input, p), i, f)
                                        /\ input[StanzaOf(input, p)].kind = "other"}
            IN  \/ own = {} /\ value = NoValue
                \/ \E p \in own : (\A q \in own : q <= p) /\ value = input[p].val
                \/ \E p \in stray : (\A q \in own : q < p) /\ value = input[p].val

\* If crashes and changes end, then in the end every start finds the files in
\* place, unless the directory is missing, or a run was cut off and the input
\* is again what it was before: then no start makes the files.
Converges ==
    <>[]( \/ input = Missing \/ ~ dir
          \/ Own = Wanted(input)
          \/ cut /\ input \in checksum )
=============================================================================
