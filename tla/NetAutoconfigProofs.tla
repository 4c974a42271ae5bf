------------------------ MODULE NetAutoconfigProofs ------------------------
(***************************************************************************)
(* For every set of interfaces, every input and any number of crashes and  *)
(* changes: what a run of NetAutoconfig leaves, that an empty file is      *)
(* explained by a crash, and which stanza an option belongs to.            *)
(***************************************************************************)
EXTENDS NetAutoconfig, FiniteSetTheorems, WellFoundedInduction, TLAPS

-----------------------------------------------------------------------------
(* The inductive invariant                                                 *)

TInv ==
    /\ input \in Inputs \cup {Missing}
    /\ files = [n \in FileName |-> files[n]]
    /\ at \in {"idle", "read", "change", "fill", "sum"}
    /\ toDelete \subseteq FileName
    /\ crashes \in Nat /\ cut \in BOOLEAN

\* What remains to be done is a part of what the input asks for.
Remains ==
    /\ at \in {"idle", "read"} => toDelete = {} /\ toWrite = {}
    /\ at # "idle" => ended = "none"
    /\ at \in {"change", "fill", "sum"} => input \in Inputs /\ toWrite \subseteq Found(input)
    /\ at \in {"fill", "sum"} => toDelete = {}
    /\ at = "sum" => toWrite = {}
    /\ toDelete # {} => toWrite = Found(input)
    /\ at = "fill" => \E i \in toWrite : IsNext(i)

Name(i) == NameOf(Found(input), i)

\* While files are changed, those of the program are to be deleted or have
\* been written, and each that has been written has the text it should have.
Progress ==
    at \in {"change", "fill", "sum"} =>
        /\ \A n \in FileName : files[n].mark = "own" =>
              n \in toDelete \/ \E i \in Found(input) \ toWrite : n = Name(i)
        /\ \A i \in Found(input) \ toWrite : files[Name(i)] = Written(Parse[input], i)

\* Unless a run was cut off, the files are those that the checksum is of.
Matches == at \in {"idle", "read"} /\ ~ cut => \A text \in checksum : Own = Wanted(text)

\* The file that is being written is empty.
Opened == at = "fill" => \A i \in toWrite : IsNext(i) => files[Name(i)] = EmptyFile

Empty == {n \in FileName : files[n].mark = "empty"}

IInv == TInv /\ Remains /\ Progress /\ Matches /\ Opened /\ AppliedWhenDone /\ EmptyFilesExplained

-----------------------------------------------------------------------------
(* Names of files                                                          *)

\* An interface that is found is one, and has a file name of its own: its number
\* is at most that of the interfaces.
LEMMA FoundIface ==
    ASSUME NEW text \in Inputs
    PROVE  Found(text) \subseteq Iface
<1>1. text \in Seq(Line)
  BY InputAssumption
<1>2. \A p \in DOMAIN text : text[p] \in Line
  BY <1>1
<1>3. \A line \in Line : line.kind = "static" => line.name \in Iface
  BY DEF Line, Static, Option, Other
<1> QED
  BY <1>2, <1>3 DEF Found

LEMMA IfaceCount == Cardinality(Iface) \in Nat
  BY OrderAssumption, FS_CardinalityType

LEMMA NameType ==
    ASSUME NEW found \in SUBSET Iface, NEW i \in Iface
    PROVE  NameOf(found, i) \in FileName
<1> DEFINE B == {j \in found : <<j, i>> \in Before}
<1>1. B \subseteq Iface \ {i}
  BY OrderAssumption
<1>2. /\ IsFiniteSet(Iface \ {i})
      /\ Cardinality(Iface \ {i}) = Cardinality(Iface) - 1
  BY OrderAssumption, FS_RemoveElement
<1>3. IsFiniteSet(B) /\ Cardinality(B) <= Cardinality(Iface) - 1
  <2> HIDE DEF B
  <2>1. B \in SUBSET (Iface \ {i})
    BY <1>1
  <2>2. IsFiniteSet(B) /\ Cardinality(B) <= Cardinality(Iface \ {i})
    BY <1>2, <2>1, FS_Subset
  <2> QED
    BY <1>2, <2>2
<1>4. Cardinality(B) \in Nat
  BY <1>3, FS_CardinalityType
<1>5. Cardinality(B) + 1 \in 1..Cardinality(Iface)
  BY <1>3, <1>4, IfaceCount
<1> QED
  BY <1>5 DEF NameOf, FileName

\* Two interfaces have two names.
LEMMA NameInjective ==
    ASSUME NEW found, NEW i, NEW j, i # j
    PROVE  NameOf(found, i) # NameOf(found, j)
  BY DEF NameOf

LEMMA FilesFinite == IsFiniteSet(FileName)
<1>1. IsFiniteSet(1..Cardinality(Iface))
  BY IfaceCount, FS_Interval
<1>2. IsFiniteSet(Iface)
  BY OrderAssumption
<1> QED
  BY <1>1, <1>2, FS_Product DEF FileName

\* Only one interface is next.
LEMMA NextUnique ==
    ASSUME toWrite \subseteq Iface, NEW i \in toWrite, NEW j \in toWrite, IsNext(i), IsNext(j)
    PROVE  i = j
<1> SUFFICES ASSUME i # j PROVE FALSE
  OBVIOUS
<1>1. <<i, j>> \in Before /\ <<j, i>> \in Before
  BY DEF IsNext
<1> QED
  BY <1>1, OrderAssumption

\* The program's own files are the wanted ones once each name has its text.
LEMMA OwnIsWanted ==
    ASSUME TInv, input \in Inputs,
           \A n \in FileName : files[n].mark = "own" => \E i \in Found(input) : n = Name(i),
           \A i \in Found(input) : files[Name(i)] = Written(Parse[input], i)
    PROVE  Own = Wanted(input)
<1>1. \A i \in Found(input) : Name(i) \in FileName
  BY FoundIface, NameType DEF Name
<1>2. \A i \in Found(input) : files[Name(i)].mark = "own"
  <2>1. \A map, i : Written(map, i).mark = "own"
    BY DEF Written
  <2> QED
    BY <2>1
<1>3. Own \subseteq Wanted(input)
  BY DEF Own, Wanted, Name
<1>4. Wanted(input) \subseteq Own
  BY <1>1, <1>2 DEF Own, Wanted, Name
<1> QED
  BY <1>3, <1>4

-----------------------------------------------------------------------------
(* The steps that leave files and checksum alone                           *)

\* The sets of the properties depend on the files only.
LEMMA SameFiles ==
    ASSUME files' = files
    PROVE  Own' = Own /\ Empty' = Empty
  BY DEF Own, Empty

LEMMA SameWanted == \A text : Wanted(text)' = Wanted(text)
  BY DEF Wanted

LEMMA EmptyCount ==
    /\ IsFiniteSet(Empty) /\ Cardinality(Empty) \in Nat
<1>1. Empty \subseteq FileName
  BY DEF Empty
<1> QED
  BY <1>1, FilesFinite, FS_Subset, FS_CardinalityType

LEMMA InitInvariant == Init => IInv
<1> SUFFICES ASSUME Init PROVE IInv
  OBVIOUS
<1>1. TInv /\ Remains
  BY DEF Init, TInv, Remains
<1>2. Progress /\ Matches /\ Opened /\ AppliedWhenDone
  BY DEF Init, Progress, Matches, Opened, AppliedWhenDone
<1>3. EmptyFilesExplained
  <2>1. \A n \in FileName : files[n].mark # "empty"
    BY DEF Init, ForeignFile, NoFile
  <2>2. Empty = {}
    BY <2>1 DEF Empty
  <2> QED
    BY <2>2, FS_EmptySet DEF EmptyFilesExplained, Empty, Init
<1> QED
  BY <1>1, <1>2, <1>3 DEF IInv

-----------------------------------------------------------------------------
(* One step, one part at a time                                            *)

\* The files after a step that deletes, opens or fills one.
LEMMA OneFile ==
    ASSUME TInv, NEW n \in FileName, NEW text, files' = [files EXCEPT ![n] = text]
    PROVE  /\ files' = [m \in FileName |-> files'[m]]
           /\ files'[n] = text
           /\ \A m \in FileName \ {n} : files'[m] = files[m]
  BY DEF TInv

LEMMA StepTInv ==
    ASSUME IInv, [Next]_vars
    PROVE  TInv'
<1> USE DEF IInv
<1> SUFFICES ASSUME Next PROVE TInv'
  BY DEF TInv, vars
<1>1. CASE Start \/ NoInput \/ UpToDate \/ NoDirectory \/ Scan \/ OpenChecksum \/ WriteChecksum
  BY <1>1 DEF Start, NoInput, UpToDate, NoDirectory, Scan, OpenChecksum, WriteChecksum, End, TInv, boot
<1>2. CASE Delete
  <2>1. PICK n \in toDelete : files' = [files EXCEPT ![n] = NoFile] /\ toDelete' = toDelete \ {n}
    BY <1>2 DEF Delete
  <2>2. files' = [m \in FileName |-> files'[m]]
    BY <2>1, OneFile DEF TInv
  <2> QED
    BY <1>2, <2>1, <2>2 DEF Delete, TInv, boot
<1>3. CASE Open
  <2>1. PICK i \in toWrite : files' = [files EXCEPT ![Name(i)] = EmptyFile]
    BY <1>3 DEF Open, Name
  <2>2. Name(i) \in FileName
    BY <1>3, FoundIface, NameType DEF Open, Remains, Name
  <2>3. files' = [m \in FileName |-> files'[m]]
    BY <2>1, <2>2, OneFile
  <2> QED
    BY <1>3, <2>3 DEF Open, TInv, boot
<1>4. CASE Fill
  <2>1. PICK i \in toWrite : files' = [files EXCEPT ![Name(i)] = Written(Parse[input], i)]
    BY <1>4 DEF Fill, Name
  <2>2. Name(i) \in FileName
    BY <1>4, FoundIface, NameType DEF Fill, Remains, Name
  <2>3. files' = [m \in FileName |-> files'[m]]
    BY <2>1, <2>2, OneFile
  <2> QED
    BY <1>4, <2>3 DEF Fill, TInv, boot
<1>5. CASE Crash
  BY <1>5 DEF Crash, End, TInv
<1>6. CASE Edit
  BY <1>6, InputAssumption DEF Edit, TInv
<1> QED
  BY <1>1, <1>2, <1>3, <1>4, <1>5, <1>6 DEF Next, Run

LEMMA StepRemains ==
    ASSUME IInv, [Next]_vars
    PROVE  Remains'
<1> USE DEF IInv
<1>1. CASE Start \/ NoInput \/ UpToDate \/ NoDirectory \/ WriteChecksum \/ Crash \/ Edit
  BY <1>1 DEF Start, NoInput, UpToDate, NoDirectory, WriteChecksum, Crash, Edit, End, Remains, boot
<1>2. CASE Scan
  BY <1>2 DEF Scan, Remains, TInv, boot
<1>3. CASE Delete
  BY <1>3 DEF Delete, Remains, boot
<1>4. CASE Open
  <2>1. PICK i \in toWrite : IsNext(i)
    BY <1>4 DEF Open
  <2>2. IsNext(i)'
    BY <1>4, <2>1 DEF Open, IsNext
  <2> QED
    BY <1>4, <2>1, <2>2 DEF Open, Remains, boot
<1>5. CASE Fill
  BY <1>5 DEF Fill, Remains, boot
<1>6. CASE OpenChecksum
  BY <1>6 DEF OpenChecksum, Remains, boot
<1>7. CASE UNCHANGED vars
  BY <1>7 DEF vars, Remains, IsNext
<1> QED
  BY <1>1, <1>2, <1>3, <1>4, <1>5, <1>6, <1>7 DEF Next, Run

LEMMA StepProgress ==
    ASSUME IInv, [Next]_vars
    PROVE  Progress'
<1> USE DEF IInv
<1>1. CASE Start \/ NoInput \/ UpToDate \/ NoDirectory \/ WriteChecksum \/ Crash \/ Edit
  BY <1>1 DEF Start, NoInput, UpToDate, NoDirectory, WriteChecksum, Crash, Edit, End, Remains, Progress
<1>2. CASE Scan
  BY <1>2 DEF Scan, Progress, boot
<1>3. CASE Delete
  <2>1. PICK n \in toDelete : files' = [files EXCEPT ![n] = NoFile] /\ toDelete' = toDelete \ {n}
    BY <1>3 DEF Delete
  <2>2. n \in FileName
    BY DEF TInv
  <2>3. files'[n] = NoFile /\ \A m \in FileName \ {n} : files'[m] = files[m]
    BY <2>1, <2>2, OneFile
  <2>4. Found(input) \ toWrite = {}
    BY <2>1 DEF Remains
  <2>5. NoFile.mark # "own"
    BY DEF NoFile
  <2>6. at = "change" /\ toWrite' = toWrite /\ input' = input
    BY <1>3 DEF Delete, boot
  <2>7. \A m \in FileName : files'[m].mark = "own" => m \in toDelete'
    BY <2>1, <2>3, <2>4, <2>5, <2>6 DEF Progress
  <2> QED
    BY <2>4, <2>6, <2>7 DEF Progress
<1>4. CASE Open
  <2>1. PICK i \in toWrite : files' = [files EXCEPT ![Name(i)] = EmptyFile]
    BY <1>4 DEF Open, Name
  <2>2. /\ at = "change" /\ toDelete = {} /\ toDelete' = {} /\ toWrite' = toWrite /\ input' = input
    BY <1>4 DEF Open, boot
  <2>3. Name(i) \in FileName /\ \A j \in Found(input) : Name(j) \in FileName
    BY <2>2, FoundIface, NameType DEF Remains, Name
  <2>4. files'[Name(i)] = EmptyFile /\ \A m \in FileName \ {Name(i)} : files'[m] = files[m]
    BY <2>1, <2>3, OneFile
  <2>5. \A j \in Found(input) \ toWrite : Name(j) # Name(i)
    BY NameInjective DEF Name
  <2>6. \A j : Name(j)' = Name(j)
    BY <2>2 DEF Name
  <2>7. EmptyFile.mark # "own"
    BY DEF EmptyFile
  <2>8. \A n \in FileName : files'[n].mark = "own" => \E j \in Found(input) \ toWrite : n = Name(j)
    BY <2>2, <2>4, <2>7 DEF Progress
  <2>9. \A j \in Found(input) \ toWrite : files'[Name(j)] = Written(Parse[input], j)
    BY <2>2, <2>3, <2>4, <2>5 DEF Progress
  <2> QED
    BY <2>2, <2>6, <2>8, <2>9 DEF Progress
<1>5. CASE Fill
  <2>1. PICK i \in toWrite : /\ files' = [files EXCEPT ![Name(i)] = Written(Parse[input], i)]
                             /\ toWrite' = toWrite \ {i}
    BY <1>5 DEF Fill, Name
  <2>2. /\ at = "fill" /\ toDelete' = toDelete /\ input' = input
    BY <1>5 DEF Fill, boot
  <2>3. Name(i) \in FileName /\ \A j \in Found(input) : Name(j) \in FileName
    BY <2>2, FoundIface, NameType DEF Remains, Name
  <2>4. /\ files'[Name(i)] = Written(Parse[input], i)
        /\ \A m \in FileName \ {Name(i)} : files'[m] = files[m]
    BY <2>1, <2>3, OneFile
  <2>5. \A j \in Found(input) : j # i => Name(j) # Name(i)
    BY NameInjective DEF Name
  <2>6. \A j : Name(j)' = Name(j)
    BY <2>2 DEF Name
  <2>7. Found(input) \ toWrite' = (Found(input) \ toWrite) \cup {i}
    BY <2>1, <2>2 DEF Remains
  <2>8. \A n \in FileName : files'[n].mark = "own" =>
           n \in toDelete \/ \E j \in Found(input) \ toWrite' : n = Name(j)
    BY <2>2, <2>4, <2>7 DEF Progress
  <2>9. \A j \in Found(input) \ toWrite' : files'[Name(j)] = Written(Parse[input], j)
    BY <2>2, <2>3, <2>4, <2>5, <2>7 DEF Progress
  <2> QED
    BY <2>2, <2>6, <2>8, <2>9 DEF Progress
<1>6. CASE OpenChecksum
  BY <1>6 DEF OpenChecksum, Progress, Name, boot
<1>7. CASE UNCHANGED vars
  BY <1>7 DEF vars, Progress, Name
<1> QED
  BY <1>1, <1>2, <1>3, <1>4, <1>5, <1>6, <1>7 DEF Next, Run

\* When all is written, the files are the wanted ones.
LEMMA WrittenIsWanted ==
    ASSUME IInv, at = "sum"
    PROVE  Own = Wanted(input)
  BY OwnIsWanted DEF IInv, Remains, Progress

LEMMA StepMatches ==
    ASSUME IInv, [Next]_vars
    PROVE  Matches'
<1> USE DEF IInv
<1>1. CASE WriteChecksum
  BY <1>1, WrittenIsWanted, SameFiles, SameWanted DEF WriteChecksum, Matches
<1>2. CASE Start \/ NoInput \/ UpToDate \/ NoDirectory \/ Edit
  BY <1>2, SameFiles, SameWanted DEF Start, NoInput, UpToDate, NoDirectory, Edit, End, Matches
<1>3. CASE Crash
  BY <1>3, SameFiles, SameWanted DEF Crash, End, Matches
<1>4. CASE Scan \/ Delete \/ Open \/ Fill \/ OpenChecksum
  BY <1>4 DEF Scan, Delete, Open, Fill, OpenChecksum, Matches
<1>5. CASE UNCHANGED vars
  BY <1>5, SameFiles, SameWanted DEF vars, Matches
<1> QED
  BY <1>1, <1>2, <1>3, <1>4, <1>5 DEF Next, Run

LEMMA StepOpened ==
    ASSUME IInv, [Next]_vars
    PROVE  Opened'
<1> USE DEF IInv
<1>1. CASE Open
  <2>1. PICK i \in toWrite : IsNext(i) /\ files' = [files EXCEPT ![Name(i)] = EmptyFile]
    BY <1>1 DEF Open, Name
  <2>2. at = "change" /\ toWrite' = toWrite /\ input' = input
    BY <1>1 DEF Open, boot
  <2>3. toWrite \subseteq Iface /\ Name(i) \in FileName
    BY <2>2, FoundIface, NameType DEF Remains, Name
  <2>4. files'[Name(i)] = EmptyFile
    BY <2>1, <2>3, OneFile
  <2>5. \A j \in toWrite : IsNext(j)' => j = i
    BY <2>1, <2>2, <2>3, NextUnique DEF IsNext
  <2> QED
    BY <2>2, <2>4, <2>5 DEF Opened, Name
<1>2. CASE UNCHANGED vars
  BY <1>2 DEF vars, Opened, IsNext, Name
<1>3. CASE Start \/ NoInput \/ UpToDate \/ NoDirectory \/ Edit \/ Crash \/ WriteChecksum
  BY <1>3 DEF Start, NoInput, UpToDate, NoDirectory, Edit, Crash, WriteChecksum, End, Opened
<1>4. CASE Scan \/ Delete \/ Fill \/ OpenChecksum
  BY <1>4 DEF Scan, Delete, Fill, OpenChecksum, Opened
<1> QED
  BY <1>1, <1>2, <1>3, <1>4 DEF Next, Run

LEMMA StepApplied ==
    ASSUME IInv, [Next]_vars
    PROVE  AppliedWhenDone'
<1> USE DEF IInv
<1>1. CASE WriteChecksum
  BY <1>1, WrittenIsWanted, SameFiles, SameWanted DEF WriteChecksum, AppliedWhenDone, boot, Wanted
<1>2. CASE UpToDate
  <2>1. cut \/ Own = Wanted(input)
    BY <1>2 DEF UpToDate, Matches, TInv
  <2>2. Own' = Own /\ input' = input /\ cut' = cut /\ ended' = "current"
    BY <1>2, SameFiles DEF UpToDate, End, boot
  <2> QED
    BY <2>1, <2>2 DEF AppliedWhenDone, Wanted
<1>3. CASE Start \/ NoInput \/ NoDirectory \/ Edit \/ Crash
  BY <1>3 DEF Start, NoInput, NoDirectory, Edit, Crash, End, AppliedWhenDone
<1>4. CASE Scan \/ Delete \/ Open \/ Fill \/ OpenChecksum
  BY <1>4 DEF Scan, Delete, Open, Fill, OpenChecksum, Remains, AppliedWhenDone
<1>5. CASE UNCHANGED vars
  <2>1. Own' = Own
    BY <1>5, SameFiles DEF vars
  <2> QED
    BY <1>5, <2>1 DEF vars, AppliedWhenDone, Wanted
<1> QED
  BY <1>1, <1>2, <1>3, <1>4, <1>5 DEF Next, Run

Allowed == crashes + (IF at = "fill" THEN 1 ELSE 0)

LEMMA EmptyWithin == EmptyFilesExplained <=> Cardinality(Empty) <= Allowed
  BY DEF EmptyFilesExplained, Empty, Allowed

LEMMA StepEmpty ==
    ASSUME IInv, [Next]_vars
    PROVE  EmptyFilesExplained'
<1> USE DEF IInv
<1>0. Cardinality(Empty) \in Nat /\ IsFiniteSet(Empty) /\ Cardinality(Empty) <= Allowed
  BY EmptyCount, EmptyWithin
<1> SUFFICES Cardinality(Empty') <= Allowed'
  BY DEF EmptyFilesExplained, Empty, Allowed
<1>1. CASE /\ Start \/ NoInput \/ UpToDate \/ NoDirectory \/ Scan \/ OpenChecksum
              \/ WriteChecksum \/ Edit
  <2>1. Empty' = Empty
    BY <1>1, SameFiles DEF Start, NoInput, UpToDate, NoDirectory, Scan, OpenChecksum, WriteChecksum, Edit
  <2>2. Allowed' = Allowed
    BY <1>1 DEF Start, NoInput, UpToDate, NoDirectory, Scan, OpenChecksum, WriteChecksum, Edit,
                End, boot, Allowed
  <2> QED
    BY <1>0, <2>1, <2>2
<1>2. CASE Crash
  <2>1. Empty' = Empty
    BY <1>2, SameFiles DEF Crash
  <2>2. Allowed' >= Allowed
    BY <1>2 DEF Crash, End, Allowed, TInv
  <2>3. Allowed \in Nat /\ Allowed' \in Nat
    BY <1>2 DEF Crash, End, Allowed, TInv
  <2> QED
    BY <1>0, <2>1, <2>2, <2>3
<1>3. CASE Delete
  <2>1. PICK n \in toDelete : files' = [files EXCEPT ![n] = NoFile]
    BY <1>3 DEF Delete
  <2>2. n \in FileName
    BY DEF TInv
  <2>3. files'[n] = NoFile /\ \A m \in FileName \ {n} : files'[m] = files[m]
    BY <2>1, <2>2, OneFile
  <2>4. Empty' \in SUBSET Empty
    BY <2>2, <2>3 DEF Empty, NoFile
  <2>5. Cardinality(Empty') <= Cardinality(Empty) /\ Cardinality(Empty') \in Nat
    BY <1>0, <2>4, FS_Subset, FS_CardinalityType
  <2>6. Allowed' = Allowed /\ Allowed \in Nat
    BY <1>3 DEF Delete, Allowed, boot, TInv
  <2> QED
    BY <1>0, <2>5, <2>6
<1>4. CASE Open
  <2>1. PICK i \in toWrite : files' = [files EXCEPT ![Name(i)] = EmptyFile]
    BY <1>4 DEF Open, Name
  <2>2. Name(i) \in FileName
    BY <1>4, FoundIface, NameType DEF Open, Remains, Name
  <2>3. files'[Name(i)] = EmptyFile /\ \A m \in FileName \ {Name(i)} : files'[m] = files[m]
    BY <2>1, <2>2, OneFile
  <2>4. Empty' = Empty \cup {Name(i)}
    BY <2>2, <2>3 DEF Empty, EmptyFile
  <2>5. Cardinality(Empty') <= Cardinality(Empty) + 1 /\ Cardinality(Empty') \in Nat
    <3>1. /\ IsFiniteSet(Empty \cup {Name(i)})
          /\ Cardinality(Empty \cup {Name(i)}) =
                IF Name(i) \in Empty THEN Cardinality(Empty) ELSE Cardinality(Empty) + 1
      BY <1>0, FS_AddElement
    <3> QED
      BY <1>0, <2>4, <3>1
  <2>6. Allowed' = Allowed + 1 /\ Allowed \in Nat
    BY <1>4 DEF Open, Allowed, boot, TInv
  <2> QED
    BY <1>0, <2>5, <2>6
<1>5. CASE Fill
  <2>1. PICK i \in toWrite : IsNext(i) /\ files' = [files EXCEPT ![Name(i)] = Written(Parse[input], i)]
    BY <1>5 DEF Fill, Name
  <2>2. Name(i) \in FileName /\ files[Name(i)] = EmptyFile
    BY <1>5, <2>1, FoundIface, NameType DEF Fill, Remains, Opened, Name
  <2>3. /\ files'[Name(i)] = Written(Parse[input], i)
        /\ \A m \in FileName \ {Name(i)} : files'[m] = files[m]
    BY <2>1, <2>2, OneFile
  <2>4. Written(Parse[input], i).mark = "own"
    BY DEF Written
  <2>5. Empty' = Empty \ {Name(i)} /\ Name(i) \in Empty
    BY <2>2, <2>3, <2>4 DEF Empty, EmptyFile
  <2>6. Cardinality(Empty') = Cardinality(Empty) - 1
    BY <1>0, <2>5, FS_RemoveElement
  <2>7. Allowed' = Allowed - 1 /\ Allowed \in Nat
    BY <1>5 DEF Fill, Allowed, boot, TInv
  <2> QED
    BY <1>0, <2>6, <2>7
<1>6. CASE UNCHANGED vars
  <2>1. Empty' = Empty /\ Allowed' = Allowed
    BY <1>6, SameFiles DEF vars, Allowed
  <2> QED
    BY <1>0, <2>1
<1> QED
  BY <1>1, <1>2, <1>3, <1>4, <1>5, <1>6 DEF Next, Run

-----------------------------------------------------------------------------
(* Parse, line by line                                                     *)

\* A set of natural numbers that is not empty has a least element.
LEMMA LeastNumber ==
  ASSUME NEW S \in SUBSET Nat, S # {}
  PROVE  \E i \in S : \A k \in S : i <= k
<1> DEFINE R == OpToRel(<, Nat)
<1>1. PICK i \in S : ~ \E y \in S : <<y, i>> \in R
  BY NatLessThanWellFounded, WFMin
<1>2. \A k \in S : ~ (k < i)
  BY <1>1 DEF OpToRel
<1> QED
  BY <1>2

\* One of numbers up to n has a greatest element, which CHOOSE finds.
LEMMA LastPlace ==
  ASSUME NEW n \in Nat, NEW S \in SUBSET (1..n), S # {}
  PROVE  LET last == CHOOSE q \in S : \A r \in S : r <= q
         IN  last \in S /\ \A r \in S : r <= last
<1> DEFINE B == {u \in 1..n : \A r \in S : r <= u}
<1>0. n \in 1..n
  <2>1. \E r \in S : r \in 1..n
    OBVIOUS
  <2> QED
    BY <2>1
<1>1. n \in B
  BY <1>0
<1>2. PICK u \in B : \A v \in B : u <= v
  <2>1. B \in SUBSET Nat /\ B # {}
    BY <1>1
  <2> HIDE DEF B
  <2> QED
    BY <2>1, LeastNumber
<1>3. u \in 1..n /\ \A r \in S : r <= u /\ r \in 1..n
  BY <1>2
<1>4. u \in S
  <2>1. SUFFICES ASSUME u \notin S PROVE FALSE
    OBVIOUS
  <2>2. \A r \in S : r <= u - 1
    BY <1>3, <2>1
  <2>0. PICK r \in S : TRUE
    OBVIOUS
  <2>3. u - 1 \in 1..n
    BY <1>3, <2>0, <2>2
  <2>4. u - 1 \in B
    BY <2>2, <2>3
  <2> HIDE DEF B
  <2>5. u <= u - 1
    BY <1>2, <2>4
  <2> QED
    BY <1>3, <2>5
<1> QED
  BY <1>3, <1>4

\* What FoldLeft computes, for the sets of lines up to the n-th.
Folds(f, text, n) ==
    f = [s \in SUBSET (1..n) |-> IF s = {} THEN Nothing
                                 ELSE ReadLine(f[s \ {Max(s)}], text[Max(s)])]

\* The last line of those up to the n-th is the n-th.
LEMMA LastOfRange == ASSUME NEW n \in Nat, NEW s \in SUBSET (1..n), n \in s PROVE Max(s) = n
<1>1. \A x \in s : (\A y \in s : x >= y) <=> x = n
  OBVIOUS
<1> QED
  BY <1>1 DEF Max

\* The recursion of FoldLeft is well-defined.
LEMMA FoldDefined ==
  ASSUME NEW text, NEW n \in Nat PROVE \E f : Folds(f, text, n)
<1> DEFINE Undefined == {k \in Nat : ~ \E f : Folds(f, text, k)}
<1>1. SUFFICES ASSUME Undefined # {} PROVE FALSE
  OBVIOUS
<1>2. PICK k \in Undefined : \A l \in Undefined : k <= l
  BY <1>1, LeastNumber
<1>3. k # 0
  <2> SUFFICES ASSUME k = 0 PROVE FALSE
    OBVIOUS
  <2> DEFINE g == [s \in SUBSET (1..0) |-> Nothing]
  <2>1. \A s \in SUBSET (1..0) : s = {}
    OBVIOUS
  <2>2. Folds(g, text, 0)
    BY <2>1 DEF Folds
  <2> QED
    BY <2>2, <1>2
<1>4. k \in Nat /\ k - 1 \in Nat /\ ~ (k <= k - 1)
  BY <1>3
<1>5. PICK f : Folds(f, text, k - 1)
  BY <1>2, <1>4
<1> DEFINE g == [s \in SUBSET (1..k) |->
                    IF k \in s THEN ReadLine(f[s \ {k}], text[k]) ELSE f[s]]
<1>6. ASSUME NEW s \in SUBSET (1..k)
      PROVE  g[s] = IF s = {} THEN Nothing ELSE ReadLine(g[s \ {Max(s)}], text[Max(s)])
  <2>1. CASE k \in s
    <3>1. Max(s) = k
      BY <2>1, <1>4, LastOfRange
    <3>2. g[s \ {k}] = f[s \ {k}]
      OBVIOUS
    <3>3. g[s] = ReadLine(f[s \ {k}], text[k])
      BY <2>1
    <3> HIDE DEF g
    <3> QED
      BY <2>1, <3>1, <3>2, <3>3
  <2>2. CASE k \notin s
    <3>1. s \in SUBSET (1..(k - 1))
      BY <2>2, <1>4
    <3>2. s \ {Max(s)} \in SUBSET (1..k) /\ k \notin s \ {Max(s)}
      BY <2>2
    <3>3. g[s] = f[s] /\ g[s \ {Max(s)}] = f[s \ {Max(s)}]
      BY <2>2, <3>2
    <3> HIDE DEF g
    <3> QED
      BY <3>1, <3>3, <1>5 DEF Folds
  <2> QED
    BY <2>1, <2>2
<1>7. Folds(g, text, k)
  BY <1>6, Zenon DEF Folds
<1> QED
  BY <1>7, <1>2

\* The maps after each of the lines.
Reads(m, text) ==
    /\ m[0] = Nothing
    /\ \A k \in 1..Len(text) : m[k] = ReadLine(m[k - 1], text[k])

\* Parse reads the lines one after the other.
LEMMA ParseSteps ==
  ASSUME NEW text \in Inputs
  PROVE  \E m : Reads(m, text) /\ Parse[text] = m[Len(text)]
<1> DEFINE n == Len(text)
           h == CHOOSE f : f = [s \in SUBSET (1..n) |->
                                   IF s = {} THEN Nothing
                                   ELSE ReadLine(f[s \ {Max(s)}], text[Max(s)])]
<1>1. n \in Nat /\ DOMAIN text = 1..n
  BY InputAssumption
<1>2. Folds(h, text, n)
  BY <1>1, FoldDefined DEF Folds
<1>3. Parse[text] = h[1..n]
  <2>1. Parse[text] = FoldLeft(ReadLine, Nothing, text)
    BY DEF Parse
  <2> QED
    BY <2>1, <1>1, Zenon DEF FoldLeft, MapThenFoldSet
<1> HIDE DEF h, n
<1> DEFINE m == [k \in 0..n |-> h[1..k]]
<1>4. m[0] = Nothing
  <2>1. 1..0 = {} /\ {} \in SUBSET (1..n) /\ 0 \in 0..n
    BY <1>1
  <2> QED
    BY <2>1, <1>2 DEF Folds
<1>5. ASSUME NEW k \in 1..n PROVE m[k] = ReadLine(m[k - 1], text[k])
  <2>0. n \in Nat
    BY <1>1
  <2>1. /\ 1..k \in SUBSET (1..n) /\ 1..k # {} /\ (1..k) \ {k} = 1..(k - 1)
        /\ k \in 0..n /\ k - 1 \in 0..n /\ k \in 1..k /\ k \in Nat
    <3>1. k \in 0..n /\ k - 1 \in 0..n /\ k \in 1..k /\ k \in Nat
      BY <2>0
    <3>2. 1..k \in SUBSET (1..n) /\ (1..k) \ {k} = 1..(k - 1)
      BY <2>0
    <3> QED
      BY <3>1, <3>2
  <2>2. Max(1..k) = k
    BY <2>1, LastOfRange
  <2>3. h[1..k] = ReadLine(h[(1..k) \ {k}], text[k])
    BY <2>1, <2>2, <1>2 DEF Folds
  <2> QED
    BY <2>1, <2>3
<1>6. m[n] = h[1..n]
  BY <1>1
<1> HIDE DEF m
<1> QED
  BY <1>3, <1>4, <1>5, <1>6 DEF Reads, n

-----------------------------------------------------------------------------
(* What the options are after each line                                    *)

Header(name, f) == [kind |-> "static", name |-> name, fam |-> f]

IsFor(text, p, i, k, f) ==
    /\ text[p].kind = "option" /\ text[p].key = k
    /\ HeaderBefore(text, p) # 0 /\ text[HeaderBefore(text, p)] = Header(i, f)

PlacesOf(text, i, k, f, n) == {p \in 1..n : IsFor(text, p, i, k, f)}

ValueOf(text, i, k, f, n) ==
    IF PlacesOf(text, i, k, f, n) = {} THEN NoValue
    ELSE text[CHOOSE p \in PlacesOf(text, i, k, f, n) : \A q \in PlacesOf(text, i, k, f, n) : q <= p].val

\* The map after n lines.
ContextAfter(text, n) ==
    IF HeaderBefore(text, n + 1) = 0 THEN NoContext
    ELSE [name |-> text[HeaderBefore(text, n + 1)].name, fam |-> text[HeaderBefore(text, n + 1)].fam]

OptionsAfter(text, n) == [o \in Iface \X Key \X Family |-> ValueOf(text, o[1], o[2], o[3], n)]

MapAfter(text, n) == [context |-> ContextAfter(text, n), options |-> OptionsAfter(text, n)]

\* The header of the next line.
LEMMA HeaderNext ==
  ASSUME NEW text \in Seq(Line), NEW n \in 1..Len(text)
  PROVE  /\ text[n].kind = "static" => HeaderBefore(text, n + 1) = n
         /\ text[n].kind # "static" => HeaderBefore(text, n + 1) = HeaderBefore(text, n)
<1> DEFINE S(p) == {q \in 1..(p - 1) : text[q].kind = "static"}
           last(s) == CHOOSE q \in s : \A r \in s : r <= q
<1>0. n \in Nat /\ (n + 1) - 1 = n
  OBVIOUS
<1>1. \A p : HeaderBefore(text, p) = IF S(p) = {} THEN 0 ELSE last(S(p))
  BY DEF HeaderBefore
<1>2. ASSUME text[n].kind = "static" PROVE HeaderBefore(text, n + 1) = n
  <2>1. n \in S(n + 1) /\ \A r \in S(n + 1) : r <= n /\ r \in Nat
    BY <1>0, <1>2
  <2>2. \A q \in S(n + 1) : (\A r \in S(n + 1) : r <= q) <=> q = n
    BY <2>1
  <2> HIDE DEF S
  <2>3. last(S(n + 1)) = n
    BY <2>1, <2>2
  <2> QED
    BY <1>1, <2>1, <2>3
<1>3. ASSUME text[n].kind # "static" PROVE HeaderBefore(text, n + 1) = HeaderBefore(text, n)
  <2>1. S(n + 1) = S(n)
    BY <1>0, <1>3
  <2> HIDE DEF S, last
  <2> QED
    BY <1>1, <2>1
<1> QED
  BY <1>2, <1>3

\* The header of a line is one of the static lines before it, or there is none.
LEMMA HeaderStatic ==
  ASSUME NEW text \in Seq(Line), NEW n \in 1..(Len(text) + 1)
  PROVE  HeaderBefore(text, n) = 0
         \/ /\ HeaderBefore(text, n) \in 1..(n - 1)
            /\ text[HeaderBefore(text, n)].kind = "static"
<1> DEFINE Fine(p) == HeaderBefore(text, p) = 0
                      \/ /\ HeaderBefore(text, p) \in 1..(p - 1)
                         /\ text[HeaderBefore(text, p)].kind = "static"
           Bad == {p \in 1..(Len(text) + 1) : ~ Fine(p)}
<1>0. Len(text) \in Nat
  OBVIOUS
<1>1. SUFFICES ASSUME Bad # {} PROVE FALSE
  OBVIOUS
<1>2. PICK p \in Bad : \A q \in Bad : p <= q
  <2>1. Bad \in SUBSET Nat
    BY <1>0
  <2> HIDE DEF Bad
  <2> QED
    BY <1>1, <2>1, LeastNumber
<1>3. p # 1
  <2>1. {q \in 1..(1 - 1) : text[q].kind = "static"} = {}
    OBVIOUS
  <2>2. HeaderBefore(text, 1) = 0
    BY <2>1 DEF HeaderBefore
  <2> QED
    BY <1>2, <2>2
<1>4. p \in 1..(Len(text) + 1) /\ p - 1 \in 1..Len(text) /\ ~ (p <= p - 1) /\ (p - 1) + 1 = p
      /\ p - 1 \in 1..(Len(text) + 1)
  BY <1>0, <1>2, <1>3
<1>5. Fine(p - 1)
  BY <1>2, <1>4
<1>6. /\ text[p - 1].kind = "static" => HeaderBefore(text, p) = p - 1
      /\ text[p - 1].kind # "static" => HeaderBefore(text, p) = HeaderBefore(text, p - 1)
  BY <1>4, HeaderNext
<1>7. CASE text[p - 1].kind = "static"
  BY <1>2, <1>4, <1>6, <1>7
<1>8. CASE text[p - 1].kind # "static"
  <2>1. HeaderBefore(text, p) = HeaderBefore(text, p - 1)
    BY <1>6, <1>8
  <2>2. 1..((p - 1) - 1) \subseteq 1..(p - 1)
    BY <1>4
  <2> QED
    BY <1>2, <1>5, <2>1, <2>2
<1> QED
  BY <1>7, <1>8

\* A line that is such an option is the last one so far; another one changes nothing.
LEMMA ValueNext ==
  ASSUME NEW text, NEW n \in Nat \ {0}, NEW i, NEW k, NEW f
  PROVE  /\ IsFor(text, n, i, k, f) => ValueOf(text, i, k, f, n) = text[n].val
         /\ ~ IsFor(text, n, i, k, f) => ValueOf(text, i, k, f, n) = ValueOf(text, i, k, f, n - 1)
<1> DEFINE S == PlacesOf(text, i, k, f, n)
<1>1. ASSUME IsFor(text, n, i, k, f) PROVE ValueOf(text, i, k, f, n) = text[n].val
  <2>1. n \in S /\ \A r \in S : r <= n /\ r \in Nat
    BY <1>1 DEF PlacesOf
  <2>2. \A q \in S : (\A r \in S : r <= q) <=> q = n
    BY <2>1
  <2> HIDE DEF S
  <2>3. (CHOOSE p \in S : \A q \in S : q <= p) = n /\ S # {}
    BY <2>1, <2>2
  <2> QED
    BY <2>3 DEF ValueOf, S
<1>2. ASSUME ~ IsFor(text, n, i, k, f)
      PROVE  ValueOf(text, i, k, f, n) = ValueOf(text, i, k, f, n - 1)
  <2>1. S = PlacesOf(text, i, k, f, n - 1)
    BY <1>2 DEF PlacesOf
  <2> QED
    BY <2>1 DEF ValueOf
<1> QED
  BY <1>1, <1>2

\* One line.
LEMMA MapNext ==
  ASSUME NEW text \in Seq(Line), NEW n \in 1..Len(text)
  PROVE  MapAfter(text, n) = ReadLine(MapAfter(text, n - 1), text[n])
<1> DEFINE line == text[n]
           old == MapAfter(text, n - 1)
           h == HeaderBefore(text, n)
<1>1. n \in Nat \ {0} /\ (n - 1) + 1 = n /\ n \in 1..(Len(text) + 1) /\ line \in Line
  OBVIOUS
<1>2. old.context = ContextAfter(text, n - 1) /\ old.options = OptionsAfter(text, n - 1)
      /\ old = [context |-> ContextAfter(text, n - 1), options |-> OptionsAfter(text, n - 1)]
  BY DEF MapAfter
<1>3. ContextAfter(text, n - 1) = IF h = 0 THEN NoContext ELSE [name |-> text[h].name, fam |-> text[h].fam]
  BY <1>1 DEF ContextAfter
<1>4. CASE line.kind = "static"
  <2>1. HeaderBefore(text, n + 1) = n
    BY <1>4, HeaderNext
  <2>2. ContextAfter(text, n) = [name |-> line.name, fam |-> line.fam]
    BY <1>1, <2>1 DEF ContextAfter
  <2>3. OptionsAfter(text, n) = OptionsAfter(text, n - 1)
    <3>1. \A i, k, f : ~ IsFor(text, n, i, k, f)
      BY <1>4 DEF IsFor
    <3>2. \A i, k, f : ValueOf(text, i, k, f, n) = ValueOf(text, i, k, f, n - 1)
      BY <1>1, <3>1, ValueNext
    <3> QED
      BY <3>2 DEF OptionsAfter
  <2>4. ReadLine(old, line) = [context |-> [name |-> line.name, fam |-> line.fam],
                               options |-> OptionsAfter(text, n - 1)]
    <3>1. ReadLine(old, line) = [old EXCEPT !.context = [name |-> line.name, fam |-> line.fam]]
      BY <1>4 DEF ReadLine
    <3> QED
      BY <1>2, <3>1
  <2> QED
    BY <2>2, <2>3, <2>4 DEF MapAfter
<1>5. CASE line.kind # "static"
  <2>1. HeaderBefore(text, n + 1) = h
    BY <1>5, HeaderNext
  <2>2. ContextAfter(text, n) = ContextAfter(text, n - 1)
    BY <1>1, <2>1 DEF ContextAfter
  <2>3. CASE line.kind = "option" /\ line.key \in Key /\ h # 0
    <3>1. /\ h \in 1..(n - 1) /\ text[h].kind = "static" /\ text[h] \in Line
      <4>1. h \in 1..(n - 1) /\ text[h].kind = "static"
        BY <1>1, <2>3, HeaderStatic
      <4>2. h \in 1..Len(text)
        BY <4>1
      <4> QED
        BY <4>1, <4>2
    <3>2. text[h] \in Static
      BY <3>1 DEF Line, Option, Other
    <3>3. text[h].name \in Iface /\ text[h].fam \in Family
          /\ text[h] = Header(text[h].name, text[h].fam)
      BY <3>2 DEF Static, Header
    <3> DEFINE name == text[h].name
               fam == text[h].fam
    <3>4. old.context = [name |-> name, fam |-> fam] /\ old.context # NoContext
      BY <1>2, <1>3, <2>3, <3>3 DEF NoContext, Family
    <3>5. ReadLine(old, line) = [old EXCEPT !.options[<<name, line.key, fam>>] = line.val]
      <4>1. old.context.name = name /\ old.context.fam = fam
        BY <3>4
      <4> HIDE DEF name, fam, h, line, old
      <4>2. ReadLine(old, line) =
                [old EXCEPT !.options[<<old.context.name, line.key, old.context.fam>>] = line.val]
        BY <1>5, <2>3, <3>4 DEF ReadLine
      <4> QED
        BY <4>1, <4>2
    <3>6. \A i, k, f : IsFor(text, n, i, k, f) <=> <<i, k, f>> = <<name, line.key, fam>>
      <4>1. \A i, f : text[h] = Header(i, f) <=> i = name /\ f = fam
        BY <3>3 DEF Header
      <4> QED
        BY <2>3, <4>1 DEF IsFor
    <3>7. OptionsAfter(text, n) = [OptionsAfter(text, n - 1) EXCEPT ![<<name, line.key, fam>>] = line.val]
      <4>1. ASSUME NEW o \in Iface \X Key \X Family
            PROVE  ValueOf(text, o[1], o[2], o[3], n) =
                       IF o = <<name, line.key, fam>> THEN line.val
                       ELSE ValueOf(text, o[1], o[2], o[3], n - 1)
        <5>1. o = <<o[1], o[2], o[3]>>
          OBVIOUS
        <5>2. IsFor(text, n, o[1], o[2], o[3]) <=> o = <<name, line.key, fam>>
          BY <3>6, <5>1
        <5> QED
          BY <1>1, <5>2, ValueNext
      <4>2. <<name, line.key, fam>> \in Iface \X Key \X Family
        BY <2>3, <3>3
      <4> HIDE DEF name, fam, line, h
      <4> QED
        BY <4>1, <4>2 DEF OptionsAfter
    <3>8. ReadLine(old, line) = [context |-> ContextAfter(text, n - 1),
                                 options |-> [OptionsAfter(text, n - 1) EXCEPT
                                                 ![<<name, line.key, fam>>] = line.val]]
      <4> HIDE DEF old, name, fam, line, h
      <4> QED
        BY <1>2, <3>5
    <3> QED
      BY <2>2, <3>7, <3>8 DEF MapAfter
  <2>4. CASE ~ (line.kind = "option" /\ line.key \in Key /\ h # 0)
    <3>1. ReadLine(old, line) = old
      <4>1. h = 0 => old.context = NoContext
        BY <1>2, <1>3
      <4> QED
        BY <1>5, <2>4, <4>1 DEF ReadLine
    <3>2. \A k \in Key : \A i, f : ~ IsFor(text, n, i, k, f)
      BY <2>4 DEF IsFor
    <3>3. OptionsAfter(text, n) = OptionsAfter(text, n - 1)
      <4>1. \A k \in Key : \A i, f : ValueOf(text, i, k, f, n) = ValueOf(text, i, k, f, n - 1)
        BY <1>1, <3>2, ValueNext
      <4> QED
        BY <4>1 DEF OptionsAfter
    <3> QED
      BY <2>2, <3>1, <3>3 DEF MapAfter
  <2> QED
    BY <2>3, <2>4
<1> QED
  BY <1>4, <1>5

\* What Parse makes of a text.
LEMMA ParseIsMap == ASSUME NEW text \in Inputs PROVE Parse[text] = MapAfter(text, Len(text))
<1>1. text \in Seq(Line) /\ Len(text) \in Nat
  BY InputAssumption
<1>2. PICK m : Reads(m, text) /\ Parse[text] = m[Len(text)]
  BY ParseSteps
<1> DEFINE Bad == {k \in 0..Len(text) : m[k] # MapAfter(text, k)}
<1>3. Bad = {}
  <2> SUFFICES ASSUME Bad # {} PROVE FALSE
    OBVIOUS
  <2>1. PICK k \in Bad : \A l \in Bad : k <= l
    <3>1. Bad \in SUBSET Nat
      BY <1>1
    <3> HIDE DEF Bad
    <3> QED
      BY <3>1, LeastNumber
  <2>2. k # 0
    <3>1. HeaderBefore(text, 0 + 1) = 0
      <4>1. {q \in 1..(1 - 1) : text[q].kind = "static"} = {} /\ 0 + 1 = 1
        OBVIOUS
      <4> QED
        BY <4>1 DEF HeaderBefore
    <3>2. \A i, j, f : PlacesOf(text, i, j, f, 0) = {}
      BY DEF PlacesOf
    <3>3. MapAfter(text, 0) = Nothing
      BY <3>1, <3>2 DEF MapAfter, ContextAfter, OptionsAfter, ValueOf, Nothing
    <3> QED
      BY <1>2, <2>1, <3>3 DEF Reads
  <2>3. k \in 1..Len(text) /\ k - 1 \in 0..Len(text) /\ ~ (k <= k - 1)
    BY <1>1, <2>1, <2>2
  <2>4. m[k - 1] = MapAfter(text, k - 1)
    BY <2>1, <2>3
  <2>5. m[k] = ReadLine(MapAfter(text, k - 1), text[k])
    BY <1>2, <2>3, <2>4 DEF Reads
  <2>6. m[k] = MapAfter(text, k)
    BY <1>1, <2>3, <2>5, MapNext
  <2> QED
    BY <2>1, <2>6
<1>4. m[Len(text)] = MapAfter(text, Len(text))
  BY <1>1, <1>3
<1> QED
  BY <1>2, <1>4

\* The value of an option after all lines is that of the last place.
LEMMA OptionsRead ==
  ASSUME NEW text \in Inputs, NEW i \in Iface, NEW k \in Key, NEW f \in Family
  PROVE  Parse[text].options[<<i, k, f>>] = ValueOf(text, i, k, f, Len(text))
<1>1. Parse[text] = MapAfter(text, Len(text))
  BY ParseIsMap
<1>2. MapAfter(text, Len(text)).options = OptionsAfter(text, Len(text))
  BY DEF MapAfter
<1>3. <<i, k, f>> \in Iface \X Key \X Family
  OBVIOUS
<1>4. OptionsAfter(text, Len(text))[<<i, k, f>>] = ValueOf(text, i, k, f, Len(text))
  BY <1>3 DEF OptionsAfter
<1> QED
  BY <1>1, <1>2, <1>4, Zenon

\* The header of a line's stanza is the last line before it that is no option.
LEMMA StanzaLine ==
  ASSUME NEW text \in Seq(Line), NEW p \in 1..Len(text), NEW g, g = StanzaOf(text, p)
  PROVE  /\ \A q \in 1..(p - 1) : text[q].kind # "option" => q <= g
         /\ g = 0 \/ (g \in 1..(p - 1) /\ text[g].kind \in {"static", "other"})
<1> DEFINE S == {q \in 1..(p - 1) : text[q].kind # "option"}
           last == CHOOSE q \in S : \A r \in S : r <= q
<1>1. p - 1 \in Nat /\ S \in SUBSET (1..(p - 1)) /\ \A q \in 1..(p - 1) : q \in 1..Len(text)
  OBVIOUS
<1>2. g = IF S = {} THEN 0 ELSE last
  BY DEF StanzaOf
<1>3. S # {} => last \in S /\ \A r \in S : r <= last
  <2> HIDE DEF S
  <2> QED
    BY <1>1, LastPlace
<1>4. \A q \in 1..Len(text) : text[q].kind # "option" => text[q].kind \in {"static", "other"}
  <2>1. \A q \in 1..Len(text) : text[q] \in Line
    OBVIOUS
  <2>2. \A l \in Line : l.kind \in {"static", "option", "other"}
    BY DEF Line, Static, Option, Other
  <2> QED
    BY <2>1, <2>2
<1>5. CASE S = {}
  BY <1>2, <1>5
<1>6. CASE S # {}
  <2>1. g \in S /\ \A r \in S : r <= g
    BY <1>2, <1>3, <1>6
  <2> HIDE DEF last
  <2> QED
    BY <1>1, <1>4, <2>1
<1> QED
  BY <1>5, <1>6

\* And the static header is the last static line before it.
LEMMA HeaderLine ==
  ASSUME NEW text \in Seq(Line), NEW p \in 1..Len(text), NEW h, h = HeaderBefore(text, p)
  PROVE  /\ \A q \in 1..(p - 1) : text[q].kind = "static" => q <= h
         /\ h = 0 \/ (h \in 1..(p - 1) /\ text[h].kind = "static")
<1> DEFINE S == {q \in 1..(p - 1) : text[q].kind = "static"}
           last == CHOOSE q \in S : \A r \in S : r <= q
<1>1. p - 1 \in Nat /\ S \in SUBSET (1..(p - 1))
  OBVIOUS
<1>2. h = IF S = {} THEN 0 ELSE last
  BY DEF HeaderBefore
<1>3. S # {} => last \in S /\ \A r \in S : r <= last
  <2> HIDE DEF S
  <2> QED
    BY <1>1, LastPlace
<1>4. CASE S = {}
  BY <1>2, <1>4
<1>5. CASE S # {}
  <2>1. h \in S /\ \A r \in S : r <= h
    BY <1>2, <1>3, <1>5
  <2> HIDE DEF last
  <2> QED
    BY <1>1, <2>1
<1> QED
  BY <1>4, <1>5

\* An option that counts for a static header is in its stanza, or in one of another kind.
LEMMA OwnOrStray ==
  ASSUME NEW text \in Seq(Line), NEW p \in 1..Len(text), NEW i, NEW f
  PROVE  /\ Under(text, StanzaOf(text, p), i, f) => Under(text, HeaderBefore(text, p), i, f)
         /\ Under(text, HeaderBefore(text, p), i, f) =>
               \/ Under(text, StanzaOf(text, p), i, f)
               \/ text[StanzaOf(text, p)].kind = "other"
<1> DEFINE g == StanzaOf(text, p)
           h == HeaderBefore(text, p)
<1>1. /\ \A q \in 1..(p - 1) : text[q].kind # "option" => q <= g
      /\ g = 0 \/ (g \in 1..(p - 1) /\ text[g].kind \in {"static", "other"})
  BY StanzaLine
<1>2. /\ \A q \in 1..(p - 1) : text[q].kind = "static" => q <= h
      /\ h = 0 \/ (h \in 1..(p - 1) /\ text[h].kind = "static")
  BY HeaderLine
<1> HIDE DEF g, h
<1>3. ASSUME g # 0, text[g].kind = "static" PROVE g = h
  <2>1. g \in 1..(p - 1) /\ g <= h
    BY <1>1, <1>2, <1>3
  <2>2. h \in 1..(p - 1) /\ text[h].kind # "option"
    BY <1>2, <2>1
  <2>3. h <= g
    BY <1>1, <2>2
  <2> QED
    BY <2>1, <2>2, <2>3
<1>4. ASSUME h # 0 PROVE g # 0
  <2>1. h \in 1..(p - 1) /\ text[h].kind # "option"
    BY <1>2, <1>4
  <2>2. h <= g
    BY <1>1, <2>1
  <2> QED
    BY <2>1, <2>2
<1>5. Under(text, g, i, f) => g # 0 /\ text[g].kind = "static"
  BY DEF Under
<1>6. Under(text, h, i, f) => h # 0
  BY DEF Under
<1>7. Under(text, h, i, f) => Under(text, g, i, f) \/ text[g].kind = "other"
  BY <1>1, <1>3, <1>4, <1>6
<1>8. Under(text, g, i, f) => Under(text, h, i, f)
  BY <1>3, <1>5
<1> QED
  BY <1>7, <1>8 DEF g, h

\* So what is read is what the property says.
LEMMA StanzasRead == input \in Inputs \cup {Missing} => OptionsOfOwnStanza
<1> SUFFICES ASSUME input \in Inputs, NEW i \in Iface, NEW k \in Key, NEW f \in Family
             PROVE  LET value == Parse[input].options[<<i, k, f>>]
                        given == {p \in DOMAIN input : input[p].kind = "option" /\ input[p].key = k}
                        own == {p \in given : Under(input, StanzaOf(input, p), i, f)}
                        stray == {p \in given : /\ Under(input, HeaderBefore(input, p), i, f)
                                                /\ input[StanzaOf(input, p)].kind = "other"}
                    IN  \/ own = {} /\ value = NoValue
                        \/ \E p \in own : (\A q \in own : q <= p) /\ value = input[p].val
                        \/ \E p \in stray : (\A q \in own : q < p) /\ value = input[p].val
  BY DEF OptionsOfOwnStanza
<1> DEFINE n == Len(input)
           value == Parse[input].options[<<i, k, f>>]
           given == {p \in DOMAIN input : input[p].kind = "option" /\ input[p].key = k}
           own == {p \in given : Under(input, StanzaOf(input, p), i, f)}
           stray == {p \in given : /\ Under(input, HeaderBefore(input, p), i, f)
                                   /\ input[StanzaOf(input, p)].kind = "other"}
           S == PlacesOf(input, i, k, f, n)
           last == CHOOSE p \in S : \A q \in S : q <= p
<1> SUFFICES \/ own = {} /\ value = NoValue
             \/ \E p \in own : (\A q \in own : q <= p) /\ value = input[p].val
             \/ \E p \in stray : (\A q \in own : q < p) /\ value = input[p].val
  BY Zenon
<1>1. input \in Seq(Line) /\ DOMAIN input = 1..n /\ n \in Nat
  BY InputAssumption
<1>2. S = {p \in given : Under(input, HeaderBefore(input, p), i, f)}
  BY <1>1 DEF PlacesOf, IsFor, Header, Under
<1>3. S = own \cup stray
  <2> SUFFICES ASSUME NEW p \in given
               PROVE  Under(input, HeaderBefore(input, p), i, f) <=>
                         \/ Under(input, StanzaOf(input, p), i, f)
                         \/ /\ Under(input, HeaderBefore(input, p), i, f)
                            /\ input[StanzaOf(input, p)].kind = "other"
    BY <1>2
  <2>1. p \in 1..n
    BY <1>1
  <2> QED
    BY <1>1, <2>1, OwnOrStray
<1>4. value = IF S = {} THEN NoValue ELSE input[last].val
  BY OptionsRead DEF ValueOf
<1>5. S \in SUBSET (1..n)
  BY DEF PlacesOf
<1>6. S # {} => last \in S /\ \A q \in S : q <= last
  <2> HIDE DEF S, n
  <2> QED
    BY <1>1, <1>5, LastPlace
<1> HIDE DEF S, last, own, stray, value, n
<1>7. CASE S = {}
  BY <1>3, <1>4, <1>7
<1>8. CASE S # {} /\ last \in own
  BY <1>3, <1>4, <1>6, <1>8
<1>9. CASE S # {} /\ last \notin own
  <2>1. last \in stray /\ value = input[last].val /\ \A q \in own : q <= last /\ q # last
    BY <1>3, <1>4, <1>6, <1>9
  <2>2. \A q \in own : q < last
    BY <1>3, <1>5, <1>6, <1>9, <2>1
  <2> QED
    BY <2>1, <2>2
<1> QED
  BY <1>7, <1>8, <1>9

-----------------------------------------------------------------------------
(* The theorems                                                            *)

\* The invariant holds throughout.
THEOREM Invariance == Spec => []IInv
<1>1. IInv /\ [Next]_vars => IInv'
  BY StepTInv, StepRemains, StepProgress, StepMatches, StepOpened, StepApplied, StepEmpty DEF IInv
<1> QED
  BY InitInvariant, <1>1, PTL DEF Spec

\* When a run of the program says that the configuration is in place, its files
\* are exactly those that the input asks for, unless a run was cut off before.
THEOREM AppliedInPlace == Spec => []AppliedWhenDone
<1>1. IInv => AppliedWhenDone
  BY DEF IInv
<1> QED
  BY Invariance, <1>1, PTL

\* There are never more empty files than crashes, but for the one being written.
THEOREM EmptyExplained == Spec => []EmptyFilesExplained
<1>1. IInv => EmptyFilesExplained
  BY DEF IInv
<1> QED
  BY Invariance, <1>1, PTL

\* For every text: an interface gets the last value that its own stanzas give an option,
\* or a later one of a stanza of another kind that follows one of them.
THEOREM OptionsByStanza == Spec => []OptionsOfOwnStanza
<1>1. IInv => OptionsOfOwnStanza
  BY StanzasRead DEF IInv, TInv
<1> QED
  BY Invariance, <1>1, PTL
=============================================================================
