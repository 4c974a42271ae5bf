--------------------------- MODULE DiskPlanProofs ---------------------------
(****************************************************************************)
(* What the plan of a job and the registers of DJ are, for every document:  *)
(* lemmas that DiskJobProofs builds on.                                     *)
(*                                                                          *)
(* A plan opens the devices that the volume group is on, then makes the     *)
(* volume group, then the root filesystem, and only then mounts anything    *)
(* else (PlanShape).  __exit__ visits each registered resource once, in the *)
(* order of their kinds (ClosingOrder).  Unless two mounts of a job have    *)
(* one key, it mounts nothing where it has something mounted (PlanParted).  *)
(* Before it unpacks it has mounted the volumes of its config, for good and *)
(* in their order (PlanOrdered), and what the document asks for is among    *)
(* them (AskedContained).                                                   *)
(****************************************************************************)
EXTENDS DiskJob, TLAPS, FiniteSetTheorems, SequenceTheorems, WellFoundedInduction

-----------------------------------------------------------------------------
(* Sequences.                                                              *)

\* Where the elements of two sequences are in their concatenation.
Parts(w, s, t) ==
    /\ Len(s) \in Nat /\ Len(t) \in Nat /\ Len(w) = Len(s) + Len(t)
    /\ \A i \in 1..Len(s) : w[i] = s[i] /\ i \in 1..Len(w)
    /\ \A i \in 1..Len(t) : w[Len(s) + i] = t[i] /\ Len(s) + i \in 1..Len(w)
    /\ \A i \in 1..Len(w) : i \notin 1..Len(s) => i - Len(s) \in 1..Len(t)

\* The elements of a concatenation are those of its parts, in their places.
LEMMA ConcatParts ==
  ASSUME NEW S, NEW s \in Seq(S), NEW t \in Seq(S)
  PROVE  s \o t \in Seq(S) /\ Parts(s \o t, s, t)
  <1>1. Len(s) \in Nat /\ Len(t) \in Nat
    OBVIOUS
  <1>2. /\ s \o t \in Seq(S) /\ Len(s \o t) = Len(s) + Len(t)
        /\ \A i \in 1..Len(s) + Len(t) :
              (s \o t)[i] = IF i <= Len(s) THEN s[i] ELSE t[i - Len(s)]
    BY ConcatProperties
  <1>3. \A i \in 1..Len(s) : i \in 1..Len(s) + Len(t) /\ i <= Len(s)
    BY <1>1
  <1>4. \A i \in 1..Len(t) : /\ Len(s) + i \in 1..Len(s) + Len(t) /\ ~ (Len(s) + i <= Len(s))
                             /\ Len(s) + i - Len(s) = i
    BY <1>1
  <1>5. \A i \in 1..(Len(s) + Len(t)) : i \notin 1..Len(s) => i - Len(s) \in 1..Len(t)
    BY <1>1
  <1> QED
    BY <1>1, <1>2, <1>3, <1>4, <1>5 DEF Parts

\* A set of natural numbers that is not empty has a least element.
LEMMA LeastNumber ==
  ASSUME NEW S \in SUBSET Nat, S # {}
  PROVE  \E i \in S : \A k \in S : i <= k
  <1> DEFINE R == OpToRel(<, Nat)
  <1>1. PICK i \in S : ~ \E y \in S : <<y, i>> \in R
    BY NatLessThanWellFounded, WFMin
  <1>2. \A k \in S : ~ (k < i)
    BY <1>1 DEF OpToRel
  <1> QED
    BY <1>2

\* What FlattenSeq computes, up to the n-th sequence.
FlatUpTo(f, ss, n) ==
    f = [i \in 1..n |-> IF i = 1 THEN ss[i] ELSE f[i - 1] \o ss[i]]

\* The recursion of FlattenSeq is well-defined.
LEMMA FlattenDefined ==
  ASSUME NEW S, NEW ss \in Seq(Seq(S)), ss # <<>>
  PROVE  \E f : FlatUpTo(f, ss, Len(ss)) /\ FlattenSeq(ss) = f[Len(ss)]
  <1> DEFINE Undefined == {n \in Nat : ~ \E f : FlatUpTo(f, ss, n)}
  <1>1. Undefined = {}
    <2> SUFFICES ASSUME Undefined # {} PROVE FALSE
      OBVIOUS
    <2>1. PICK n \in Undefined : \A k \in Undefined : n <= k
      BY LeastNumber
    <2>2. n # 0
      <3>1. FlatUpTo([i \in 1..0 |-> <<>>], ss, 0)
        BY DEF FlatUpTo
      <3> QED
        BY <3>1, <2>1
    <2>3. n \in Nat
      OBVIOUS
    <2>4. n - 1 \in Nat /\ ~ (n <= n - 1)
      BY <2>2, <2>3
    <2>5. n - 1 \notin Undefined
      BY <2>1, <2>4
    <2>6. PICK f : FlatUpTo(f, ss, n - 1)
      BY <2>4, <2>5
    <2> DEFINE g == [i \in 1..n |-> IF i = n THEN (IF n = 1 THEN ss[n] ELSE f[n - 1] \o ss[n])
                                             ELSE f[i]]
    <2>7. \A i \in 1..n : g[i] = IF i = 1 THEN ss[i] ELSE g[i - 1] \o ss[i]
      <3> TAKE i \in 1..n
      <3>1. CASE i = n
        <4>1. n # 1 => g[n - 1] = f[n - 1]
          BY <2>2, <2>3
        <4> QED
          BY <3>1, <4>1
      <3>2. CASE i # n
        <4>1. i \in 1..(n - 1) /\ g[i] = f[i]
          BY <3>2, <2>3
        <4>2. f[i] = IF i = 1 THEN ss[i] ELSE f[i - 1] \o ss[i]
          BY <4>1, <2>6 DEF FlatUpTo
        <4>3. i # 1 => g[i - 1] = f[i - 1]
          BY <4>1, <2>3
        <4> QED
          BY <4>1, <4>2, <4>3
      <3> QED
        BY <3>1, <3>2
    <2>8. FlatUpTo(g, ss, n)
      BY <2>7, Zenon DEF FlatUpTo
    <2> QED
      BY <2>8, <2>1
  <1> DEFINE h == CHOOSE f : f = [i \in 1..Len(ss) |-> IF i = 1 THEN ss[i] ELSE f[i - 1] \o ss[i]]
  <1>2. Len(ss) \in Nat /\ Len(ss) # 0
    OBVIOUS
  <1>3. \E f : f = [i \in 1..Len(ss) |-> IF i = 1 THEN ss[i] ELSE f[i - 1] \o ss[i]]
    BY <1>1, <1>2 DEF FlatUpTo
  <1>4. h = [i \in 1..Len(ss) |-> IF i = 1 THEN ss[i] ELSE h[i - 1] \o ss[i]]
    BY <1>3
  <1>5. FlattenSeq(ss) = h[Len(ss)]
    BY <1>2 DEF FlattenSeq
  <1> HIDE DEF h
  <1> QED
    BY <1>4, <1>5 DEF FlatUpTo

Piece(t, s, o) == /\ o + Len(s) <= Len(t)
                  /\ \A p \in 1..Len(s) : t[o + p] = s[p]

\* Each element of the flattened sequence is one of a sequence in it; the pieces
\* stand there undivided.
LEMMA FlattenPieces ==
  ASSUME NEW S, NEW ss \in Seq(Seq(S))
  PROVE  /\ FlattenSeq(ss) \in Seq(S)
         /\ \A q \in 1..Len(FlattenSeq(ss)) :
               \E i \in 1..Len(ss), o \in Nat :
                  q - o \in 1..Len(ss[i]) /\ Piece(FlattenSeq(ss), ss[i], o)
  <1>1. CASE ss = <<>>
    BY <1>1 DEF FlattenSeq
  <1>2. CASE ss # <<>>
    <2>1. PICK f : FlatUpTo(f, ss, Len(ss)) /\ FlattenSeq(ss) = f[Len(ss)]
      BY <1>2, FlattenDefined
    <2> DEFINE Fine(n) == /\ f[n] \in Seq(S)
                          /\ \A q \in 1..Len(f[n]) :
                                \E i \in 1..n, o \in Nat :
                                   q - o \in 1..Len(ss[i]) /\ Piece(f[n], ss[i], o)
    <2> DEFINE Bad == {n \in 1..Len(ss) : ~ Fine(n)}
    <2>2. Len(ss) \in Nat \ {0} /\ Bad \in SUBSET Nat
      BY <1>2
    <2>3. f = [i \in 1..Len(ss) |-> IF i = 1 THEN ss[i] ELSE f[i - 1] \o ss[i]]
      BY <2>1 DEF FlatUpTo
    <2>4. Bad = {}
      <3> SUFFICES ASSUME Bad # {} PROVE FALSE
        OBVIOUS
      <3>1. PICK n \in Bad : \A k \in Bad : n <= k
        BY <2>2, LeastNumber
      <3>2. n \in 1..Len(ss) /\ ~ Fine(n)
        OBVIOUS
      <3>3. ss[n] \in Seq(S) /\ Len(ss[n]) \in Nat
        BY <3>2
      <3>4. CASE n = 1
        <4>1. f[n] = ss[n]
          BY <3>2, <3>4, <2>3
        <4>2. \A q \in 1..Len(f[n]) : q - 0 \in 1..Len(ss[n]) /\ Piece(f[n], ss[n], 0)
          BY <3>3, <4>1 DEF Piece
        <4>3. Fine(n)
          BY <3>2, <3>3, <4>1, <4>2
        <4> QED
          BY <3>2, <4>3
      <3>5. CASE n # 1
        <4>1. n - 1 \in 1..Len(ss) /\ ~ (n <= n - 1)
          BY <3>2, <3>5
        <4>2. Fine(n - 1)
          BY <3>1, <4>1
        <4> DEFINE t == f[n - 1]
        <4>3. f[n] = t \o ss[n] /\ t \in Seq(S) /\ Len(t) \in Nat
          <5>1. f[n] = f[n - 1] \o ss[n]
            BY <2>3, <3>2, <3>5
          <5>2. f[n - 1] \in Seq(S)
            BY <4>2
          <5> QED
            BY <5>1, <5>2
        <4> HIDE DEF t
        <4>4. /\ f[n] \in Seq(S) /\ Len(f[n]) = Len(t) + Len(ss[n])
              /\ \A q \in 1..Len(t) : f[n][q] = t[q]
              /\ \A q \in 1..Len(ss[n]) : f[n][Len(t) + q] = ss[n][q]
          BY <3>3, <4>3
        <4>5. Piece(f[n], ss[n], Len(t))
          BY <3>3, <4>3, <4>4 DEF Piece
        <4>6. ASSUME NEW q \in 1..Len(f[n])
              PROVE  \E i \in 1..n, o \in Nat :
                        q - o \in 1..Len(ss[i]) /\ Piece(f[n], ss[i], o)
          <5>1. CASE q <= Len(t)
            <6>1. q \in 1..Len(t)
              BY <4>3, <4>4, <5>1
            <6>2. PICK i \in 1..(n - 1), o \in Nat :
                          q - o \in 1..Len(ss[i]) /\ Piece(t, ss[i], o)
              BY <4>2, <6>1 DEF t
            <6>3. ss[i] \in Seq(S) /\ Len(ss[i]) \in Nat /\ i \in 1..n
              BY <3>2
            <6>4. Piece(f[n], ss[i], o)
              <7>1. o + Len(ss[i]) <= Len(f[n])
                BY <6>2, <6>3, <4>3, <4>4, <3>3, SMTT(40) DEF Piece
              <7>2. ASSUME NEW p \in 1..Len(ss[i]) PROVE f[n][o + p] = ss[i][p]
                <8>0. o + Len(ss[i]) <= Len(t)
                  BY <6>2 DEF Piece
                <8>1. o + p \in 1..Len(t)
                  BY <8>0, <6>3, <4>3
                <8> QED
                  BY <8>1, <6>2, <4>4 DEF Piece
              <7> QED
                BY <7>1, <7>2 DEF Piece
            <6> QED
              BY <6>2, <6>3, <6>4
          <5>2. CASE q > Len(t)
            <6>1. q - Len(t) \in 1..Len(ss[n]) /\ n \in 1..n
              BY <3>2, <3>3, <4>3, <4>4, <5>2
            <6> QED
              BY <6>1, <4>3, <4>5
          <5> QED
            BY <5>1, <5>2, <4>3
        <4> QED
          BY <3>2, <4>4, <4>6
      <3> QED
        BY <3>4, <3>5
    <2>5. Fine(Len(ss))
      BY <2>2, <2>4
    <2> QED
      BY <2>1, <2>2, <2>5
  <1> QED
    BY <1>1, <1>2

\* A single sequence is flattened to itself.
LEMMA FlattenOne ==
  ASSUME NEW S, NEW s \in Seq(S)
  PROVE  FlattenSeq(<<s>>) = s
  <1>1. <<s>> \in Seq(Seq(S)) /\ <<s>> # <<>> /\ Len(<<s>>) = 1 /\ <<s>>[1] = s
    OBVIOUS
  <1>2. PICK f : FlatUpTo(f, <<s>>, Len(<<s>>)) /\ FlattenSeq(<<s>>) = f[Len(<<s>>)]
    BY <1>1, FlattenDefined
  <1>3. f = [i \in 1..1 |-> IF i = 1 THEN <<s>>[i] ELSE f[i - 1] \o <<s>>[i]]
    BY <1>1, <1>2 DEF FlatUpTo
  <1>4. f[1] = s
    BY <1>3, <1>1
  <1> QED
    BY <1>1, <1>2, <1>4

-----------------------------------------------------------------------------
(* What a document that is accepted asks for.                              *)

FsType == {"ext4", "btrfs", "vfat", "swap", "none"}

\* A volume: its filesystem and where it is mounted.
AnyVolume == [fstype : FsType, dir : Dir \cup {NoDir}]

\* The volumes but the root filesystem.
OtherVolume == [fstype : FsType, dir : (Dir \ {"/"}) \cup {NoDir}]

\* An entry of a document that is accepted has a type, and it is mounted at "/" if and
\* only if it is the root filesystem.
LEMMA EntryDir ==
  ASSUME NEW d \in Doc, NEW i \in DOMAIN d.volumes, Accepted(d)
  PROVE  /\ VolumeAt(d, i).fstype \in FsType
         /\ VolumeAt(d, i).dir \in Dir \cup {NoDir}
         /\ VolumeAt(d, i).dir = "/" <=> d.volumes[i].name = "root"
  <1>1. d.volumes \in Seq(Entry) /\ d.volumes[i] \in Entry /\ ValidEntry(d.volumes[i])
    BY DEF Doc, Accepted
  <1>2. DOMAIN DefaultDir = {"boot", "esp", "root", "swap", "log", "apt"}
    BY DEF DefaultDir
  <1>3. \A n \in DOMAIN DefaultDir : DefaultDir[n] \in Dir \cup {NoDir}
    BY DirAssumption DEF Range
  <1>4. MntDir(d.volumes[i]) \in Dir \cup {NoDir}
    BY <1>1, <1>3 DEF MntDir, Entry
  <1> QED
    BY <1>1, <1>4 DEF VolumeAt, ValidEntry, Entry, FsType

\* The partitions are volumes that are not mounted at "/".
LEMMA NamedVolumes ==
  ASSUME NEW d \in Doc, Accepted(d), NEW name, name # "root", NEW lv \in BOOLEAN
  PROVE  Named(d, name, lv) \in Seq(OtherVolume)
  <1> DEFINE places == Places(d, name, lv)
             k == CHOOSE k \in places : TRUE
  <1>1. d.volumes \in Seq(Entry) /\ DOMAIN d.volumes = 1..Len(d.volumes) /\ Len(d.volumes) \in Nat
    BY DEF Doc
  <1>2. places \subseteq 1..Len(d.volumes)
    BY <1>1 DEF Places
  <1>3. IsFiniteSet(places)
    <2>1. IsFiniteSet(1..Len(d.volumes))
      BY <1>1, FS_Interval, 1 \in Int, Len(d.volumes) \in Int
    <2> QED
      BY <2>1, <1>2, FS_Subset
  <1>4. Cardinality(places) \in Nat
    BY <1>3, FS_CardinalityType
  <1>5. ASSUME NEW i \in 1..Cardinality(places) PROVE VolumeAt(d, k) \in OtherVolume
    <2>1. places # {}
      BY <1>3, <1>4, <1>5, FS_EmptySet
    <2>2. k \in places
      BY <2>1
    <2>3. k \in DOMAIN d.volumes /\ d.volumes[k].name # "root"
      BY <2>2 DEF Places
    <2>4. VolumeAt(d, k).dir # "/" /\ VolumeAt(d, k).fstype \in FsType
          /\ VolumeAt(d, k).dir \in Dir \cup {NoDir}
      BY <2>3, EntryDir
    <2> QED
      BY <2>4 DEF VolumeAt, OtherVolume
  <1> HIDE DEF k, places
  <1>6. [i \in 1..Cardinality(places) |-> VolumeAt(d, k)] \in Seq(OtherVolume)
    BY <1>4, <1>5
  <1> QED
    BY <1>6 DEF Named, k, places

\* So are the volumes of the volume group but the root filesystem.
LEMMA ExtraTyped ==
  ASSUME NEW d \in Doc, Accepted(d)
  PROVE  Extra(d) \in Seq(OtherVolume)
  <1>1. d.volumes \in Seq(Entry) /\ DOMAIN d.volumes = 1..Len(d.volumes) /\ Len(d.volumes) \in Nat
    BY DEF Doc
  <1> DEFINE ss == [i \in DOMAIN d.volumes |->
                       IF IsExtra(d, i) THEN <<VolumeAt(d, i)>> ELSE <<>>]
  <1>2. ASSUME NEW i \in 1..Len(d.volumes)
        PROVE  (IF IsExtra(d, i) THEN <<VolumeAt(d, i)>> ELSE <<>>) \in Seq(OtherVolume)
    <2>1. CASE IsExtra(d, i)
      <3>1. VolumeAt(d, i).fstype \in FsType /\ VolumeAt(d, i).dir \in (Dir \ {"/"}) \cup {NoDir}
        BY <1>1, <2>1, EntryDir DEF IsExtra
      <3>2. VolumeAt(d, i) \in OtherVolume
        BY <3>1 DEF VolumeAt, OtherVolume
      <3> QED
        BY <2>1, <3>2
    <2>2. CASE ~ IsExtra(d, i)
      BY <2>2
    <2> QED
      BY <2>1, <2>2
  <1>3. ss \in Seq(Seq(OtherVolume))
    BY <1>1, <1>2
  <1> QED
    BY <1>3, FlattenPieces DEF Extra

\* There is one root filesystem, which is mounted at "/".
LEMMA RootVolume ==
  ASSUME NEW d \in Doc, Accepted(d)
  PROVE  \E v \in AnyVolume : /\ Parse(d).root = <<v>>
                              /\ v.fstype \in FsType \ {"swap"} /\ v.dir = "/"
  <1> DEFINE places == Places(d, "root", TRUE)
  <1>1. d.volumes \in Seq(Entry) /\ DOMAIN d.volumes = 1..Len(d.volumes) /\ Len(d.volumes) \in Nat
    BY DEF Doc
  <1>2. PICK k : k \in places
    BY DEF Accepted
  <1>3. /\ k \in 1..Len(d.volumes) /\ d.volumes[k].name = "root" /\ IsLv(d.volumes[k])
        /\ IsLast(d, k)
    BY <1>1, <1>2 DEF Places, Counts
  <1>4. ASSUME NEW i \in places PROVE i = k
    <2>1. /\ i \in 1..Len(d.volumes) /\ d.volumes[i].name = "root" /\ IsLv(d.volumes[i])
          /\ IsLast(d, i)
      BY <1>1, <1>4 DEF Places, Counts
    <2>2. SameKey(d.volumes[i], d.volumes[k]) /\ SameKey(d.volumes[k], d.volumes[i])
      BY <1>3, <2>1 DEF SameKey, IsLv
    <2> QED
      BY <1>1, <1>3, <2>1, <2>2 DEF IsLast
  <1>5. places = {k}
    BY <1>2, <1>4
  <1>6. Cardinality(places) = 1 /\ (CHOOSE i \in places : TRUE) = k
    BY <1>5, FS_Singleton
  <1> HIDE DEF places
  <1>7. Named(d, "root", TRUE) = [i \in 1..1 |-> VolumeAt(d, k)]
    <2> DEFINE any == CHOOSE i \in Places(d, "root", TRUE) : TRUE
    <2>1. Cardinality(Places(d, "root", TRUE)) = 1 /\ any = k
      BY <1>6 DEF places
    <2>2. Named(d, "root", TRUE) = [i \in 1..Cardinality(Places(d, "root", TRUE)) |->
                                       VolumeAt(d, any)]
      BY DEF Named
    <2> HIDE DEF any
    <2> QED
      BY <2>1, <2>2
  <1>8. Parse(d).root = <<VolumeAt(d, k)>>
    <2>1. Parse(d).root = Named(d, "root", TRUE)
      BY DEF Parse
    <2>2. \A x : [i \in 1..1 |-> x] = <<x>>
      OBVIOUS
    <2> QED
      BY <1>7, <2>1, <2>2
  <1>9. VolumeAt(d, k).fstype \in FsType \ {"swap"} /\ VolumeAt(d, k).dir = "/"
    BY <1>1, <1>3, EntryDir DEF IsLv, VolumeAt
  <1>10. VolumeAt(d, k) \in AnyVolume
    BY <1>1, <1>3, EntryDir DEF VolumeAt, AnyVolume
  <1> QED
    BY <1>8, <1>9, <1>10

-----------------------------------------------------------------------------
(* The plan of a job.                                                      *)

\* The commands before the volume group is made.
Before(c, j) == PartitionImage
                  \o Cmd("open", Loop(j), NoId)
                  \o When(c.bootRaid, Cmd("create", Array("boot"), Loop(j)))
                  \o OpenRootPv(c, j)
                  \o Cmd("run", NoId, RootPv(c, j))

Start(c, j) == Len(Before(c, j))

Btrfs(c) == c.root[1].fstype = "btrfs"

\* Where the root filesystem is mounted for good.
Rooted(c, j) == IF Btrfs(c) THEN Start(c, j) + 8 ELSE Start(c, j) + 5

Op == {"run", "open", "create", "vgcreate", "vgchange", "lvcreate", "refuse", "mount", "umount", "unpack"}

Command == [op : Op, id : Id \cup {NoId}, on : Id \cup {NoId}]

\* What comes before the volume group.
Early(c, j) ==
    {s \in Command :
        \/ s.op = "run" /\ s.id = NoId
        \/ s.op = "open" /\ s.id = Loop(j) /\ s.on = NoId
        \/ s.op = "create" /\ s.id = Array("boot") /\ s.on = Loop(j) /\ c.bootRaid
        \/ s.op = "create" /\ s.id = Array("root") /\ s.on = Loop(j) /\ c.rootRaid
        \/ s.op = "open" /\ s.id = Crypt /\ s.on = RaidDev(c, j)}

\* What comes after the root filesystem.
Late(c, j) ==
    {s \in Command :
        \/ s.op = "lvcreate" /\ s.id = RootVg
        \/ s.op \in {"run", "refuse", "unpack"} /\ s.id = NoId
        \/ /\ s.op \in {"mount", "umount"}
           /\ \E d \in Dir \ {"/"} : s.id = MountAt(d)
           /\ s.on \in {NoId, RootVg, BootDev(c, j), Loop(j)}}

\* What the commands name is a resource.
LEMMA Kinds ==
  /\ \A j \in Job : Loop(j) \in Id
  /\ {Array("boot"), Array("root"), Crypt, RootVg} \subseteq Id
  /\ \A d \in Dir : MountAt(d) \in Id
  BY DEF Id

\* What the partitions and the volume group can be on.
LEMMA DeviceChoices ==
  ASSUME NEW j \in Job, NEW c
  PROVE  /\ BootDev(c, j) \in {Array("boot"), Loop(j)}
         /\ RaidDev(c, j) \in {Array("root"), Loop(j)}
         /\ RootPv(c, j) \in {Crypt, Array("root"), Loop(j)}
  <1>1. BootDev(c, j) \in {Array("boot"), Loop(j)}
    BY Zenon DEF BootDev
  <1>2. RaidDev(c, j) \in {Array("root"), Loop(j)}
    BY Zenon DEF RaidDev
  <1>3. RootPv(c, j) \in {Crypt, Array("root"), Loop(j)}
    <2>1. RootPv(c, j) = Crypt \/ RootPv(c, j) = RaidDev(c, j)
      BY Zenon DEF RootPv
    <2> QED
      BY <1>2, <2>1, Zenon
  <1> QED
    BY <1>1, <1>2, <1>3

\* The commands for a volume other than the root filesystem.
LEMMA InitFsLate ==
  ASSUME NEW j \in Job, NEW c, NEW v \in OtherVolume, NEW on \in {RootVg, BootDev(c, j), Loop(j)}
  PROVE  InitFs(v, on) \in Seq(Late(c, j))
  <1>1. on \in Id \cup {NoId}
    BY Kinds, DeviceChoices
  <1>2. \A op \in {"run", "refuse"} : Cmd(op, NoId, on) \in Seq(Late(c, j))
    BY <1>1 DEF Cmd, Late, Command, Op
  <1>3. ASSUME v.dir # NoDir, NEW op \in {"mount", "umount"}
        PROVE  Cmd(op, MountAt(v.dir), on) \in Seq(Late(c, j))
    <2>1. v.dir \in Dir \ {"/"}
      BY <1>3 DEF OtherVolume
    <2>2. MountAt(v.dir) \in Id
      BY <2>1, Kinds
    <2>3. [op |-> op, id |-> MountAt(v.dir), on |-> on] \in Late(c, j)
      BY <1>1, <2>1, <2>2 DEF Late, Command, Op
    <2> QED
      BY <2>3 DEF Cmd
  <1>4. \A s, t \in Seq(Late(c, j)) : s \o t \in Seq(Late(c, j))
    OBVIOUS
  <1>5. \A cond : When(cond, <<>>) \in Seq(Late(c, j))
    BY DEF When
  <1>6. CASE v.fstype = "btrfs" /\ v.dir = NoDir
    BY <1>2, <1>6 DEF InitFs
  <1>7. CASE v.dir = NoDir /\ v.fstype # "btrfs"
    <2>1. InitFs(v, on) = Cmd("run", NoId, on) \o <<>> \o <<>>
      BY <1>7 DEF InitFs, When
    <2> QED
      BY <2>1, <1>2, <1>4
  <1>8. CASE v.dir # NoDir
    <2> DEFINE once == Cmd("mount", MountAt(v.dir), on) \o Cmd("run", NoId, on)
                         \o Cmd("umount", MountAt(v.dir), on)
               good == Cmd("mount", MountAt(v.dir), on)
    <2>1. once \in Seq(Late(c, j)) /\ good \in Seq(Late(c, j))
      BY <1>2, <1>3, <1>4, <1>8
    <2>2. InitFs(v, on) = Cmd("run", NoId, on) \o When(v.fstype = "btrfs", once)
                            \o When(v.fstype # "swap", good)
      BY <1>8, Zenon DEF InitFs, When
    <2> HIDE DEF once, good
    <2>3. /\ When(v.fstype = "btrfs", once) \in Seq(Late(c, j))
          /\ When(v.fstype # "swap", good) \in Seq(Late(c, j))
      BY <2>1 DEF When
    <2> QED
      BY <1>2, <1>4, <2>2, <2>3
  <1> QED
    BY <1>6, <1>7, <1>8

\* The commands for several volumes.
LEMMA InitEachLate ==
  ASSUME NEW j \in Job, NEW c, NEW volumes \in Seq(OtherVolume),
         NEW on \in {RootVg, BootDev(c, j), Loop(j)}
  PROVE  InitEach(volumes, on) \in Seq(Late(c, j))
  <1>1. DOMAIN volumes = 1..Len(volumes) /\ Len(volumes) \in Nat
    OBVIOUS
  <1>2. \A i \in DOMAIN volumes : InitFs(volumes[i], on) \in Seq(Late(c, j))
    BY InitFsLate
  <1>3. [i \in DOMAIN volumes |-> InitFs(volumes[i], on)] \in Seq(Seq(Late(c, j)))
    BY <1>1, <1>2
  <1> QED
    BY <1>3, FlattenPieces DEF InitEach

\* The commands for the further volumes of the volume group.
LEMMA ExtraVolumesLate ==
  ASSUME NEW j \in Job, NEW c, c.volumes \in Seq(OtherVolume)
  PROVE  ExtraVolumes(c) \in Seq(Late(c, j))
  <1>1. DOMAIN c.volumes = 1..Len(c.volumes) /\ Len(c.volumes) \in Nat
    OBVIOUS
  <1>2. Cmd("lvcreate", RootVg, NoId) \in Seq(Late(c, j))
    BY Kinds DEF Cmd, Late, Command, Op
  <1>3. \A i \in DOMAIN c.volumes :
           Cmd("lvcreate", RootVg, NoId) \o InitFs(c.volumes[i], RootVg) \in Seq(Late(c, j))
    <2> TAKE i \in DOMAIN c.volumes
    <2>1. InitFs(c.volumes[i], RootVg) \in Seq(Late(c, j))
      BY <1>1, InitFsLate
    <2> QED
      BY <1>2, <2>1
  <1>4. [i \in DOMAIN c.volumes |->
           Cmd("lvcreate", RootVg, NoId) \o InitFs(c.volumes[i], RootVg)] \in Seq(Seq(Late(c, j)))
    BY <1>1, <1>3
  <1> QED
    BY <1>4, FlattenPieces DEF ExtraVolumes

\* The chroot's mounts and all that configures the image.
LEMMA ChrootLate ==
  ASSUME NEW j \in Job, NEW c
  PROVE  ChrootMounts \in Seq(Late(c, j))
  <1>1. /\ DOMAIN ChrootDirs = 1..Len(ChrootDirs) /\ Len(ChrootDirs) \in Nat
        /\ \A i \in DOMAIN ChrootDirs : ChrootDirs[i] \in Dir \ {"/"}
    BY ChrootAssumption
  <1>2. ASSUME NEW i \in DOMAIN ChrootDirs
        PROVE  [op |-> "mount", id |-> MountAt(ChrootDirs[i]), on |-> NoId] \in Late(c, j)
    <2>1. MountAt(ChrootDirs[i]) \in Id
      BY <1>1, Kinds
    <2> QED
      BY <1>1, <2>1 DEF Late, Command, Op
  <1> QED
    BY <1>1, <1>2 DEF ChrootMounts

\* The commands that configure the root filesystem.
LEMMA ConfigureLate ==
  ASSUME NEW j \in Job, NEW c
  PROVE  ConfigureRootfs(c, j) \in Seq(Late(c, j))
  <1>1. \A s, t \in Seq(Late(c, j)) : s \o t \in Seq(Late(c, j))
    OBVIOUS
  <1>2. \A on \in Id \cup {NoId} :
           /\ Cmd("run", NoId, on) \in Seq(Late(c, j))
           /\ \A cond : When(cond, Cmd("run", NoId, on)) \in Seq(Late(c, j))
    <2> TAKE on \in Id \cup {NoId}
    <2>1. Cmd("run", NoId, on) \in Seq(Late(c, j))
      BY DEF Cmd, Late, Command, Op
    <2>2. <<>> \in Seq(Late(c, j))
      OBVIOUS
    <2> QED
      BY <2>1, <2>2, Zenon DEF When
  <1>3. {Array("boot"), Array("root"), NoId, Loop(j)} \subseteq Id \cup {NoId}
    BY Kinds
  <1> DEFINE a == When(c.bootRaid, Cmd("run", NoId, Array("boot")))
             b == When(c.rootRaid, Cmd("run", NoId, Array("root")))
             l == When(c.luks, Cmd("run", NoId, NoId))
             r == Cmd("run", NoId, NoId)
             g == When(~c.uefi, Cmd("run", NoId, Loop(j)))
             s == When(c.snapper /\ c.root[1].fstype = "btrfs", Cmd("run", NoId, NoId))
  <1>4. /\ a \in Seq(Late(c, j)) /\ b \in Seq(Late(c, j)) /\ l \in Seq(Late(c, j))
        /\ r \in Seq(Late(c, j)) /\ g \in Seq(Late(c, j)) /\ s \in Seq(Late(c, j))
    BY <1>2, <1>3
  <1>5. ConfigureRootfs(c, j) = a \o b \o l \o r \o r \o r \o g \o s
    BY Zenon DEF ConfigureRootfs
  <1> HIDE DEF a, b, l, r, g, s
  <1> QED
    BY <1>1, <1>4, <1>5

\* What a document becomes.
LEMMA ParseTyped ==
  ASSUME NEW d \in Doc, Accepted(d)
  PROVE  /\ \A l \in {"bootRaid", "rootRaid", "luks"} : Parse(d)[l] \in BOOLEAN
         /\ Parse(d).bootRaid = IsOn(d.boot_raid) /\ Parse(d).rootRaid = IsOn(d.root_vg_raid)
         /\ \A l \in {"boot", "esp", "swap", "volumes"} : Parse(d)[l] \in Seq(OtherVolume)
  <1>1. \A name \in {"boot", "esp", "swap"} : Named(d, name, FALSE) \in Seq(OtherVolume)
    BY NamedVolumes
  <1>2. Extra(d) \in Seq(OtherVolume)
    BY ExtraTyped
  <1>3. /\ Parse(d).boot = Named(d, "boot", FALSE) /\ Parse(d).swap = Named(d, "swap", FALSE)
        /\ Parse(d).esp = (IF d.boot_type = "uefi" THEN Named(d, "esp", FALSE) ELSE <<>>)
        /\ Parse(d).volumes = Extra(d)
    BY DEF Parse
  <1>4. /\ Parse(d).bootRaid = IsOn(d.boot_raid) /\ Parse(d).rootRaid = IsOn(d.root_vg_raid)
        /\ Parse(d).luks = IsOn(d.luks)
    BY DEF Parse
  <1>5. \A switch : IsOn(switch) \in BOOLEAN
    BY DEF IsOn
  <1>6. <<>> \in Seq(OtherVolume)
    OBVIOUS
  <1>7. Parse(d).esp \in Seq(OtherVolume)
    BY <1>1, <1>3, <1>6
  <1> QED
    BY <1>1, <1>2, <1>3, <1>4, <1>5, <1>7

\* The volume group is on a LUKS mapping or an array only where the config asks for one.
LEMMA DevicesBelow ==
  ASSUME NEW j \in Job, NEW c, c.bootRaid \in BOOLEAN, c.rootRaid \in BOOLEAN, c.luks \in BOOLEAN
  PROVE  /\ BootDev(c, j) \in {Array("boot"), Loop(j)}
         /\ RaidDev(c, j) \in {Array("root"), Loop(j)}
         /\ RootPv(c, j) \in {Crypt, Array("root"), Loop(j)}
         /\ RootPv(c, j) = Array("root") => c.rootRaid
         /\ RootPv(c, j) = Crypt <=> c.luks
  BY DEF BootDev, RaidDev, RootPv, Crypt, Array, Loop

OpensCrypt(s) == \E p \in 1..Len(s) : s[p].op = "open" /\ s[p].id = Crypt

\* Before the volume group there are only devices to open, the LUKS mapping among them
\* when the volume group is on it.
LEMMA BeforeEarly ==
  ASSUME NEW j \in Job, NEW c, c.bootRaid \in BOOLEAN, c.rootRaid \in BOOLEAN, c.luks \in BOOLEAN
  PROVE  /\ Before(c, j) \in Seq(Early(c, j))
         /\ RootPv(c, j) = Crypt => OpensCrypt(Before(c, j))
  <1> DEFINE S == Early(c, j)
             run(on) == Cmd("run", NoId, on)
             boot == When(c.bootRaid, Cmd("create", Array("boot"), Loop(j)))
             root == When(c.rootRaid, Cmd("create", Array("root"), Loop(j)))
             crypt == run(RaidDev(c, j)) \o Cmd("open", Crypt, RaidDev(c, j))
             second == When(c.luks, crypt)
             first == run(NoId) \o run(NoId) \o Cmd("open", Loop(j), NoId) \o boot
  <1>1. \A on \in Id \cup {NoId} : run(on) \in Seq(S)
    BY DEF Cmd, Early, Command, Op
  <1>2. {NoId, RaidDev(c, j), RootPv(c, j)} \subseteq Id \cup {NoId}
    BY DevicesBelow, Kinds
  <1>3. Cmd("open", Loop(j), NoId) \in Seq(S)
    BY Kinds DEF Cmd, Early, Command, Op
  <1>4. <<>> \in Seq(S) /\ \A s, t \in Seq(S) : s \o t \in Seq(S)
    OBVIOUS
  <1>5. boot \in Seq(S)
    <2>1. CASE c.bootRaid
      <3>1. Cmd("create", Array("boot"), Loop(j)) \in Seq(S)
        BY <2>1, Kinds DEF Cmd, Early, Command, Op
      <3> QED
        BY <3>1, <2>1, Zenon DEF When
    <2>2. CASE ~c.bootRaid
      BY <2>2, <1>4, Zenon DEF When
    <2> QED
      BY <2>1, <2>2
  <1>6. root \in Seq(S)
    <2>1. CASE c.rootRaid
      <3>1. Cmd("create", Array("root"), Loop(j)) \in Seq(S)
        BY <2>1, Kinds DEF Cmd, Early, Command, Op
      <3> QED
        BY <3>1, <2>1, Zenon DEF When
    <2>2. CASE ~c.rootRaid
      BY <2>2, <1>4, Zenon DEF When
    <2> QED
      BY <2>1, <2>2
  <1>7. Cmd("open", Crypt, RaidDev(c, j)) \in Seq(S)
    BY <1>2, Kinds DEF Cmd, Early, Command, Op
  <1>8. /\ crypt \in Seq(S) /\ Len(crypt) = 2
        /\ crypt[2].op = "open" /\ crypt[2].id = Crypt
    <2>1. /\ run(RaidDev(c, j)) \in Seq(S) /\ Cmd("open", Crypt, RaidDev(c, j)) \in Seq(S)
          /\ Len(run(RaidDev(c, j))) = 1 /\ Len(Cmd("open", Crypt, RaidDev(c, j))) = 1
      BY <1>1, <1>2, <1>7 DEF Cmd
    <2>2. crypt[2] = Cmd("open", Crypt, RaidDev(c, j))[1]
      BY <2>1
    <2> QED
      BY <2>1, <2>2 DEF Cmd
  <1>9. second \in Seq(S)
    BY <1>4, <1>8, Zenon DEF When
  <1>10. first \in Seq(S)
    BY <1>1, <1>2, <1>3, <1>4, <1>5
  <1>11. Before(c, j) = first \o (root \o second) \o run(RootPv(c, j))
    BY Zenon DEF Before, PartitionImage, OpenRootPv
  <1>12. c.luks => second = crypt
    BY Zenon DEF When
  <1>13. run(RootPv(c, j)) \in Seq(S)
    BY <1>1, <1>2
  <1> HIDE DEF first, second, root, crypt, run, S
  <1>14. Before(c, j) \in Seq(S)
    BY <1>4, <1>6, <1>9, <1>10, <1>11, <1>13
  <1>15. ASSUME RootPv(c, j) = Crypt
         PROVE  OpensCrypt(Before(c, j))
    <2> DEFINE p == Len(first) + Len(root) + 2
    <2>1. Before(c, j) = first \o (root \o crypt) \o run(RootPv(c, j))
      BY <1>11, <1>12, <1>15, DevicesBelow
    <2> DEFINE t == root \o crypt
               u == first \o t
    <2>2. t \in Seq(S) /\ Len(t) = Len(root) + 2 /\ t[Len(root) + 2] = crypt[2]
          /\ Len(root) + 2 \in 1..Len(t)
      <3>1. 2 \in 1..Len(crypt) /\ root \in Seq(S) /\ crypt \in Seq(S)
        BY <1>6, <1>8
      <3>2. /\ Len(root \o crypt) = Len(root) + Len(crypt) /\ root \o crypt \in Seq(S)
            /\ (root \o crypt)[Len(root) + 2] = crypt[2]
            /\ Len(root) + 2 \in 1..Len(root \o crypt)
        BY <3>1, ConcatParts DEF Parts
      <3> QED
        BY <3>2, <1>8
    <2> HIDE DEF t
    <2>3. u \in Seq(S) /\ u[p] = t[Len(root) + 2] /\ p \in 1..Len(u)
      <3>1. u[Len(first) + (Len(root) + 2)] = t[Len(root) + 2]
            /\ Len(first) + (Len(root) + 2) \in 1..Len(u) /\ u \in Seq(S)
        BY <2>2, <1>10, ConcatParts DEF Parts
      <3>2. Len(first) + (Len(root) + 2) = p
        BY <1>6, <1>10
      <3> QED
        BY <3>1, <3>2
    <2>4. Before(c, j) = u \o run(RootPv(c, j))
      BY <2>1 DEF t
    <2> HIDE DEF u, p
    <2>5. Before(c, j)[p] = u[p] /\ p \in 1..Len(Before(c, j))
      BY <2>3, <2>4, <1>13, ConcatParts DEF Parts
    <2> QED
      BY <2>2, <2>3, <2>5, <1>8 DEF OpensCrypt
  <1> QED
    BY <1>14, <1>15 DEF S

\* What makes the root filesystem, and what follows it.
OpenVg(c, j) == <<[op |-> "vgcreate", id |-> RootVg, on |-> RootPv(c, j)],
                  [op |-> "vgchange", id |-> RootVg, on |-> NoId],
                  [op |-> "lvcreate", id |-> RootVg, on |-> NoId]>>

RootCmd(op, id) == [op |-> op, id |-> id, on |-> RootVg]
RootFs(btrfs) ==
    IF btrfs THEN <<RootCmd("run", NoId), RootCmd("mount", MountAt("/")), RootCmd("run", NoId),
                    RootCmd("umount", MountAt("/")), RootCmd("mount", MountAt("/"))>>
    ELSE <<RootCmd("run", NoId), RootCmd("mount", MountAt("/"))>>

After(c, j) ==
    InitEach(c.boot, BootDev(c, j)) \o InitEach(c.esp \o c.swap, Loop(j)) \o ExtraVolumes(c)
      \o Cmd("unpack", NoId, NoId) \o ChrootMounts \o ConfigureRootfs(c, j)

\* After the root filesystem there are only commands that leave it alone.
LEMMA AfterLate ==
  ASSUME NEW j \in Job, NEW c,
         c.bootRaid \in BOOLEAN, c.rootRaid \in BOOLEAN, c.luks \in BOOLEAN,
         \A l \in {"boot", "esp", "swap", "volumes"} : c[l] \in Seq(OtherVolume)
  PROVE  After(c, j) \in Seq(Late(c, j))
  <1>1. /\ c.boot \in Seq(OtherVolume) /\ c.esp \o c.swap \in Seq(OtherVolume)
        /\ c.volumes \in Seq(OtherVolume)
    OBVIOUS
  <1>2. InitEach(c.boot, BootDev(c, j)) \in Seq(Late(c, j))
    <2>1. BootDev(c, j) \in {RootVg, BootDev(c, j), Loop(j)}
      OBVIOUS
    <2> QED
      BY <1>1, <2>1, InitEachLate
  <1>3. InitEach(c.esp \o c.swap, Loop(j)) \in Seq(Late(c, j))
    BY <1>1, InitEachLate
  <1>4. ExtraVolumes(c) \in Seq(Late(c, j))
    BY <1>1, ExtraVolumesLate
  <1>5. Cmd("unpack", NoId, NoId) \in Seq(Late(c, j))
    BY DEF Cmd, Late, Command, Op
  <1>6. \A s, t \in Seq(Late(c, j)) : s \o t \in Seq(Late(c, j))
    OBVIOUS
  <1> QED
    BY <1>2, <1>3, <1>4, <1>5, <1>6, ChrootLate, ConfigureLate DEF After

\* Commands one after the other.
LEMMA FiveInOrder ==
  ASSUME NEW S, NEW a \in S, NEW b \in S, NEW c \in S, NEW d \in S, NEW e \in S
  PROVE  <<a>> \o (<<b>> \o <<c>> \o <<d>>) \o <<e>> = <<a, b, c, d, e>>
  <1> DEFINE t == <<a>> \o (<<b>> \o <<c>> \o <<d>>) \o <<e>>
             s == <<a, b, c, d, e>>
  <1>1. /\ t \in Seq(S) /\ Len(t) = 5
        /\ t[1] = a /\ t[2] = b /\ t[3] = c /\ t[4] = d /\ t[5] = e
    <2>1. /\ <<a>> \in Seq(S) /\ <<b>> \in Seq(S) /\ <<c>> \in Seq(S)
          /\ <<d>> \in Seq(S) /\ <<e>> \in Seq(S)
      OBVIOUS
    <2>2. t \in Seq(S)
      BY <2>1
    <2>3. Len(t) = 5
      OBVIOUS
    <2>4. t[1] = a /\ t[2] = b
      OBVIOUS
    <2>5. t[3] = c /\ t[4] = d /\ t[5] = e
      OBVIOUS
    <2> QED
      BY <2>2, <2>3, <2>4, <2>5
  <1>2. /\ s \in Seq(S) /\ Len(s) = 5
        /\ s[1] = a /\ s[2] = b /\ s[3] = c /\ s[4] = d /\ s[5] = e
    OBVIOUS
  <1> HIDE DEF s, t
  <1>3. \A i \in 1..Len(s) : s[i] = t[i]
    BY <1>1, <1>2
  <1>4. s = t
    BY <1>1, <1>2, <1>3, SeqEqual
  <1> QED
    BY <1>4 DEF s, t

\* Two commands in a row.
LEMMA TwoInOrder ==
  ASSUME NEW S, NEW a \in S, NEW b \in S
  PROVE  <<a>> \o <<>> \o <<b>> = <<a, b>>
  <1> DEFINE t == <<a>> \o <<>> \o <<b>>
             s == <<a, b>>
  <1>1. t \in Seq(S) /\ Len(t) = 2 /\ t[1] = a /\ t[2] = b
    <2>1. <<a>> \in Seq(S) /\ <<>> \in Seq(S) /\ <<b>> \in Seq(S)
      OBVIOUS
    <2>2. t \in Seq(S)
      BY <2>1
    <2> QED
      BY <2>2
  <1>2. s \in Seq(S) /\ Len(s) = 2 /\ s[1] = a /\ s[2] = b
    OBVIOUS
  <1> HIDE DEF s, t
  <1>3. \A i \in 1..Len(s) : s[i] = t[i]
    BY <1>1, <1>2
  <1>4. s = t
    BY <1>1, <1>2, <1>3, SeqEqual
  <1> QED
    BY <1>4 DEF s, t

\* init_fs() for the root filesystem: a btrfs is mounted twice.
LEMMA RootFsPlan ==
  ASSUME NEW v, v.fstype \in FsType \ {"swap"}, v.dir = "/"
  PROVE  InitEach(<<v>>, RootVg) = RootFs(v.fstype = "btrfs")
  <1>1. "/" \in Dir /\ "/" # NoDir
    BY DirAssumption DEF DefaultDir, Range, NoDir
  <1>2. \A op \in Op : \A id \in {NoId, MountAt("/")} : RootCmd(op, id) \in Command
    BY <1>1, Kinds DEF RootCmd, Command
  <1>3. \A op, id : Cmd(op, id, RootVg) = <<RootCmd(op, id)>>
    BY DEF Cmd, RootCmd
  <1> DEFINE run == RootCmd("run", NoId)
             mount == RootCmd("mount", MountAt("/"))
             umount == RootCmd("umount", MountAt("/"))
  <1>4. run \in Command /\ mount \in Command /\ umount \in Command
    BY <1>2 DEF Op
  <1>5. InitFs(v, RootVg) = RootFs(v.fstype = "btrfs")
    <2>1. CASE v.fstype = "btrfs"
      <3>1. InitFs(v, RootVg) = <<run>> \o (<<mount>> \o <<run>> \o <<umount>>) \o <<mount>>
        BY <2>1, <1>1, <1>3 DEF InitFs, When
      <3>2. RootFs(v.fstype = "btrfs") = <<run, mount, run, umount, mount>>
        BY <2>1 DEF RootFs
      <3> HIDE DEF run, mount, umount
      <3>3. <<run>> \o (<<mount>> \o <<run>> \o <<umount>>) \o <<mount>>
               = <<run, mount, run, umount, mount>>
        <4>1. \A a, b, c, d, e \in Command :
                 <<a>> \o (<<b>> \o <<c>> \o <<d>>) \o <<e>> = <<a, b, c, d, e>>
          BY FiveInOrder, ZenonT(40)
        <4> QED
          BY <1>4, <4>1
      <3> QED
        BY <3>1, <3>2, <3>3
    <2>2. CASE v.fstype # "btrfs"
      <3>1. InitFs(v, RootVg) = <<run>> \o <<>> \o <<mount>>
        BY <2>2, <1>1, <1>3 DEF InitFs, When
      <3>2. RootFs(v.fstype = "btrfs") = <<run, mount>>
        BY <2>2 DEF RootFs
      <3> HIDE DEF run, mount, umount
      <3> QED
        BY <3>1, <3>2, <1>4, TwoInOrder
    <2> QED
      BY <2>1, <2>2
  <1>6. [i \in DOMAIN <<v>> |-> InitFs(<<v>>[i], RootVg)] = <<InitFs(v, RootVg)>>
    OBVIOUS
  <1>7. RootFs(v.fstype = "btrfs") \in Seq(Command)
    <2>1. <<run, mount, run, umount, mount>> \in Seq(Command) /\ <<run, mount>> \in Seq(Command)
      BY <1>4
    <2> QED
      BY <2>1, Zenon DEF RootFs
  <1> QED
    BY <1>5, <1>6, <1>7, FlattenOne DEF InitEach

\* Brackets do not matter.
Unbracketed(a, x, y) == a \o (x \o y) = a \o x \o y

\* Concatenation is associative, here for two sequences behind another.
LEMMA TwoUnbracketed ==
  ASSUME NEW S, NEW a \in Seq(S), NEW x \in Seq(S), NEW y \in Seq(S)
  PROVE  Unbracketed(a, x, y) /\ x \o y \in Seq(S)
  BY ConcatAssociative, ConcatProperties DEF Unbracketed

\* The same for three.
LEMMA ThreeUnbracketed ==
  ASSUME NEW S, NEW a \in Seq(S), NEW x \in Seq(S), NEW y \in Seq(S), NEW z \in Seq(S)
  PROVE  a \o (x \o y \o z) = a \o x \o y \o z
  <1>1. x \o y \in Seq(S)
    BY TwoUnbracketed
  <1>2. Unbracketed(a, x, y) /\ Unbracketed(a, x \o y, z)
    BY <1>1, TwoUnbracketed
  <1> QED
    BY <1>2, Zenon DEF Unbracketed

FiveOpen(a, u, v, w, x, y) == a \o (u \o v \o w \o x \o y) = a \o u \o v \o w \o x \o y
SixOpen(a, u, v, w, x, y, z) ==
    a \o (u \o v \o w \o x \o y \o z) = a \o u \o v \o w \o x \o y \o z

\* The same for five.
LEMMA FiveUnbracketed ==
  ASSUME NEW S, NEW a \in Seq(S), NEW u \in Seq(S), NEW v \in Seq(S), NEW w \in Seq(S),
         NEW x \in Seq(S), NEW y \in Seq(S)
  PROVE  FiveOpen(a, u, v, w, x, y) /\ u \o v \o w \o x \o y \in Seq(S)
  <1> DEFINE two == u \o v
             three == two \o w
             four == three \o x
  <1>1. two \in Seq(S)
    BY TwoUnbracketed
  <1>2. three \in Seq(S)
    <2> HIDE DEF two
    <2> QED
      BY <1>1, TwoUnbracketed
  <1>3. four \in Seq(S)
    <2> HIDE DEF three
    <2> QED
      BY <1>2, TwoUnbracketed
  <1> HIDE DEF two, three, four
  <1>4. /\ Unbracketed(a, u, v) /\ Unbracketed(a, two, w) /\ Unbracketed(a, three, x)
        /\ Unbracketed(a, four, y) /\ four \o y \in Seq(S)
    BY <1>1, <1>2, <1>3, TwoUnbracketed
  <1>5. a \o (four \o y) = a \o u \o v \o w \o x \o y
    BY <1>4, Zenon DEF two, three, four, Unbracketed
  <1> QED
    BY <1>4, <1>5, Zenon DEF two, three, four, FiveOpen

\* The same for six.
LEMMA SixUnbracketed ==
  ASSUME NEW S, NEW a \in Seq(S), NEW u \in Seq(S), NEW v \in Seq(S), NEW w \in Seq(S),
         NEW x \in Seq(S), NEW y \in Seq(S), NEW z \in Seq(S)
  PROVE  SixOpen(a, u, v, w, x, y, z)
  <1> DEFINE five == u \o v \o w \o x \o y
  <1>1. five \in Seq(S) /\ a \o five = a \o u \o v \o w \o x \o y
    <2>1. FiveOpen(a, u, v, w, x, y) /\ u \o v \o w \o x \o y \in Seq(S)
      BY FiveUnbracketed
    <2> QED
      BY <2>1, Zenon DEF FiveOpen
  <1> HIDE DEF five
  <1>2. Unbracketed(a, five, z)
    BY <1>1, TwoUnbracketed
  <1>3. a \o (five \o z) = a \o u \o v \o w \o x \o y \o z
    BY <1>1, <1>2, Zenon DEF Unbracketed
  <1> QED
    BY <1>3, Zenon DEF five, SixOpen

\* Three commands in a row.
LEMMA ThreeInOrder ==
  ASSUME NEW S, NEW a \in S, NEW b \in S, NEW c \in S
  PROVE  <<a>> \o <<b>> \o <<c>> = <<a, b, c>>
  <1> DEFINE t == <<a>> \o <<b>> \o <<c>>
             s == <<a, b, c>>
  <1>1. t \in Seq(S) /\ Len(t) = 3 /\ t[1] = a /\ t[2] = b /\ t[3] = c
    <2>1. <<a>> \in Seq(S) /\ <<b>> \in Seq(S) /\ <<c>> \in Seq(S)
      OBVIOUS
    <2>2. t \in Seq(S)
      BY <2>1
    <2> QED
      BY <2>2
  <1>2. s \in Seq(S) /\ Len(s) = 3 /\ s[1] = a /\ s[2] = b /\ s[3] = c
    OBVIOUS
  <1> HIDE DEF s, t
  <1>3. \A i \in 1..Len(s) : s[i] = t[i]
    BY <1>1, <1>2
  <1>4. s = t
    BY <1>1, <1>2, <1>3, SeqEqual
  <1> QED
    BY <1>4 DEF s, t

\* The commands that make the volume group and the root filesystem, wherever they begin.
Center(c, j) == OpenVg(c, j) \o RootFs(Btrfs(c))

\* The plan in three: up to the volume group, its logical volume for "/" and that
\* filesystem, and the rest.
LEMMA PlanSplit ==
  ASSUME NEW j \in Job, NEW d \in Doc, Accepted(d), NEW c, c = Parse(d)
  PROVE  /\ Plan(c, j) = Before(c, j) \o Center(c, j) \o After(c, j)
         /\ Before(c, j) \in Seq(Early(c, j))
         /\ OpenVg(c, j) \in Seq(Command) /\ RootFs(Btrfs(c)) \in Seq(Command)
         /\ After(c, j) \in Seq(Late(c, j))
  <1>1. /\ c.bootRaid \in BOOLEAN /\ c.rootRaid \in BOOLEAN /\ c.luks \in BOOLEAN
        /\ \A l \in {"boot", "esp", "swap", "volumes"} : c[l] \in Seq(OtherVolume)
    BY ParseTyped
  <1>dev. /\ BootDev(c, j) \in {Array("boot"), Loop(j)}
          /\ RaidDev(c, j) \in {Array("root"), Loop(j)}
          /\ RootPv(c, j) \in {Crypt, Array("root"), Loop(j)}
    BY DeviceChoices, Zenon
  <1>2. Before(c, j) \in Seq(Early(c, j)) /\ After(c, j) \in Seq(Late(c, j))
    BY <1>1, BeforeEarly, AfterLate
  <1>3. PICK v : c.root = <<v>> /\ v.fstype \in FsType \ {"swap"} /\ v.dir = "/"
    BY RootVolume
  <1>4. InitEach(c.root, RootVg) = RootFs(Btrfs(c))
    BY <1>3, RootFsPlan DEF Btrfs
  <1>5. RootFs(Btrfs(c)) \in Seq(Command)
    <2>1. "/" \in Dir
      BY DirAssumption DEF DefaultDir, Range, NoDir
    <2>2. \A op \in Op : \A id \in {NoId, MountAt("/")} : RootCmd(op, id) \in Command
      BY <2>1, Kinds DEF RootCmd, Command
    <2>3. /\ RootCmd("run", NoId) \in Command /\ RootCmd("mount", MountAt("/")) \in Command
          /\ RootCmd("umount", MountAt("/")) \in Command
      BY <2>2 DEF Op
    <2> QED
      BY <2>3 DEF RootFs
  <1> DEFINE vgcreate == [op |-> "vgcreate", id |-> RootVg, on |-> RootPv(c, j)]
             vgchange == [op |-> "vgchange", id |-> RootVg, on |-> NoId]
             lvcreate == [op |-> "lvcreate", id |-> RootVg, on |-> NoId]
  <1>6. vgcreate \in Command /\ vgchange \in Command /\ lvcreate \in Command
    <2>1. RootPv(c, j) \in Id
      BY <1>dev, Kinds
    <2> QED
      BY <2>1, Kinds DEF Command, Op
  <1>7. OpenVg(c, j) = <<vgcreate, vgchange, lvcreate>>
    BY DEF OpenVg
  <1>8. OpenVg(c, j) = <<vgcreate>> \o <<vgchange>> \o <<lvcreate>>
    <2>1. \A x, y, z \in Command : <<x>> \o <<y>> \o <<z>> = <<x, y, z>>
      BY ThreeInOrder
    <2> HIDE DEF vgcreate, vgchange, lvcreate
    <2> QED
      BY <1>6, <1>7, <2>1
  <1> DEFINE first == PartitionImage \o Cmd("open", Loop(j), NoId)
                        \o When(c.bootRaid, Cmd("create", Array("boot"), Loop(j)))
                        \o OpenRootPv(c, j)
             run == Cmd("run", NoId, RootPv(c, j))
             boot == InitEach(c.boot, BootDev(c, j))
             esp == InitEach(c.esp \o c.swap, Loop(j))
             extra == ExtraVolumes(c)
             unpack == Cmd("unpack", NoId, NoId)
             conf == ConfigureRootfs(c, j)
             r == RootFs(Btrfs(c))
             C == Seq(Command)
  <1>9. Early(c, j) \subseteq Command /\ Late(c, j) \subseteq Command
    BY DEF Early, Late
  <1>10. Before(c, j) \in C /\ After(c, j) \in C
    BY <1>2, <1>9, SeqMonotonic
  <1>11. /\ boot \in C /\ esp \in C /\ extra \in C /\ unpack \in C /\ ChrootMounts \in C
         /\ conf \in C
    <2>1. BootDev(c, j) \in {RootVg, BootDev(c, j), Loop(j)}
      OBVIOUS
    <2>2. /\ c.boot \in Seq(OtherVolume) /\ c.volumes \in Seq(OtherVolume)
          /\ c.esp \o c.swap \in Seq(OtherVolume)
      BY <1>1
    <2>3. /\ boot \in Seq(Late(c, j)) /\ esp \in Seq(Late(c, j)) /\ extra \in Seq(Late(c, j))
          /\ ChrootMounts \in Seq(Late(c, j)) /\ conf \in Seq(Late(c, j))
      BY <2>1, <2>2, InitEachLate, ExtraVolumesLate, ChrootLate, ConfigureLate
    <2>4. unpack \in C
      BY DEF Cmd, Command, Op
    <2> QED
      BY <2>3, <2>4, <1>9, SeqMonotonic
  <1>12. run \in C
    <2>1. RootPv(c, j) \in Id
      BY <1>dev, Kinds
    <2> QED
      BY <2>1 DEF Cmd, Command, Op
  <1>13. first \in C
    <2>1. {NoId, Loop(j), Array("boot"), RaidDev(c, j)} \subseteq Id \cup {NoId}
      BY <1>dev, Kinds
    <2>2. \A op \in Op : \A id, on \in {NoId, Loop(j), Array("boot"), Array("root"), Crypt, RaidDev(c, j)} :
             Cmd(op, id, on) \in C /\ \A cond : When(cond, Cmd(op, id, on)) \in C
      <3> TAKE op \in Op
      <3> TAKE id, on \in {NoId, Loop(j), Array("boot"), Array("root"), Crypt, RaidDev(c, j)}
      <3>1. id \in Id \cup {NoId} /\ on \in Id \cup {NoId}
        BY <2>1, Kinds
      <3>2. Cmd(op, id, on) \in C /\ <<>> \in C
        BY <3>1 DEF Cmd, Command
      <3> QED
        BY <3>2, Zenon DEF When
    <2> DEFINE crypt == Cmd("run", NoId, RaidDev(c, j)) \o Cmd("open", Crypt, RaidDev(c, j))
    <2>3. PartitionImage \in C
      BY <2>2 DEF PartitionImage, Op
    <2>4. Cmd("open", Loop(j), NoId) \in C
      BY <2>2 DEF Op
    <2>5. When(c.bootRaid, Cmd("create", Array("boot"), Loop(j))) \in C
      BY <2>2 DEF Op
    <2>6. When(c.rootRaid, Cmd("create", Array("root"), Loop(j))) \in C
      BY <2>2 DEF Op
    <2>7. crypt \in C /\ <<>> \in C
      BY <2>2 DEF Op
    <2>8. When(c.luks, crypt) \in C
      BY <2>7, Zenon DEF When
    <2>9. OpenRootPv(c, j) \in C
      BY <2>6, <2>8, TwoUnbracketed DEF OpenRootPv
    <2>10. PartitionImage \o Cmd("open", Loop(j), NoId) \in C
      BY <2>3, <2>4, TwoUnbracketed
    <2>11. PartitionImage \o Cmd("open", Loop(j), NoId)
             \o When(c.bootRaid, Cmd("create", Array("boot"), Loop(j))) \in C
      BY <2>5, <2>10, TwoUnbracketed
    <2> QED
      BY <2>9, <2>11, TwoUnbracketed
  <1>14. /\ <<vgcreate>> \in C /\ <<vgchange>> \in C /\ <<lvcreate>> \in C
         /\ OpenVg(c, j) \in C
    BY <1>6, <1>7
  <1>15. /\ OpenRootVg(c, j) = run \o <<vgcreate>> \o <<vgchange>>
         /\ MakeFilesystems(c, j) = <<lvcreate>> \o r \o boot \o esp \o extra
         /\ Before(c, j) = first \o run
         /\ Plan(c, j) = first \o OpenRootVg(c, j) \o MakeFilesystems(c, j) \o unpack
                           \o ChrootMounts \o conf
         /\ After(c, j) = boot \o esp \o extra \o unpack \o ChrootMounts \o conf
    <2>1. /\ Cmd("vgcreate", RootVg, RootPv(c, j)) = <<vgcreate>>
          /\ Cmd("vgchange", RootVg, NoId) = <<vgchange>>
          /\ Cmd("lvcreate", RootVg, NoId) = <<lvcreate>>
      BY DEF Cmd
    <2>2. OpenRootVg(c, j) = run \o <<vgcreate>> \o <<vgchange>>
      BY <2>1, Zenon DEF OpenRootVg
    <2>3. MakeFilesystems(c, j) = <<lvcreate>> \o r \o boot \o esp \o extra
      BY <2>1, <1>4, Zenon DEF MakeFilesystems
    <2>4. /\ Before(c, j) = first \o run
          /\ Plan(c, j) = first \o OpenRootVg(c, j) \o MakeFilesystems(c, j) \o unpack
                            \o ChrootMounts \o conf
          /\ After(c, j) = boot \o esp \o extra \o unpack \o ChrootMounts \o conf
      BY Zenon DEF Before, Plan, After
    <2> QED
      BY <2>2, <2>3, <2>4
  <1>16. r \in C
    BY <1>5
  <1> HIDE DEF first, run, vgcreate, vgchange, lvcreate, boot, esp, extra, unpack, conf, r, C
  <1> DEFINE B == Before(c, j)
             X == B \o <<vgcreate>> \o <<vgchange>>
  <1>17. first \o OpenRootVg(c, j) = X
    <2>1. first \o (run \o <<vgcreate>> \o <<vgchange>>) =
             first \o run \o <<vgcreate>> \o <<vgchange>>
      BY <1>12, <1>13, <1>14, ThreeUnbracketed DEF C
    <2> QED
      BY <2>1, <1>15, Zenon
  <1>18. X \in C
    <2>1. B \o <<vgcreate>> \in C
      BY <1>10, <1>14, TwoUnbracketed DEF C
    <2> QED
      BY <2>1, <1>14, TwoUnbracketed DEF C
  <1>19. X \o MakeFilesystems(c, j) = X \o <<lvcreate>> \o r \o boot \o esp \o extra
    <2> HIDE DEF X
    <2>1. FiveOpen(X, <<lvcreate>>, r, boot, esp, extra)
      BY <1>11, <1>14, <1>16, <1>18, FiveUnbracketed DEF C
    <2> QED
      BY <2>1, <1>15, Zenon DEF FiveOpen
  <1>20. X \o <<lvcreate>> \o r = B \o Center(c, j)
    <2>1. B \o (<<vgcreate>> \o <<vgchange>> \o <<lvcreate>>) = X \o <<lvcreate>>
      BY <1>10, <1>14, ThreeUnbracketed DEF C
    <2>2. Unbracketed(B, OpenVg(c, j), r)
      BY <1>10, <1>14, <1>16, TwoUnbracketed DEF C
    <2> HIDE DEF X, B
    <2>3. B \o OpenVg(c, j) = X \o <<lvcreate>>
      BY <2>1, <1>8, Zenon DEF vgcreate, vgchange, lvcreate
    <2>4. Center(c, j) = OpenVg(c, j) \o r
      BY Zenon DEF Center, r
    <2> QED
      BY <2>2, <2>3, <2>4, Zenon DEF Unbracketed
  <1>21. B \o Center(c, j) \o After(c, j) =
            B \o Center(c, j) \o boot \o esp \o extra \o unpack \o ChrootMounts \o conf
    <2>1. Center(c, j) \in C
      BY <1>14, <1>16, TwoUnbracketed DEF C, Center, r
    <2>2. B \o Center(c, j) \in C
      BY <2>1, <1>10, TwoUnbracketed DEF C
    <2> DEFINE Y == B \o Center(c, j)
    <2> HIDE DEF Y
    <2>3. SixOpen(Y, boot, esp, extra, unpack, ChrootMounts, conf)
      BY <2>2, <1>11, SixUnbracketed DEF C, Y
    <2> QED
      BY <2>3, <1>15, Zenon DEF Y, SixOpen
  <1>22. Plan(c, j) = X \o <<lvcreate>> \o r \o boot \o esp \o extra \o unpack
                        \o ChrootMounts \o conf
    <2> HIDE DEF X
    <2> QED
      BY <1>15, <1>17, <1>19, Zenon
  <1>23. Plan(c, j) = B \o Center(c, j) \o After(c, j)
    <2> HIDE DEF X, B
    <2> QED
      BY <1>20, <1>21, <1>22, Zenon
  <1> QED
    BY <1>2, <1>5, <1>14, <1>23 DEF C

\* The commands of a plan by their positions.
Shape(c, j, P, b, m) ==
    /\ P \in Seq(Command) /\ b \in Nat /\ m \in Nat /\ m <= Len(P)
    /\ m = IF Btrfs(c) THEN b + 8 ELSE b + 5
    /\ \A p \in 1..b : P[p] \in Early(c, j)
    /\ RootPv(c, j) = Crypt => \E p \in 1..b : P[p].op = "open" /\ P[p].id = Crypt
    /\ P[b + 1] = [op |-> "vgcreate", id |-> RootVg, on |-> RootPv(c, j)]
    /\ P[b + 2] = [op |-> "vgchange", id |-> RootVg, on |-> NoId]
    /\ P[b + 3] = [op |-> "lvcreate", id |-> RootVg, on |-> NoId]
    /\ P[b + 4] = RootCmd("run", NoId)
    /\ P[b + 5] = RootCmd("mount", MountAt("/"))
    /\ Btrfs(c) => /\ P[b + 6] = RootCmd("run", NoId)
                   /\ P[b + 7] = RootCmd("umount", MountAt("/"))
                   /\ P[b + 8] = RootCmd("mount", MountAt("/"))
    /\ \A p \in (m + 1)..Len(P) : P[p] \in Late(c, j)

\* Every plan has that shape.
LEMMA PlanShape ==
  ASSUME NEW j \in Job, NEW d \in Doc, Accepted(d), NEW c, c = Parse(d)
  PROVE  Shape(c, j, Plan(c, j), Start(c, j), Rooted(c, j))
  <1> DEFINE P == Plan(c, j)
             b == Start(c, j)
             m == Rooted(c, j)
  <1> DEFINE B == Before(c, j)
             V == OpenVg(c, j)
             R == RootFs(Btrfs(c))
             A == After(c, j)
  <1>1. /\ P = B \o (V \o R) \o A
        /\ B \in Seq(Early(c, j)) /\ V \in Seq(Command) /\ R \in Seq(Command)
        /\ A \in Seq(Late(c, j))
    BY PlanSplit DEF Center
  <1>2. Early(c, j) \subseteq Command /\ Late(c, j) \subseteq Command
    BY DEF Early, Late
  <1>3. B \in Seq(Command) /\ A \in Seq(Command)
    BY <1>1, <1>2, SeqMonotonic
  <1>4. RootPv(c, j) = Crypt => OpensCrypt(B)
    <2>1. c.bootRaid \in BOOLEAN /\ c.rootRaid \in BOOLEAN /\ c.luks \in BOOLEAN
      BY ParseTyped
    <2> QED
      BY <2>1, BeforeEarly
  <1>5. /\ Len(V) = 3
        /\ V[1] = [op |-> "vgcreate", id |-> RootVg, on |-> RootPv(c, j)]
        /\ V[2] = [op |-> "vgchange", id |-> RootVg, on |-> NoId]
        /\ V[3] = [op |-> "lvcreate", id |-> RootVg, on |-> NoId]
    BY DEF OpenVg
  <1>6. /\ Len(R) = (IF Btrfs(c) THEN 5 ELSE 2)
        /\ R[1] = RootCmd("run", NoId) /\ R[2] = RootCmd("mount", MountAt("/"))
        /\ Btrfs(c) => /\ R[3] = RootCmd("run", NoId)
                       /\ R[4] = RootCmd("umount", MountAt("/"))
                       /\ R[5] = RootCmd("mount", MountAt("/"))
    BY DEF RootFs
  <1>7. b = Len(B)
    BY DEF Start
  <1>8. \A p \in 1..Len(B) : B[p] \in Early(c, j)
    BY <1>1
  <1>9. \A p \in 1..Len(A) : A[p] \in Late(c, j)
    BY <1>1
  <1>10. m = IF Btrfs(c) THEN b + 8 ELSE b + 5
    BY DEF Rooted
  <1> HIDE DEF B, V, R, A, P, b, m
  <1> DEFINE C == V \o R
             Q == B \o C
  <1>11. /\ C \in Seq(Command) /\ Len(C) = 3 + Len(R) /\ Len(R) \in Nat
         /\ C[1] = V[1] /\ C[2] = V[2] /\ C[3] = V[3]
         /\ \A i \in 1..Len(R) : C[3 + i] = R[i]
    <2>1. 1 \in 1..Len(V) /\ 2 \in 1..Len(V) /\ 3 \in 1..Len(V)
      BY <1>5
    <2>2. C \in Seq(Command) /\ Parts(C, V, R)
      BY <1>1, ConcatParts
    <2> HIDE DEF C
    <2> QED
      BY <1>5, <2>1, <2>2 DEF Parts
  <1>12. /\ C[4] = R[1] /\ C[5] = R[2]
         /\ Btrfs(c) => C[6] = R[3] /\ C[7] = R[4] /\ C[8] = R[5]
    <2>1. 1 \in 1..Len(R) /\ 2 \in 1..Len(R)
      BY <1>6
    <2>2. Btrfs(c) => 3 \in 1..Len(R) /\ 4 \in 1..Len(R) /\ 5 \in 1..Len(R)
      BY <1>6
    <2>3. 3 + 1 = 4 /\ 3 + 2 = 5 /\ 3 + 3 = 6 /\ 3 + 4 = 7 /\ 3 + 5 = 8
      OBVIOUS
    <2> HIDE DEF C
    <2> QED
      BY <1>11, <2>1, <2>2, <2>3
  <1> HIDE DEF C
  <1>13. /\ Q \in Seq(Command) /\ Len(B) \in Nat /\ Len(Q) = Len(B) + Len(C)
         /\ \A i \in 1..Len(B) : Q[i] = B[i] /\ i \in 1..Len(Q)
         /\ \A i \in 1..Len(C) : Q[Len(B) + i] = C[i] /\ Len(B) + i \in 1..Len(Q)
    <2>1. Q \in Seq(Command) /\ Parts(Q, B, C)
      BY <1>3, <1>11, ConcatParts
    <2> HIDE DEF Q
    <2> QED
      BY <2>1 DEF Parts
  <1> HIDE DEF Q
  <1>14. P = Q \o A
    BY <1>1 DEF Q, C
  <1>15. /\ P \in Seq(Command) /\ Len(Q) \in Nat /\ Len(A) \in Nat
         /\ Len(P) = Len(Q) + Len(A)
         /\ \A i \in 1..Len(Q) : P[i] = Q[i]
         /\ \A i \in 1..Len(A) : P[Len(Q) + i] = A[i]
         /\ \A i \in 1..Len(P) : i \notin 1..Len(Q) => i - Len(Q) \in 1..Len(A)
    <2>1. P \in Seq(Command) /\ Parts(P, Q, A)
      BY <1>3, <1>13, <1>14, ConcatParts
    <2> QED
      BY <2>1 DEF Parts
  <1>16. m = Len(Q) /\ b \in Nat /\ m \in Nat /\ m <= Len(P)
    BY <1>6, <1>7, <1>10, <1>11, <1>13, <1>15
  <1>17. \A p \in 1..b : P[p] = B[p] /\ P[p] \in Early(c, j)
    BY <1>7, <1>8, <1>13, <1>15
  <1>18. \A i \in 1..Len(C) : P[b + i] = C[i]
    BY <1>7, <1>13, <1>15
  <1>19. /\ Len(C) = IF Btrfs(c) THEN 8 ELSE 5
         /\ {1, 2, 3, 4, 5} \subseteq 1..Len(C)
         /\ Btrfs(c) => {6, 7, 8} \subseteq 1..Len(C)
    BY <1>6, <1>11
  <1>20. /\ P[b + 1] = V[1] /\ P[b + 2] = V[2] /\ P[b + 3] = V[3] /\ P[b + 4] = R[1]
         /\ P[b + 5] = R[2]
    BY <1>11, <1>12, <1>18, <1>19
  <1>21. Btrfs(c) => P[b + 6] = R[3] /\ P[b + 7] = R[4] /\ P[b + 8] = R[5]
    BY <1>12, <1>18, <1>19
  <1>22. ASSUME NEW p \in (m + 1)..Len(P) PROVE P[p] \in Late(c, j)
    <2>1. p \in 1..Len(P) /\ p \notin 1..Len(Q) /\ Len(Q) + (p - Len(Q)) = p
      BY <1>15, <1>16
    <2>2. p - Len(Q) \in 1..Len(A)
      BY <1>15, <2>1
    <2>3. P[p] = A[p - Len(Q)]
      BY <1>15, <2>1, <2>2
    <2> QED
      BY <1>9, <2>2, <2>3
  <1>23. RootPv(c, j) = Crypt => \E p \in 1..b : P[p].op = "open" /\ P[p].id = Crypt
    BY <1>4, <1>7, <1>17 DEF OpensCrypt
  <1> QED
    <2>1. Shape(c, j, P, b, m)
      BY <1>5, <1>6, <1>10, <1>15, <1>16, <1>17, <1>20, <1>21, <1>22, <1>23 DEF Shape
    <2> QED
      BY <2>1 DEF P, b, m

-----------------------------------------------------------------------------
(* The registers and the order in which they are closed.                   *)

Distinct(s) == \A i, k \in DOMAIN s : s[i] = s[k] => i = k

\* Each key once, in the register of its kind.
RegisterOK(r) ==
    /\ r \in [Kind -> Seq(Id)]
    /\ \A k \in Kind : Distinct(r[k]) /\ \A i \in DOMAIN r[k] : r[k][i].kind = k

Registered(r) == UNION {Range(r[k]) : k \in Kind}

\* What is closed first.
Rank(kind) == IF kind = "mount" THEN 1 ELSE IF kind = "vg" THEN 2
              ELSE IF kind = "luks" THEN 3 ELSE IF kind = "md" THEN 4 ELSE 5

Sorted(s) == \A a, b \in DOMAIN s :
                a < b => s[a] # s[b] /\ Rank(s[a].kind) <= Rank(s[b].kind)

\* What the job has registered, and still has to close.

\* SelectInSeq finds the element if there is one.
LEMMA FirstPlace ==
  ASSUME NEW S, NEW s \in Seq(S), NEW e, \E i \in 1..Len(s) : s[i] = e
  PROVE  LET i == SelectInSeq(s, LAMBDA v : v = e)
         IN  i \in 1..Len(s) /\ s[i] = e
  <1> DEFINE I == {i \in 1..Len(s) : s[i] = e}
  <1>1. I # {} /\ I \in SUBSET Nat
    OBVIOUS
  <1>2. \E i \in I : \A k \in I : i <= k
    BY <1>1, LeastNumber
  <1>3. Min(I) \in I
    BY <1>2 DEF Min
  <1>4. SelectInSeq(s, LAMBDA v : v = e) = Min(I)
    BY <1>1 DEF SelectInSeq
  <1> QED
    BY <1>3, <1>4

\* What is left when one element is taken away.
LEMMA RemovedAt ==
  ASSUME NEW S, NEW s \in Seq(S), NEW n \in 1..Len(s)
  PROVE  /\ RemoveAt(s, n) \in Seq(S) /\ Len(RemoveAt(s, n)) = Len(s) - 1
         /\ \A i \in 1..Len(s) - 1 : RemoveAt(s, n)[i] = IF i < n THEN s[i] ELSE s[i + 1]
  <1> DEFINE a == SubSeq(s, 1, n - 1)
             b == SubSeq(s, n + 1, Len(s))
  <1>1. Len(s) \in Nat /\ n \in Nat /\ 1 <= n /\ n <= Len(s)
    OBVIOUS
  <1>2. a \in Seq(S) /\ Len(a) = n - 1 /\ \A i \in 1..(n - 1) : a[i] = s[i]
    BY <1>1, SubSeqProperties
  <1>3. b \in Seq(S) /\ Len(b) = Len(s) - n /\ \A i \in 1..(Len(s) - n) : b[i] = s[n + i]
    BY <1>1, SubSeqProperties
  <1> HIDE DEF a, b
  <1>4. a \o b \in Seq(S) /\ Parts(a \o b, a, b)
    BY <1>2, <1>3, ConcatParts
  <1>5. RemoveAt(s, n) = a \o b
    BY DEF RemoveAt, a, b
  <1> DEFINE w == a \o b
  <1> HIDE DEF w
  <1>6. Parts(w, a, b)
    BY <1>4 DEF w
  <1>7. Len(w) = Len(s) - 1
    BY <1>1, <1>2, <1>3, <1>6 DEF Parts
  <1>8. ASSUME NEW i \in 1..Len(s) - 1 PROVE w[i] = IF i < n THEN s[i] ELSE s[i + 1]
    <2>1. CASE i < n
      <3>1. i \in 1..(n - 1)
        BY <2>1, <1>1
      <3> QED
        BY <2>1, <3>1, <1>2, <1>6 DEF Parts
    <2>2. CASE ~ (i < n)
      <3> DEFINE k == i - (n - 1)
      <3>1. k \in 1..(Len(s) - n) /\ i = Len(a) + k /\ n + k = i + 1
        BY <2>2, <1>1, <1>2
      <3> HIDE DEF k
      <3>2. w[Len(a) + k] = b[k] /\ b[k] = s[n + k]
        BY <3>1, <1>3, <1>6 DEF Parts
      <3> QED
        BY <2>2, <3>1, <3>2
    <2> QED
      BY <2>1, <2>2
  <1> QED
    BY <1>4, <1>5, <1>7, <1>8 DEF w

\* Without the element, and otherwise as it was.
LEMMA RemovedFirst ==
  ASSUME NEW S, NEW s \in Seq(S), Distinct(s), NEW e
  PROVE  /\ RemoveFirst(s, e) \in Seq(S) /\ Distinct(RemoveFirst(s, e))
         /\ Range(RemoveFirst(s, e)) = Range(s) \ {e}
  <1>1. DOMAIN s = 1..Len(s) /\ Len(s) \in Nat
    OBVIOUS
  <1>2. CASE ~ \E i \in 1..Len(s) : s[i] = e
    <2>1. RemoveFirst(s, e) = s
      BY <1>2 DEF RemoveFirst
    <2> QED
      BY <1>1, <1>2, <2>1 DEF Range
  <1>3. CASE \E i \in 1..Len(s) : s[i] = e
    <2> DEFINE n == SelectInSeq(s, LAMBDA v : v = e)
               t == RemoveAt(s, n)
    <2>1. n \in 1..Len(s) /\ s[n] = e
      BY <1>3, FirstPlace
    <2>2. RemoveFirst(s, e) = t
      BY <1>3 DEF RemoveFirst
    <2> HIDE DEF n
    <2>3. /\ t \in Seq(S) /\ Len(t) = Len(s) - 1
          /\ \A i \in 1..Len(s) - 1 : t[i] = IF i < n THEN s[i] ELSE s[i + 1]
      BY <2>1, RemovedAt
    <2> HIDE DEF t
    <2>4. DOMAIN t = 1..(Len(s) - 1)
      BY <2>3, <1>1
    <2> DEFINE at(i) == IF i < n THEN i ELSE i + 1
    <2>5. \A i \in DOMAIN t : at(i) \in DOMAIN s /\ at(i) # n /\ t[i] = s[at(i)]
      BY <1>1, <2>1, <2>3, <2>4
    <2>6. \A i, k \in DOMAIN t : at(i) = at(k) => i = k
      BY <2>1, <2>4, <1>1
    <2>7. \A k \in DOMAIN s : k # n => \E i \in DOMAIN t : at(i) = k
      <3> TAKE k \in DOMAIN s
      <3>1. CASE k < n
        <4>1. k \in DOMAIN t /\ at(k) = k
          BY <3>1, <1>1, <2>1, <2>4
        <4> QED
          BY <4>1
      <3>2. CASE k > n
        <4>1. k - 1 \in DOMAIN t /\ at(k - 1) = k
          BY <3>2, <1>1, <2>1, <2>4
        <4> QED
          BY <4>1
      <3> QED
        BY <3>1, <3>2, <1>1, <2>1
    <2> HIDE DEF at
    <2>8. Distinct(t)
      BY <2>5, <2>6 DEF Distinct
    <2>9. \A i \in DOMAIN t : t[i] \in Range(s) \ {e}
      <3> TAKE i \in DOMAIN t
      <3>1. s[at(i)] # s[n]
        BY <2>1, <2>5, <1>1 DEF Distinct
      <3> QED
        BY <2>1, <2>5, <3>1 DEF Range
    <2>10. \A k \in DOMAIN s : s[k] # e => s[k] \in Range(t)
      <3> TAKE k \in DOMAIN s
      <3> HAVE s[k] # e
      <3>1. k # n
        BY <2>1
      <3>2. PICK i \in DOMAIN t : at(i) = k
        BY <2>7, <3>1
      <3> QED
        BY <2>5, <3>2 DEF Range
    <2>11. Range(t) = Range(s) \ {e}
      BY <2>9, <2>10 DEF Range
    <2> QED
      BY <2>2, <2>3, <2>8, <2>11
  <1> QED
    BY <1>2, <1>3

\* A reversed sequence has the same elements.
LEMMA Reversed ==
  ASSUME NEW S, NEW s \in Seq(S)
  PROVE  /\ Reverse(s) \in Seq(S) /\ Len(Reverse(s)) = Len(s)
         /\ Range(Reverse(s)) = Range(s)
         /\ Distinct(s) => Distinct(Reverse(s))
  <1> DEFINE t == [i \in 1..Len(s) |-> s[(Len(s) - i) + 1]]
  <1>1. DOMAIN s = 1..Len(s) /\ Len(s) \in Nat
    OBVIOUS
  <1>2. Reverse(s) = t
    BY DEF Reverse
  <1>3. \A i \in 1..Len(s) : /\ (Len(s) - i) + 1 \in 1..Len(s)
                             /\ (Len(s) - ((Len(s) - i) + 1)) + 1 = i
    BY <1>1
  <1>4. t \in Seq(S) /\ Len(t) = Len(s) /\ DOMAIN t = 1..Len(s)
    BY <1>1, <1>3
  <1>5. Range(t) = Range(s)
    <2>1. \A i \in 1..Len(s) : t[i] = s[(Len(s) - i) + 1] /\ s[i] = t[(Len(s) - i) + 1]
      BY <1>3
    <2> HIDE DEF t
    <2> QED
      BY <1>1, <1>3, <1>4, <2>1 DEF Range
  <1>6. Distinct(s) => Distinct(t)
    <2> SUFFICES ASSUME Distinct(s), NEW i \in 1..Len(s), NEW k \in 1..Len(s), t[i] = t[k]
                 PROVE  i = k
      BY <1>4 DEF Distinct
    <2>1. s[(Len(s) - i) + 1] = s[(Len(s) - k) + 1]
      OBVIOUS
    <2>2. (Len(s) - i) + 1 = (Len(s) - k) + 1
      BY <2>1, <1>1, <1>3 DEF Distinct
    <2> QED
      BY <2>2, <1>1
  <1> QED
    BY <1>2, <1>4, <1>5, <1>6

\* Every resource is of one of the five kinds.
LEMMA KindOfId == \A id \in Id : id.kind \in Kind
  BY DEF Id, Kind, Loop, Array, Crypt, RootVg, MountAt

\* What is dropped is no longer registered, and the rest is.
LEMMA Dropped ==
  ASSUME NEW r, RegisterOK(r), NEW id \in Id
  PROVE  RegisterOK(Drop(r, id)) /\ Registered(Drop(r, id)) = Registered(r) \ {id}
  <1> DEFINE q == Drop(r, id)
             s == RemoveFirst(r[id.kind], id)
  <1>1. id.kind \in Kind
    BY KindOfId
  <1>2. r \in [Kind -> Seq(Id)]
    BY DEF RegisterOK
  <1>3. r[id.kind] \in Seq(Id) /\ Distinct(r[id.kind])
        /\ \A i \in DOMAIN r[id.kind] : r[id.kind][i].kind = id.kind
    BY <1>1, <1>2 DEF RegisterOK
  <1>4. s \in Seq(Id) /\ Distinct(s) /\ Range(s) = Range(r[id.kind]) \ {id}
    BY <1>3, RemovedFirst
  <1> HIDE DEF s
  <1>5. q = [r EXCEPT ![id.kind] = s]
    BY DEF Drop, s
  <1>6. q \in [Kind -> Seq(Id)] /\ q[id.kind] = s /\ \A k \in Kind \ {id.kind} : q[k] = r[k]
    BY <1>1, <1>2, <1>4, <1>5
  <1> HIDE DEF q
  <1>7. \A i \in DOMAIN s : s[i].kind = id.kind
    <2> TAKE i \in DOMAIN s
    <2>1. s[i] \in Range(r[id.kind])
      BY <1>4 DEF Range
    <2> QED
      BY <2>1, <1>3 DEF Range
  <1>8. RegisterOK(q)
    BY <1>2, <1>4, <1>6, <1>7 DEF RegisterOK
  <1>9. \A k \in Kind \ {id.kind} : id \notin Range(r[k])
    BY DEF RegisterOK, Range
  <1>10. \A k \in Kind : Range(q[k]) = Range(r[k]) \ {id}
    <2> TAKE k \in Kind
    <2>1. CASE k = id.kind
      BY <2>1, <1>4, <1>6
    <2>2. CASE k # id.kind
      BY <2>2, <1>6, <1>9
    <2> QED
      BY <2>1, <2>2
  <1>11. Registered(q) = Registered(r) \ {id}
    BY <1>10 DEF Registered
  <1> QED
    BY <1>8, <1>11 DEF q

\* What is appended to the register of its kind is registered, and the rest still is.
LEMMA Added ==
  ASSUME NEW r, RegisterOK(r), NEW id \in Id, id \notin Range(r[id.kind]),
         NEW q, q = [r EXCEPT ![id.kind] = Append(@, id)]
  PROVE  RegisterOK(q) /\ Registered(q) = Registered(r) \cup {id}
  <1> DEFINE t == r[id.kind]
             s == Append(t, id)
  <1>1. id.kind \in Kind
    BY KindOfId
  <1>2. r \in [Kind -> Seq(Id)]
    BY DEF RegisterOK
  <1>3. t \in Seq(Id) /\ Distinct(t) /\ \A i \in DOMAIN t : t[i].kind = id.kind
    BY <1>1, <1>2 DEF RegisterOK
  <1>4. q \in [Kind -> Seq(Id)] /\ q[id.kind] = s /\ \A k \in Kind \ {id.kind} : q[k] = r[k]
    <2>1. s \in Seq(Id)
      BY <1>3
    <2> QED
      BY <1>1, <1>2, <2>1
  <1> HIDE DEF t
  <1>5. /\ DOMAIN t = 1..Len(t) /\ Len(t) \in Nat
        /\ s \in Seq(Id) /\ DOMAIN s = 1..(Len(t) + 1)
        /\ \A i \in 1..Len(t) : s[i] = t[i]
        /\ s[Len(t) + 1] = id
    BY <1>3
  <1> HIDE DEF s
  <1>6. id \notin Range(t)
    BY DEF t
  <1>7. Range(s) = Range(t) \cup {id}
    <2>1. \A i \in DOMAIN s : s[i] \in Range(t) \cup {id}
      BY <1>5 DEF Range
    <2>2. \A i \in DOMAIN t : t[i] \in Range(s)
      BY <1>5 DEF Range
    <2>3. id \in Range(s)
      BY <1>5 DEF Range
    <2> QED
      BY <2>1, <2>2, <2>3 DEF Range
  <1>8. Distinct(s)
    <2> SUFFICES ASSUME NEW i \in DOMAIN s, NEW k \in DOMAIN s, s[i] = s[k] PROVE i = k
      BY DEF Distinct
    <2>1. \A a \in DOMAIN t : t[a] # id
      BY <1>6 DEF Range
    <2>2. CASE i \in DOMAIN t /\ k \in DOMAIN t
      BY <2>2, <1>3, <1>5 DEF Distinct
    <2>3. CASE i \notin DOMAIN t \/ k \notin DOMAIN t
      BY <2>1, <2>3, <1>5
    <2> QED
      BY <2>2, <2>3
  <1>9. \A i \in DOMAIN s : s[i].kind = id.kind
    BY <1>3, <1>5
  <1>10. RegisterOK(q)
    BY <1>2, <1>4, <1>5, <1>8, <1>9 DEF RegisterOK
  <1>11. /\ Range(q[id.kind]) = Range(r[id.kind]) \cup {id}
         /\ \A k \in Kind : k # id.kind => Range(q[k]) = Range(r[k])
    <2>1. Range(q[id.kind]) = Range(r[id.kind]) \cup {id}
      BY <1>4, <1>7 DEF t
    <2> QED
      BY <1>4, <2>1
  <1>12. Registered(q) = Registered(r) \cup {id}
    <2>1. \A x : x \in Registered(q) <=> \E k \in Kind : x \in Range(q[k])
      BY DEF Registered
    <2>2. \A x : x \in Registered(r) <=> \E k \in Kind : x \in Range(r[k])
      BY DEF Registered
    <2>3. \A x : x \in Registered(q) <=> x \in Registered(r) \/ x = id
      <3> TAKE x
      <3>1. ASSUME x \in Registered(q) PROVE x \in Registered(r) \/ x = id
        <4>1. PICK k \in Kind : x \in Range(q[k])
          BY <2>1, <3>1
        <4> QED
          BY <4>1, <1>11, <2>2
      <3>2. ASSUME x \in Registered(r) PROVE x \in Registered(q)
        <4>1. PICK k \in Kind : x \in Range(r[k])
          BY <2>2, <3>2
        <4>2. x \in Range(q[k])
          BY <4>1, <1>11
        <4> QED
          BY <4>2, <2>1
      <3>3. id \in Registered(q)
        BY <1>1, <1>11, <2>1
      <3> QED
        BY <3>1, <3>2, <3>3
    <2> QED
      BY <2>3
  <1> QED
    BY <1>10, <1>12

\* What a command registers.
Registering == {"open", "create", "vgchange", "mount"}

\* What is registered after a command.
LEMMA RegisterKeeps ==
  ASSUME NEW r, RegisterOK(r), NEW s \in Command, s.op \in Registering \cup {"umount"} => s.id \in Id
  PROVE  /\ RegisterOK(Register(r, s))
         /\ Registered(Register(r, s)) =
               IF s.op = "umount" THEN Registered(r) \ {s.id}
               ELSE IF s.op \in Registering THEN Registered(r) \cup {s.id}
               ELSE Registered(r)
  <1>1. CASE s.op = "umount"
    <2>1. Register(r, s) = Drop(r, s.id)
      BY <1>1 DEF Register
    <2> QED
      BY <1>1, <2>1, Dropped
  <1>2. CASE s.op \in Registering /\ s.id \notin Range(r[s.id.kind])
    <2>1. Register(r, s) = [r EXCEPT ![s.id.kind] = Append(@, s.id)]
      BY <1>2 DEF Register, Registering
    <2> QED
      BY <1>2, <2>1, Added DEF Registering
  <1>3. CASE s.op \in Registering /\ s.id \in Range(r[s.id.kind])
    <2>1. Register(r, s) = r
      BY <1>3 DEF Register, Registering
    <2>2. s.id \in Registered(r)
      BY <1>3, KindOfId DEF Registered, Registering
    <2> QED
      BY <1>3, <2>1, <2>2 DEF Registering
  <1>4. CASE s.op \notin Registering \cup {"umount"}
    <2>1. Register(r, s) = r
      BY <1>4 DEF Register, Registering
    <2> QED
      BY <1>4, <2>1
  <1> QED
    BY <1>1, <1>2, <1>3, <1>4

\* What is registered before a command that may fail: an array.
LEMMA RegisterEarlyKeeps ==
  ASSUME NEW r, RegisterOK(r), NEW s \in Command, s.op \in Registering \cup {"umount"} => s.id \in Id
  PROVE  /\ RegisterOK(RegisterEarly(r, s))
         /\ Registered(RegisterEarly(r, s)) =
               IF s.op = "create" THEN Registered(r) \cup {s.id} ELSE Registered(r)
  BY RegisterKeeps DEF RegisterEarly, Registering

\* The empty registers.
LEMMA NothingRegistered ==
  RegisterOK(NoneRegistered) /\ Registered(NoneRegistered) = {}
  <1>1. NoneRegistered \in [Kind -> Seq(Id)] /\ \A k \in Kind : NoneRegistered[k] = <<>>
    BY DEF NoneRegistered
  <1>2. Distinct(<<>>) /\ Range(<<>>) = {} /\ DOMAIN <<>> = {}
    BY DEF Distinct, Range
  <1> QED
    BY <1>1, <1>2 DEF RegisterOK, Registered

-----------------------------------------------------------------------------
(* The order of closing.                                                   *)

\* All of one kind.
Ranked(s, n) == \A i \in DOMAIN s : Rank(s[i].kind) = n
UpTo(s, n) == \A i \in DOMAIN s : Rank(s[i].kind) <= n

\* A further kind behind kinds that are closed before it.
LEMMA SortedConcat ==
  ASSUME NEW s \in Seq(Id), NEW t \in Seq(Id), NEW n \in Nat,
         Sorted(s), UpTo(s, n), Distinct(t), Ranked(t, n + 1)
  PROVE  /\ s \o t \in Seq(Id) /\ Sorted(s \o t) /\ UpTo(s \o t, n + 1)
         /\ Range(s \o t) = Range(s) \cup Range(t)
  <1> DEFINE w == s \o t
  <1>1. w \in Seq(Id) /\ Parts(w, s, t)
    BY ConcatParts
  <1> HIDE DEF w
  <1>2. /\ DOMAIN w = 1..Len(w) /\ DOMAIN s = 1..Len(s) /\ DOMAIN t = 1..Len(t)
        /\ Len(s) \in Nat /\ Len(t) \in Nat /\ Len(w) = Len(s) + Len(t)
    BY <1>1 DEF Parts
  <1>3. \A i \in DOMAIN s : w[i] = s[i] /\ i \in DOMAIN w
    BY <1>1, <1>2 DEF Parts
  <1>4. \A i \in DOMAIN w : i \notin DOMAIN s =>
           i - Len(s) \in DOMAIN t /\ w[i] = t[i - Len(s)]
    <2> TAKE i \in DOMAIN w
    <2> HAVE i \notin DOMAIN s
    <2>1. i - Len(s) \in 1..Len(t)
      BY <1>1, <1>2 DEF Parts
    <2>2. w[Len(s) + (i - Len(s))] = t[i - Len(s)]
      BY <1>1, <2>1 DEF Parts
    <2>3. Len(s) + (i - Len(s)) = i
      BY <1>2
    <2> QED
      BY <1>2, <2>1, <2>2, <2>3
  <1>5. \A i \in DOMAIN s : Rank(s[i].kind) <= n
    BY DEF UpTo
  <1>6. \A i \in DOMAIN t : Rank(t[i].kind) = n + 1
    BY DEF Ranked
  <1>7. \A i \in DOMAIN w : Rank(w[i].kind) <= n + 1
    <2> TAKE i \in DOMAIN w
    <2>0. Rank(w[i].kind) \in Nat
      BY DEF Rank
    <2>1. CASE i \in DOMAIN s
      BY <2>0, <2>1, <1>3, <1>5
    <2>2. CASE i \notin DOMAIN s
      BY <2>0, <2>2, <1>4, <1>6
    <2> QED
      BY <2>1, <2>2
  <1>8. ASSUME NEW a \in DOMAIN w, NEW b \in DOMAIN w, a < b
        PROVE  w[a] # w[b] /\ Rank(w[a].kind) <= Rank(w[b].kind)
    <2>1. CASE b \in DOMAIN s
      <3>1. a \in DOMAIN s
        BY <1>2, <1>8, <2>1
      <3> QED
        BY <2>1, <3>1, <1>3, <1>8 DEF Sorted
    <2>2. CASE b \notin DOMAIN s /\ a \in DOMAIN s
      <3>1. Rank(w[a].kind) <= n /\ Rank(w[b].kind) = n + 1
        BY <2>2, <1>3, <1>4, <1>5, <1>6
      <3>2. Rank(w[a].kind) \in Nat
        BY DEF Rank
      <3> QED
        BY <3>1, <3>2
    <2>3. CASE b \notin DOMAIN s /\ a \notin DOMAIN s
      <3>1. a - Len(s) # b - Len(s)
        BY <1>2, <1>8
      <3>2. w[a] # w[b]
        BY <2>3, <3>1, <1>4 DEF Distinct
      <3>3. Rank(w[a].kind) = n + 1 /\ Rank(w[b].kind) = n + 1
        BY <2>3, <1>4, <1>6
      <3> QED
        BY <3>2, <3>3
    <2> QED
      BY <2>1, <2>2, <2>3
  <1>9. Range(w) = Range(s) \cup Range(t)
    <2>1. \A i \in DOMAIN w : w[i] \in Range(s) \cup Range(t)
      BY <1>3, <1>4 DEF Range
    <2>2. \A i \in DOMAIN s : s[i] \in Range(w)
      BY <1>3 DEF Range
    <2>3. \A i \in DOMAIN t : t[i] \in Range(w)
      <3> TAKE i \in DOMAIN t
      <3>1. w[Len(s) + i] = t[i] /\ Len(s) + i \in DOMAIN w
        BY <1>1, <1>2 DEF Parts
      <3> QED
        BY <3>1 DEF Range
    <2> QED
      BY <2>1, <2>2, <2>3 DEF Range
  <1> QED
    BY <1>1, <1>7, <1>8, <1>9 DEF w, Sorted, UpTo

\* __exit__ visits what is registered, each resource once, kind after kind.
LEMMA ClosingOrder ==
  ASSUME NEW r, RegisterOK(r)
  PROVE  /\ CloseOrder(r) \in Seq(Id) /\ Sorted(CloseOrder(r))
         /\ Range(CloseOrder(r)) = Registered(r)
  <1>1. Kind = {"mount", "vg", "luks", "md", "loop"}
    BY DEF Kind
  <1> DEFINE rev(k) == Reverse(r[k])
  <1>2. \A k \in Kind : /\ rev(k) \in Seq(Id) /\ Distinct(rev(k)) /\ Range(rev(k)) = Range(r[k])
                        /\ Ranked(rev(k), Rank(k))
    <2> TAKE k \in Kind
    <2>1. r[k] \in Seq(Id) /\ Distinct(r[k]) /\ \A i \in DOMAIN r[k] : r[k][i].kind = k
      BY DEF RegisterOK
    <2>2. rev(k) \in Seq(Id) /\ Distinct(rev(k)) /\ Range(rev(k)) = Range(r[k])
      BY <2>1, Reversed
    <2> HIDE DEF rev
    <2>3. \A i \in DOMAIN rev(k) : rev(k)[i].kind = k
      <3> TAKE i \in DOMAIN rev(k)
      <3>1. rev(k)[i] \in Range(rev(k))
        BY DEF Range
      <3>2. PICK n \in DOMAIN r[k] : rev(k)[i] = r[k][n]
        BY <2>2, <3>1 DEF Range
      <3> QED
        BY <2>1, <3>2
    <2> QED
      BY <2>2, <2>3 DEF Ranked
  <1> HIDE DEF rev
  <1>3. Rank("mount") = 1 /\ Rank("vg") = 2 /\ Rank("luks") = 3 /\ Rank("md") = 4 /\ Rank("loop") = 5
    BY DEF Rank
  <1> DEFINE m == rev("mount")
             v == m \o rev("vg")
             l == v \o rev("luks")
             a == l \o rev("md")
             p == a \o rev("loop")
  <1>4. m \in Seq(Id) /\ Sorted(m) /\ UpTo(m, 1) /\ Range(m) = Range(r["mount"])
    <2>1. m \in Seq(Id) /\ Distinct(m) /\ Ranked(m, 1) /\ Range(m) = Range(r["mount"])
      BY <1>1, <1>2, <1>3
    <2>2. DOMAIN m = 1..Len(m) /\ Len(m) \in Nat
      BY <2>1
    <2> HIDE DEF m
    <2>3. Sorted(m) /\ UpTo(m, 1)
      BY <2>1, <2>2 DEF Sorted, UpTo, Distinct, Ranked
    <2> QED
      BY <2>1, <2>3
  <1> HIDE DEF m
  <1>5. /\ v \in Seq(Id) /\ Sorted(v) /\ UpTo(v, 2)
        /\ Range(v) = Range(r["mount"]) \cup Range(r["vg"])
    <2>1. rev("vg") \in Seq(Id) /\ Distinct(rev("vg")) /\ Ranked(rev("vg"), 1 + 1)
          /\ Range(rev("vg")) = Range(r["vg"])
      BY <1>1, <1>2, <1>3
    <2>2. 1 \in Nat /\ 1 + 1 = 2
      OBVIOUS
    <2>3. /\ v \in Seq(Id) /\ Sorted(v) /\ UpTo(v, 1 + 1)
          /\ Range(v) = Range(m) \cup Range(rev("vg"))
      BY <1>4, <2>1, <2>2, SortedConcat
    <2> QED
      BY <1>4, <2>1, <2>2, <2>3
  <1> HIDE DEF v
  <1>6. /\ l \in Seq(Id) /\ Sorted(l) /\ UpTo(l, 3)
        /\ Range(l) = Range(r["mount"]) \cup Range(r["vg"]) \cup Range(r["luks"])
    <2>1. rev("luks") \in Seq(Id) /\ Distinct(rev("luks")) /\ Ranked(rev("luks"), 2 + 1)
          /\ Range(rev("luks")) = Range(r["luks"])
      BY <1>1, <1>2, <1>3
    <2>2. 2 \in Nat /\ 2 + 1 = 3
      OBVIOUS
    <2>3. /\ l \in Seq(Id) /\ Sorted(l) /\ UpTo(l, 2 + 1)
          /\ Range(l) = Range(v) \cup Range(rev("luks"))
      BY <1>5, <2>1, <2>2, SortedConcat
    <2> QED
      BY <1>5, <2>1, <2>2, <2>3
  <1> HIDE DEF l
  <1>7. /\ a \in Seq(Id) /\ Sorted(a) /\ UpTo(a, 4)
        /\ Range(a) = Range(r["mount"]) \cup Range(r["vg"]) \cup Range(r["luks"]) \cup Range(r["md"])
    <2>1. rev("md") \in Seq(Id) /\ Distinct(rev("md")) /\ Ranked(rev("md"), 3 + 1)
          /\ Range(rev("md")) = Range(r["md"])
      BY <1>1, <1>2, <1>3
    <2>2. 3 \in Nat /\ 3 + 1 = 4
      OBVIOUS
    <2>3. /\ a \in Seq(Id) /\ Sorted(a) /\ UpTo(a, 3 + 1)
          /\ Range(a) = Range(l) \cup Range(rev("md"))
      BY <1>6, <2>1, <2>2, SortedConcat
    <2> QED
      BY <1>6, <2>1, <2>2, <2>3
  <1> HIDE DEF a
  <1>8. /\ p \in Seq(Id) /\ Sorted(p)
        /\ Range(p) = Range(r["mount"]) \cup Range(r["vg"]) \cup Range(r["luks"])
                        \cup Range(r["md"]) \cup Range(r["loop"])
    <2>1. rev("loop") \in Seq(Id) /\ Distinct(rev("loop")) /\ Ranked(rev("loop"), 4 + 1)
          /\ Range(rev("loop")) = Range(r["loop"])
      BY <1>1, <1>2, <1>3
    <2>2. 4 \in Nat
      OBVIOUS
    <2>3. /\ p \in Seq(Id) /\ Sorted(p) /\ UpTo(p, 4 + 1)
          /\ Range(p) = Range(a) \cup Range(rev("loop"))
      BY <1>7, <2>1, <2>2, SortedConcat
    <2> QED
      BY <1>7, <2>1, <2>3
  <1>9. Registered(r) = Range(r["mount"]) \cup Range(r["vg"]) \cup Range(r["luks"])
                          \cup Range(r["md"]) \cup Range(r["loop"])
    BY <1>1 DEF Registered
  <1>10. CloseOrder(r) = p
    BY Zenon DEF CloseOrder, p, a, l, v, m, rev
  <1> HIDE DEF p
  <1> QED
    BY <1>8, <1>9, <1>10

-----------------------------------------------------------------------------
(* What every command of a plan is.                                        *)

Sane(s) ==
    /\ s \in Command
    /\ s.op \in Registering \cup {"umount"} => s.id \in Id
    /\ s.op \in {"open", "create", "vgchange"} => s.id.kind # "mount"
    /\ s.op \in {"open", "create"} => s.id # RootVg
    /\ s.op \in {"mount", "umount"} => \E d \in Dir : s.id = MountAt(d)
    /\ s.op = "vgcreate" => s.on \in Id

\* Every command of every plan is one.
LEMMA PlanSane ==
  ASSUME NEW j \in Job, NEW d \in Doc, Accepted(d), NEW c, c = Parse(d),
         NEW p \in 1..Len(Plan(c, j))
  PROVE  Sane(Plan(c, j)[p])
  <1> DEFINE P == Plan(c, j)
             b == Start(c, j)
             m == Rooted(c, j)
  <1>1. Shape(c, j, P, b, m)
    BY PlanShape
  <1> HIDE DEF P, b, m
  <1>2. P[p] \in Command
    BY <1>1 DEF P, Shape
  <1>3. Loop(j).kind = "loop" /\ (\A part : Array(part).kind = "md") /\ Crypt.kind = "luks"
        /\ RootVg.kind = "vg" /\ (\A x : MountAt(x).kind = "mount") /\ NoId.kind = "none"
    BY DEF Loop, Array, Crypt, RootVg, MountAt, NoId
  <1>4. CASE p \in 1..b
    <2>1. P[p] \in Early(c, j)
      BY <1>1, <1>4 DEF Shape
    <2> QED
      BY <2>1, <1>2, <1>3, Kinds DEF Early, Sane, Registering, P
  <1>5. CASE p \in (m + 1)..Len(P)
    <2>1. P[p] \in Late(c, j)
      BY <1>1, <1>5 DEF Shape
    <2> QED
      BY <2>1, <1>2, <1>3, Kinds DEF Late, Sane, Registering, P
  <1>6. CASE p = b + 1
    <2>1. RootPv(c, j) \in Id
      BY ParseTyped, DevicesBelow, Kinds
    <2> QED
      BY <2>1, <1>1, <1>2, <1>6 DEF Sane, Registering, P, Shape
  <1>7. CASE p = b + 2
    BY <1>1, <1>2, <1>3, <1>7, Kinds DEF Sane, Registering, P, Shape
  <1>8. CASE p = b + 3
    BY <1>1, <1>2, <1>3, <1>8, Kinds DEF Sane, Registering, P, Shape
  <1>9. CASE p = b + 4
    BY <1>1, <1>2, <1>3, <1>9, Kinds DEF Sane, Registering, RootCmd, P, Shape
  <1>10. "/" \in Dir
    BY DirAssumption DEF DefaultDir, Range, NoDir
  <1>11. CASE p = b + 5
    BY <1>1, <1>2, <1>3, <1>10, <1>11, Kinds DEF Sane, Registering, RootCmd, P, Shape
  <1>12. CASE Btrfs(c) /\ p \in {b + 6, b + 7, b + 8}
    BY <1>1, <1>2, <1>3, <1>10, <1>12, Kinds DEF Sane, Registering, RootCmd, P, Shape
  <1> QED
    <2>1. p \in 1..Len(P)
      BY DEF P
    <2>2. P \in Seq(Command) /\ b \in Nat /\ m = IF Btrfs(c) THEN b + 8 ELSE b + 5
      BY <1>1 DEF Shape
    <2>3. \/ p \in 1..b \/ p \in (m + 1)..Len(P) \/ p \in {b + 1, b + 2, b + 3, b + 4, b + 5}
          \/ Btrfs(c) /\ p \in {b + 6, b + 7, b + 8}
      BY <2>1, <2>2
    <2>4. CASE p \in {b + 1, b + 2, b + 3, b + 4, b + 5}
      BY <2>4, <1>6, <1>7, <1>8, <1>9, <1>11
    <2> QED
      BY <2>3, <2>4, <1>4, <1>5, <1>12

-----------------------------------------------------------------------------
(* Mounts of one directory in a plan.                                      *)

\* From position p on, the mount is taken away before position q.
Freed(P, p, q, id) == \E r \in p..(q - 1) : P[r].op = "umount" /\ P[r].id = id

\* Nothing is mounted where something is mounted, and only the given ids are.
Parted(P) ==
    \A p, q \in 1..Len(P) :
        p < q /\ P[p].op = "mount" /\ P[q].op = "mount" /\ P[p].id = P[q].id =>
            Freed(P, p + 1, q, P[p].id)

MountsOnly(P, ids) == \A p \in 1..Len(P) : P[p].op = "mount" => P[p].id \in ids

PartedIn(P, ids) == Parted(P) /\ MountsOnly(P, ids)

\* Commands that mount at other places, one after the other.
LEMMA PartedConcat ==
  ASSUME NEW S, NEW s \in Seq(S), NEW t \in Seq(S), NEW a, NEW b, a \cap b = {},
         PartedIn(s, a), PartedIn(t, b)
  PROVE  PartedIn(s \o t, a \cup b)
  <1> DEFINE w == s \o t
             n == Len(s)
  <1>1. w \in Seq(S) /\ Parts(w, s, t)
    BY ConcatParts
  <1> HIDE DEF w
  <1>2. n \in Nat /\ Len(t) \in Nat /\ Len(w) = n + Len(t)
    BY <1>1 DEF Parts
  <1> HIDE DEF n
  <1>3. \A i \in 1..n : w[i] = s[i]
    BY <1>1 DEF Parts, n
  <1>4. \A i \in 1..Len(w) : i \notin 1..n => i - n \in 1..Len(t) /\ w[i] = t[i - n]
    <2> SUFFICES ASSUME NEW i \in 1..Len(w), i \notin 1..n
                 PROVE  i - n \in 1..Len(t) /\ w[i] = t[i - n]
      OBVIOUS
    <2>1. i - n \in 1..Len(t)
      BY <1>1 DEF Parts, n
    <2>2. w[n + (i - n)] = t[i - n]
      BY <2>1, <1>1 DEF Parts, n
    <2>3. n + (i - n) = i
      BY <1>2
    <2> QED
      BY <2>1, <2>2, <2>3
  <1>5. MountsOnly(w, a \cup b)
    <2> SUFFICES ASSUME NEW p \in 1..Len(w), w[p].op = "mount" PROVE w[p].id \in a \cup b
      BY DEF MountsOnly
    <2>1. CASE p \in 1..n
      BY <2>1, <1>3 DEF PartedIn, MountsOnly, n
    <2>2. CASE p \notin 1..n
      BY <2>2, <1>4 DEF PartedIn, MountsOnly
    <2> QED
      BY <2>1, <2>2
  <1>6. Parted(w)
    <2> SUFFICES ASSUME NEW p \in 1..Len(w), NEW q \in 1..Len(w), p < q,
                        w[p].op = "mount", w[q].op = "mount", w[p].id = w[q].id
                 PROVE  Freed(w, p + 1, q, w[p].id)
      BY DEF Parted
    <2>1. CASE p \in 1..n /\ q \in 1..n
      <3>1. Freed(s, p + 1, q, s[p].id)
        BY <2>1, <1>3 DEF PartedIn, Parted, n
      <3>2. PICK r \in (p + 1)..(q - 1) : s[r].op = "umount" /\ s[r].id = s[p].id
        BY <3>1 DEF Freed
      <3>3. r \in 1..n
        BY <2>1, <1>2
      <3> QED
        BY <3>2, <3>3, <2>1, <1>3 DEF Freed
    <2>2. CASE p \in 1..n /\ q \notin 1..n
      <3>1. w[p].id \in a /\ w[q].id \in b
        BY <2>2, <1>3, <1>4 DEF PartedIn, MountsOnly, n
      <3> QED
        BY <3>1
    <2>3. CASE p \notin 1..n
      <3>1. q \notin 1..n
        BY <2>3, <1>2
      <3> DEFINE x == p - n
                 y == q - n
      <3>2. x \in 1..Len(t) /\ y \in 1..Len(t) /\ x < y /\ w[p] = t[x] /\ w[q] = t[y]
        BY <2>3, <3>1, <1>2, <1>4
      <3> HIDE DEF x, y
      <3>3. Freed(t, x + 1, y, t[x].id)
        BY <3>2 DEF PartedIn, Parted
      <3>4. PICK r \in (x + 1)..(y - 1) : t[r].op = "umount" /\ t[r].id = t[x].id
        BY <3>3 DEF Freed
      <3>5. /\ n + r \in (p + 1)..(q - 1) /\ n + r \in 1..Len(w) /\ n + r \notin 1..n
            /\ (n + r) - n = r
        BY <3>2, <1>2 DEF x, y
      <3>6. w[n + r] = t[r]
        BY <3>5, <1>4
      <3> QED
        BY <3>2, <3>4, <3>5, <3>6 DEF Freed
    <2> QED
      BY <2>1, <2>2, <2>3
  <1> QED
    BY <1>5, <1>6 DEF PartedIn, w

\* Many such sequences, each for places of its own.
LEMMA PartedFlatten ==
  ASSUME NEW S, NEW ss \in Seq(Seq(S)), NEW D, NEW places,
         \A i \in 1..Len(ss) : PartedIn(ss[i], D[i]) /\ D[i] \subseteq places,
         \A i, k \in 1..Len(ss) : i # k => D[i] \cap D[k] = {}
  PROVE  PartedIn(FlattenSeq(ss), places)
  <1>1. CASE ss = <<>>
    <2>1. FlattenSeq(ss) = <<>>
      BY <1>1 DEF FlattenSeq
    <2> QED
      BY <2>1 DEF PartedIn, Parted, MountsOnly
  <1>2. CASE ss # <<>>
    <2>1. PICK f : FlatUpTo(f, ss, Len(ss)) /\ FlattenSeq(ss) = f[Len(ss)]
      BY <1>2, FlattenDefined
    <2> DEFINE ids(n) == UNION {D[i] : i \in 1..n}
    <2> DEFINE Fine(n) == f[n] \in Seq(S) /\ PartedIn(f[n], ids(n))
    <2> DEFINE Bad == {n \in 1..Len(ss) : ~ Fine(n)}
    <2>2. Len(ss) \in Nat \ {0} /\ Bad \in SUBSET Nat
      BY <1>2
    <2>3. f = [i \in 1..Len(ss) |-> IF i = 1 THEN ss[i] ELSE f[i - 1] \o ss[i]]
      BY <2>1 DEF FlatUpTo
    <2>4. Bad = {}
      <3> SUFFICES ASSUME Bad # {} PROVE FALSE
        OBVIOUS
      <3>1. PICK n \in Bad : \A k \in Bad : n <= k
        BY <2>2, LeastNumber
      <3>2. n \in 1..Len(ss) /\ ~ Fine(n)
        OBVIOUS
      <3>3. ss[n] \in Seq(S) /\ PartedIn(ss[n], D[n])
        BY <3>2
      <3>4. CASE n = 1
        <4>1. f[n] = ss[n]
          BY <3>2, <3>4, <2>3
        <4>2. ids(n) = D[n]
          BY <3>4
        <4> HIDE DEF ids
        <4> QED
          BY <4>1, <4>2, <3>2, <3>3
      <3>5. CASE n # 1
        <4>1. n - 1 \in 1..Len(ss) /\ ~ (n <= n - 1)
          BY <3>2, <3>5
        <4>2. Fine(n - 1)
          BY <3>1, <4>1
        <4>3. f[n] = f[n - 1] \o ss[n]
          BY <2>3, <3>2, <3>5
        <4>4. ids(n - 1) \cap D[n] = {}
          <5>1. \A i \in 1..(n - 1) : i \in 1..Len(ss) /\ i # n
            BY <3>2
          <5> QED
            BY <5>1, <3>2
        <4>5. ids(n) = ids(n - 1) \cup D[n]
          <5>1. \A i : i \in 1..n <=> i \in 1..(n - 1) \/ i = n
            BY <3>2
          <5> QED
            BY <5>1
        <4> HIDE DEF ids
        <4>6. f[n - 1] \in Seq(S) /\ PartedIn(f[n - 1], ids(n - 1))
          BY <4>2
        <4> DEFINE t == f[n - 1]
                   u == ss[n]
                   x == ids(n - 1)
                   y == D[n]
        <4>7. t \in Seq(S) /\ u \in Seq(S) /\ PartedIn(t, x) /\ PartedIn(u, y) /\ x \cap y = {}
          BY <4>4, <4>6, <3>3
        <4> HIDE DEF t, u, x, y
        <4>8. PartedIn(t \o u, x \cup y) /\ t \o u \in Seq(S)
          <5>1. PartedIn(t \o u, x \cup y)
            BY <4>7, PartedConcat
          <5> QED
            BY <5>1, <4>7, ConcatProperties
        <4>9. f[n] = t \o u
          BY <4>3 DEF t, u
        <4>10. f[n] \in Seq(S) /\ PartedIn(f[n], ids(n))
          BY <4>5, <4>8, <4>9, Zenon DEF x, y
        <4> QED
          BY <4>10, <3>2
      <3> QED
        BY <3>4, <3>5
    <2>5. Fine(Len(ss))
      <3>1. Len(ss) \in 1..Len(ss)
        BY <2>2
      <3> HIDE DEF Fine
      <3> QED
        BY <3>1, <2>4
    <2>6. ids(Len(ss)) \subseteq places
      OBVIOUS
    <2> HIDE DEF ids
    <2> QED
      BY <2>1, <2>5, <2>6 DEF PartedIn, MountsOnly
  <1> QED
    BY <1>1, <1>2

\* The commands for one volume.
FsCmd(op, id, on) == [op |-> op, id |-> id, on |-> on]

\* Commands that mount nothing, and those that mount a volume once.
LEMMA ShortParted ==
  ASSUME NEW on, NEW d
  PROVE  /\ PartedIn(<<>>, {})
         /\ \A op : op # "mount" => \A id : PartedIn(<<FsCmd(op, id, on)>>, {})
         /\ PartedIn(<<FsCmd("run", NoId, on), FsCmd("mount", MountAt(d), on)>>, {MountAt(d)})
         /\ PartedIn(<<FsCmd("run", NoId, on), FsCmd("mount", MountAt(d), on), FsCmd("run", NoId, on),
                       FsCmd("umount", MountAt(d), on), FsCmd("mount", MountAt(d), on)>>, {MountAt(d)})
  <1>1. PartedIn(<<>>, {})
    BY DEF PartedIn, Parted, MountsOnly
  <1>2. ASSUME NEW op, op # "mount", NEW id PROVE PartedIn(<<FsCmd(op, id, on)>>, {})
    <2> DEFINE w == <<FsCmd(op, id, on)>>
    <2>1. \A p \in 1..Len(w) : w[p].op # "mount"
      BY <1>2 DEF FsCmd
    <2> HIDE DEF w
    <2>2. PartedIn(w, {})
      BY <2>1 DEF PartedIn, Parted, MountsOnly
    <2> QED
      BY <2>2 DEF w
  <1>3. PartedIn(<<FsCmd("run", NoId, on), FsCmd("mount", MountAt(d), on)>>, {MountAt(d)})
    <2> DEFINE w == <<FsCmd("run", NoId, on), FsCmd("mount", MountAt(d), on)>>
    <2>1. /\ Len(w) = 2 /\ w[1].op = "run" /\ w[2].id = MountAt(d)
      BY DEF FsCmd
    <2> HIDE DEF w
    <2>2. \A p \in 1..Len(w) : w[p].op = "mount" => p = 2
      BY <2>1
    <2>3. PartedIn(w, {MountAt(d)})
      BY <2>1, <2>2 DEF PartedIn, Parted, MountsOnly
    <2> QED
      BY <2>3 DEF w
  <1>4. PartedIn(<<FsCmd("run", NoId, on), FsCmd("mount", MountAt(d), on), FsCmd("run", NoId, on),
                   FsCmd("umount", MountAt(d), on), FsCmd("mount", MountAt(d), on)>>, {MountAt(d)})
    <2> DEFINE w == <<FsCmd("run", NoId, on), FsCmd("mount", MountAt(d), on), FsCmd("run", NoId, on),
                      FsCmd("umount", MountAt(d), on), FsCmd("mount", MountAt(d), on)>>
    <2>1. /\ Len(w) = 5 /\ w[1].op = "run" /\ w[2].id = MountAt(d) /\ w[3].op = "run"
          /\ w[4].op = "umount" /\ w[4].id = MountAt(d) /\ w[5].id = MountAt(d)
      BY DEF FsCmd
    <2> HIDE DEF w
    <2>2. \A p \in 1..Len(w) : w[p].op = "mount" => p = 2 \/ p = 5
      BY <2>1
    <2>3. MountsOnly(w, {MountAt(d)})
      BY <2>1, <2>2 DEF MountsOnly
    <2>4. Parted(w)
      <3> SUFFICES ASSUME NEW p \in 1..Len(w), NEW q \in 1..Len(w), p < q,
                          w[p].op = "mount", w[q].op = "mount"
                   PROVE  Freed(w, p + 1, q, w[p].id)
        BY DEF Parted
      <3>1. p = 2 /\ q = 5
        BY <2>2
      <3>2. 4 \in (p + 1)..(q - 1) /\ w[4].op = "umount" /\ w[4].id = w[p].id
        BY <2>1, <3>1
      <3> QED
        BY <3>2 DEF Freed
    <2>5. PartedIn(w, {MountAt(d)})
      BY <2>3, <2>4 DEF PartedIn
    <2> QED
      BY <2>5 DEF w
  <1> QED
    BY <1>1, <1>2, <1>3, <1>4

\* A single command that mounts nothing.
LEMMA OneParted ==
  ASSUME NEW op \in Op \ {"mount"}, NEW id \in Id \cup {NoId}, NEW on \in Id \cup {NoId}
  PROVE  PartedIn(<<FsCmd(op, id, on)>>, {}) /\ <<FsCmd(op, id, on)>> \in Seq(Command)
  <1>1. PartedIn(<<FsCmd(op, id, on)>>, {})
    BY ShortParted
  <1>2. FsCmd(op, id, on) \in Command
    BY DEF FsCmd, Command
  <1> QED
    BY <1>1, <1>2

\* Where a volume is mounted.
PlaceOf(v) == IF IsMounted(v) THEN {MountAt(v.dir)} ELSE {}
PlacesOf(vs) == UNION {PlaceOf(vs[i]) : i \in 1..Len(vs)}

\* init_fs() takes away what it has mounted before it mounts the volume for good.
LEMMA InitFsParted ==
  ASSUME NEW v \in OtherVolume, NEW on \in Id \cup {NoId}
  PROVE  PartedIn(InitFs(v, on), PlaceOf(v)) /\ InitFs(v, on) \in Seq(Command)
  <1> DEFINE d == v.dir
             run == FsCmd("run", NoId, on)
             mount == FsCmd("mount", MountAt(d), on)
             umount == FsCmd("umount", MountAt(d), on)
  <1>1. \A op, id : Cmd(op, id, on) = <<FsCmd(op, id, on)>>
    BY DEF Cmd, FsCmd
  <1>2. run \in Command
    BY DEF FsCmd, Command, Op
  <1>one. \A op \in {"run", "refuse"} : /\ PartedIn(<<FsCmd(op, NoId, on)>>, {})
                                       /\ <<FsCmd(op, NoId, on)>> \in Seq(Command)
    BY OneParted DEF Op
  <1>3. CASE d = NoDir
    <2>1. PlaceOf(v) = {}
      BY <1>3 DEF PlaceOf, IsMounted
    <2>2. CASE v.fstype = "btrfs"
      <3>1. InitFs(v, on) = <<FsCmd("refuse", NoId, on)>>
        BY <1>1, <1>3, <2>2 DEF InitFs
      <3> QED
        BY <3>1, <2>1, <1>one, Zenon
    <2>3. CASE v.fstype # "btrfs"
      <3>1. InitFs(v, on) = <<run>> \o <<>> \o <<>>
        BY <1>1, <1>3, <2>3 DEF InitFs, When
      <3> HIDE DEF run
      <3>2. InitFs(v, on) = <<run>>
        BY <3>1
      <3> QED
        BY <3>2, <2>1, <1>one, Zenon DEF run
    <2> QED
      BY <2>2, <2>3
  <1>4. CASE d # NoDir /\ v.fstype = "swap"
    <2>1. PlaceOf(v) = {}
      BY <1>4 DEF PlaceOf, IsMounted
    <2>2. InitFs(v, on) = <<run>> \o <<>> \o <<>>
      BY <1>1, <1>4 DEF InitFs, When
    <2> HIDE DEF run
    <2>3. InitFs(v, on) = <<run>>
      BY <2>2
    <2> QED
      BY <2>1, <2>3, <1>one, Zenon DEF run
  <1>5. CASE d # NoDir /\ v.fstype # "swap"
    <2>1. PlaceOf(v) = {MountAt(d)}
      BY <1>5 DEF PlaceOf, IsMounted
    <2>2. mount \in Command /\ umount \in Command
      <3>1. d \in Dir
        BY <1>5 DEF OtherVolume
      <3> QED
        BY <3>1, Kinds DEF FsCmd, Command, Op
    <2>3. CASE v.fstype = "btrfs"
      <3>1. InitFs(v, on) = <<run>> \o (<<mount>> \o <<run>> \o <<umount>>) \o <<mount>>
        BY <2>3, <1>1, <1>5 DEF InitFs, When
      <3> HIDE DEF run, mount, umount
      <3>2. <<run>> \o (<<mount>> \o <<run>> \o <<umount>>) \o <<mount>>
               = <<run, mount, run, umount, mount>>
        <4>1. \A a, b, e, f, g \in Command :
                 <<a>> \o (<<b>> \o <<e>> \o <<f>>) \o <<g>> = <<a, b, e, f, g>>
          BY FiveInOrder
        <4> QED
          BY <1>2, <2>2, <4>1
      <3>3. PartedIn(<<run, mount, run, umount, mount>>, {MountAt(d)})
        BY ShortParted, Zenon DEF run, mount, umount
      <3>4. <<run, mount, run, umount, mount>> \in Seq(Command)
        BY <1>2, <2>2
      <3> QED
        BY <3>1, <3>2, <3>3, <3>4, <2>1, Zenon
    <2>4. CASE v.fstype # "btrfs"
      <3>1. InitFs(v, on) = <<run>> \o <<>> \o <<mount>>
        BY <2>4, <1>1, <1>5 DEF InitFs, When
      <3> HIDE DEF run, mount, umount
      <3>2. InitFs(v, on) = <<run, mount>>
        BY <3>1, <1>2, <2>2, TwoInOrder
      <3>3. PartedIn(<<run, mount>>, {MountAt(d)})
        BY ShortParted, Zenon DEF run, mount
      <3>4. <<run, mount>> \in Seq(Command)
        BY <1>2, <2>2
      <3> QED
        BY <3>2, <3>3, <3>4, <2>1, Zenon
    <2> QED
      BY <2>3, <2>4
  <1> QED
    BY <1>3, <1>4, <1>5

\* No two volumes of the list at one place.
Unshared(vs) == \A i, k \in 1..Len(vs) : i # k => ~ AtOnePlace(vs[i], vs[k])

\* Volumes of their own places.
LEMMA PlacesApart ==
  ASSUME NEW v, NEW w, ~ AtOnePlace(v, w)
  PROVE  PlaceOf(v) \cap PlaceOf(w) = {}
  <1>1. \A d, e : MountAt(d) = MountAt(e) => d = e
    BY DEF MountAt
  <1> QED
    BY <1>1 DEF AtOnePlace, PlaceOf

\* The commands for several volumes, a sequence for each.
LEMMA VolumesParted ==
  ASSUME NEW vs \in Seq(OtherVolume), Unshared(vs), NEW ss \in Seq(Seq(Command)), Len(ss) = Len(vs),
         \A i \in 1..Len(vs) : PartedIn(ss[i], PlaceOf(vs[i]))
  PROVE  PartedIn(FlattenSeq(ss), PlacesOf(vs)) /\ FlattenSeq(ss) \in Seq(Command)
  <1> DEFINE D == [i \in 1..Len(vs) |-> PlaceOf(vs[i])]
  <1>1. \A i \in 1..Len(ss) : D[i] = PlaceOf(vs[i])
    OBVIOUS
  <1>2. \A i, k \in 1..Len(vs) : i # k => PlaceOf(vs[i]) \cap PlaceOf(vs[k]) = {}
    BY PlacesApart DEF Unshared
  <1> HIDE DEF D
  <1>3. \A i, k \in 1..Len(ss) : i # k => D[i] \cap D[k] = {}
    BY <1>1, <1>2
  <1>4. \A i \in 1..Len(ss) : PartedIn(ss[i], D[i]) /\ D[i] \subseteq PlacesOf(vs)
    BY <1>1 DEF PlacesOf
  <1> QED
    BY <1>3, <1>4, PartedFlatten, FlattenPieces

\* Those of the partitions.
LEMMA InitEachParted ==
  ASSUME NEW vs \in Seq(OtherVolume), NEW on \in Id \cup {NoId}, Unshared(vs)
  PROVE  PartedIn(InitEach(vs, on), PlacesOf(vs)) /\ InitEach(vs, on) \in Seq(Command)
  <1> DEFINE ss == [i \in DOMAIN vs |-> InitFs(vs[i], on)]
  <1>1. DOMAIN vs = 1..Len(vs) /\ Len(vs) \in Nat
    OBVIOUS
  <1>2. \A i \in 1..Len(vs) : /\ PartedIn(InitFs(vs[i], on), PlaceOf(vs[i]))
                              /\ InitFs(vs[i], on) \in Seq(Command)
    BY InitFsParted
  <1>3. /\ ss \in Seq(Seq(Command)) /\ Len(ss) = Len(vs)
        /\ \A i \in 1..Len(vs) : PartedIn(ss[i], PlaceOf(vs[i]))
    BY <1>1, <1>2
  <1>4. InitEach(vs, on) = FlattenSeq(ss)
    BY DEF InitEach
  <1> HIDE DEF ss
  <1> QED
    BY <1>3, <1>4, VolumesParted

\* Those of the further volumes of the volume group.
LEMMA ExtraVolumesParted ==
  ASSUME NEW c, NEW vs \in Seq(OtherVolume), c.volumes = vs, Unshared(vs)
  PROVE  PartedIn(ExtraVolumes(c), PlacesOf(vs)) /\ ExtraVolumes(c) \in Seq(Command)
  <1> DEFINE lv == Cmd("lvcreate", RootVg, NoId)
             ss == [i \in DOMAIN vs |-> lv \o InitFs(vs[i], RootVg)]
  <1>1. DOMAIN vs = 1..Len(vs) /\ Len(vs) \in Nat
    OBVIOUS
  <1>2. \A i \in 1..Len(vs) : /\ PartedIn(lv \o InitFs(vs[i], RootVg), PlaceOf(vs[i]))
                              /\ lv \o InitFs(vs[i], RootVg) \in Seq(Command)
    <2> TAKE i \in 1..Len(vs)
    <2>1. vs[i] \in OtherVolume /\ RootVg \in Id \cup {NoId}
      BY Kinds
    <2> DEFINE s == InitFs(vs[i], RootVg)
    <2>2. PartedIn(s, PlaceOf(vs[i])) /\ s \in Seq(Command)
      BY <2>1, InitFsParted
    <2>3. lv = <<FsCmd("lvcreate", RootVg, NoId)>>
      BY DEF Cmd, FsCmd
    <2>4. PartedIn(lv, {}) /\ lv \in Seq(Command)
      BY <2>3, OneParted, Kinds DEF Op
    <2> DEFINE x == PlaceOf(vs[i])
    <2> HIDE DEF s, lv, x
    <2>5. PartedIn(lv \o s, {} \cup x)
      BY <2>2, <2>4, PartedConcat DEF x
    <2> QED
      BY <2>2, <2>4, <2>5 DEF s, x
  <1>3. /\ ss \in Seq(Seq(Command)) /\ Len(ss) = Len(vs)
        /\ \A i \in 1..Len(vs) : PartedIn(ss[i], PlaceOf(vs[i]))
    BY <1>1, <1>2
  <1>4. ExtraVolumes(c) = FlattenSeq(ss)
    BY DEF ExtraVolumes
  <1> HIDE DEF ss
  <1> QED
    BY <1>3, <1>4, VolumesParted

\* The volumes of one list are mounted elsewhere than those of another one.
Apart(s, t) == \A i \in 1..Len(s), k \in 1..Len(t) : ~ AtOnePlace(s[i], t[k])

\* The parts of a list without a shared place.
LEMMA UnsharedParts ==
  ASSUME NEW S, NEW s \in Seq(S), NEW t \in Seq(S), Unshared(s \o t)
  PROVE  Unshared(s) /\ Unshared(t) /\ Apart(s, t)
  <1> DEFINE w == s \o t
             n == Len(s)
  <1>1. Parts(w, s, t) /\ Unshared(w)
    BY ConcatParts
  <1> HIDE DEF w
  <1>2. n \in Nat
    OBVIOUS
  <1> HIDE DEF n
  <1>3. /\ \A i \in 1..n : w[i] = s[i] /\ i \in 1..Len(w)
        /\ \A i \in 1..Len(t) : w[n + i] = t[i] /\ n + i \in 1..Len(w)
    BY <1>1 DEF Parts, n
  <1>4. Unshared(s)
    BY <1>1, <1>3 DEF Unshared, n
  <1>5. Unshared(t)
    <2> SUFFICES ASSUME NEW i \in 1..Len(t), NEW k \in 1..Len(t), i # k
                 PROVE  ~ AtOnePlace(t[i], t[k])
      BY DEF Unshared
    <2>1. n + i # n + k
      BY <1>2
    <2> QED
      BY <2>1, <1>1, <1>3 DEF Unshared
  <1>6. Apart(s, t)
    <2> SUFFICES ASSUME NEW i \in 1..n, NEW k \in 1..Len(t) PROVE ~ AtOnePlace(s[i], t[k])
      BY DEF Apart, n
    <2>1. i # n + k
      BY <1>2
    <2> QED
      BY <2>1, <1>1, <1>3 DEF Unshared
  <1> QED
    BY <1>4, <1>5, <1>6

\* What is apart from two lists together is apart from each.
LEMMA ApartParts ==
  ASSUME NEW S, NEW s \in Seq(S), NEW t \in Seq(S), NEW u, Apart(s \o t, u)
  PROVE  Apart(s, u) /\ Apart(t, u)
  <1> DEFINE w == s \o t
             n == Len(s)
  <1>1. Parts(w, s, t) /\ Apart(w, u)
    BY ConcatParts
  <1> HIDE DEF w, n
  <1>2. /\ \A i \in 1..n : w[i] = s[i] /\ i \in 1..Len(w)
        /\ \A i \in 1..Len(t) : w[n + i] = t[i] /\ n + i \in 1..Len(w)
    BY <1>1 DEF Parts, n
  <1> QED
    BY <1>1, <1>2 DEF Apart, n

\* None of the volumes is at a directory that is mounted for the chroot.
Outside(vs) == \A i \in 1..Len(vs) : IsMounted(vs[i]) => vs[i].dir \notin Range(ChrootDirs)

\* So it is for the parts of a list.
LEMMA OutsideParts ==
  ASSUME NEW S, NEW s \in Seq(S), NEW t \in Seq(S), Outside(s \o t)
  PROVE  Outside(s) /\ Outside(t)
  <1> DEFINE w == s \o t
             n == Len(s)
  <1>1. Parts(w, s, t) /\ Outside(w)
    BY ConcatParts
  <1> HIDE DEF w, n
  <1>2. /\ \A i \in 1..n : w[i] = s[i] /\ i \in 1..Len(w)
        /\ \A i \in 1..Len(t) : w[n + i] = t[i] /\ n + i \in 1..Len(w)
    BY <1>1 DEF Parts, n
  <1> QED
    BY <1>1, <1>2 DEF Outside, n

ChrootPlaces == {MountAt(d) : d \in Range(ChrootDirs)}

\* Lists apart, and the chroot, have different places.
LEMMA PlacesDisjoint ==
  /\ \A d, e : MountAt(d) = MountAt(e) => d = e
  /\ \A s, t : Apart(s, t) => PlacesOf(s) \cap PlacesOf(t) = {}
  /\ \A s : Outside(s) => PlacesOf(s) \cap ChrootPlaces = {}
  <1>1. \A d, e : MountAt(d) = MountAt(e) => d = e
    BY DEF MountAt
  <1>2. ASSUME NEW s, NEW t, Apart(s, t) PROVE PlacesOf(s) \cap PlacesOf(t) = {}
    BY <1>2, PlacesApart DEF Apart, PlacesOf
  <1>3. ASSUME NEW s, Outside(s) PROVE PlacesOf(s) \cap ChrootPlaces = {}
    <2>1. \A i \in 1..Len(s) : PlaceOf(s[i]) \cap ChrootPlaces = {}
      BY <1>1, <1>3 DEF Outside, PlaceOf, ChrootPlaces
    <2> QED
      BY <2>1 DEF PlacesOf
  <1> QED
    BY <1>1, <1>2, <1>3

\* The chroot's mounts, if no directory is listed twice.
LEMMA ChrootParted ==
  ASSUME NEW j \in Job, IsInjective(ChrootDirs)
  PROVE  PartedIn(ChrootMounts, ChrootPlaces) /\ ChrootMounts \in Seq(Command)
  <1>1. /\ DOMAIN ChrootDirs = 1..Len(ChrootDirs) /\ Len(ChrootDirs) \in Nat
        /\ \A i \in DOMAIN ChrootDirs : ChrootDirs[i] \in Dir \ {"/"}
    BY ChrootAssumption
  <1>2. ChrootMounts \in Seq(Command)
    <2>1. ChrootMounts \in Seq(Late(NoConfig, j)) /\ Late(NoConfig, j) \subseteq Command
      BY ChrootLate DEF Late
    <2> QED
      BY <2>1, SeqMonotonic
  <1>3. /\ Len(ChrootMounts) = Len(ChrootDirs)
        /\ \A i \in 1..Len(ChrootDirs) : ChrootMounts[i].id = MountAt(ChrootDirs[i])
    <2>1. DOMAIN ChrootMounts = 1..Len(ChrootDirs)
      BY <1>1 DEF ChrootMounts
    <2>2. Len(ChrootMounts) = Len(ChrootDirs)
      BY <2>1, <1>1, <1>2
    <2>3. \A i \in 1..Len(ChrootDirs) : ChrootMounts[i].id = MountAt(ChrootDirs[i])
      BY <1>1 DEF ChrootMounts
    <2> QED
      BY <2>2, <2>3
  <1>4. MountsOnly(ChrootMounts, ChrootPlaces)
    <2>1. \A i \in 1..Len(ChrootDirs) : ChrootDirs[i] \in Range(ChrootDirs)
      BY <1>1 DEF Range
    <2> QED
      BY <2>1, <1>3 DEF MountsOnly, ChrootPlaces
  <1>5. Parted(ChrootMounts)
    <2> SUFFICES ASSUME NEW p \in 1..Len(ChrootDirs), NEW q \in 1..Len(ChrootDirs), p < q,
                        ChrootMounts[p].id = ChrootMounts[q].id
                 PROVE  FALSE
      BY <1>3 DEF Parted
    <2>1. ChrootDirs[p] = ChrootDirs[q]
      BY <1>3, PlacesDisjoint
    <2>2. p = q
      BY <2>1, <1>1 DEF IsInjective
    <2> QED
      BY <2>2
  <1> QED
    BY <1>2, <1>4, <1>5 DEF PartedIn

\* Commands that mount nothing.
Mountless == {s \in Command : s.op # "mount"}

\* They are at no place.
LEMMA MountlessParted ==
  ASSUME NEW s \in Seq(Mountless)
  PROVE  PartedIn(s, {}) /\ s \in Seq(Command)
  <1>1. \A p \in 1..Len(s) : s[p] \in Mountless
    OBVIOUS
  <1>2. s \in Seq(Command)
    BY SeqMonotonic DEF Mountless
  <1> QED
    BY <1>1, <1>2 DEF Mountless, PartedIn, Parted, MountsOnly

\* What configures the root filesystem mounts nothing.
LEMMA ConfigureParted ==
  ASSUME NEW j \in Job, NEW c
  PROVE  PartedIn(ConfigureRootfs(c, j), {}) /\ ConfigureRootfs(c, j) \in Seq(Command)
  <1> DEFINE M == Seq(Mountless)
  <1>1. \A s, t \in M : s \o t \in M
    OBVIOUS
  <1>2. \A on \in Id \cup {NoId} :
           /\ Cmd("run", NoId, on) \in M
           /\ \A cond : When(cond, Cmd("run", NoId, on)) \in M
    <2> TAKE on \in Id \cup {NoId}
    <2>1. Cmd("run", NoId, on) \in M
      BY DEF Cmd, Mountless, Command, Op
    <2>2. <<>> \in M
      OBVIOUS
    <2> QED
      BY <2>1, <2>2, Zenon DEF When
  <1>3. {Array("boot"), Array("root"), NoId, Loop(j)} \subseteq Id \cup {NoId}
    BY Kinds
  <1> DEFINE a == When(c.bootRaid, Cmd("run", NoId, Array("boot")))
             b == When(c.rootRaid, Cmd("run", NoId, Array("root")))
             l == When(c.luks, Cmd("run", NoId, NoId))
             r == Cmd("run", NoId, NoId)
             g == When(~c.uefi, Cmd("run", NoId, Loop(j)))
             s == When(c.snapper /\ c.root[1].fstype = "btrfs", Cmd("run", NoId, NoId))
  <1>4. a \in M /\ b \in M /\ l \in M /\ r \in M /\ g \in M /\ s \in M
    BY <1>2, <1>3
  <1>5. ConfigureRootfs(c, j) = a \o b \o l \o r \o r \o r \o g \o s
    BY Zenon DEF ConfigureRootfs
  <1> HIDE DEF a, b, l, r, g, s
  <1>6. ConfigureRootfs(c, j) \in M
    BY <1>1, <1>4, <1>5
  <1> QED
    BY <1>6, MountlessParted

\* Two sequences at different places, in one set of places.
LEMMA PartedTwo ==
  ASSUME NEW s \in Seq(Command), NEW t \in Seq(Command), NEW a, NEW b,
         PartedIn(s, a), PartedIn(t, b), a \cap b = {}
  PROVE  PartedIn(s \o t, a \cup b) /\ s \o t \in Seq(Command)
  <1>1. PartedIn(s \o t, a \cup b)
    BY PartedConcat
  <1>2. s \o t \in Seq(Command)
    BY ConcatProperties
  <1> QED
    BY <1>1, <1>2

\* With no key of opened_mount used twice, the plan mounts nothing where it has
\* something mounted.
LEMMA PlanParted ==
  ASSUME NEW j \in Job, NEW d \in Doc, Accepted(d), NEW c, c = Parse(d), ~ SharedKey(c)
  PROVE  Parted(Plan(c, j))
  <1>1. /\ c.bootRaid \in BOOLEAN /\ c.rootRaid \in BOOLEAN /\ c.luks \in BOOLEAN
        /\ \A l \in {"boot", "esp", "swap", "volumes"} : c[l] \in Seq(OtherVolume)
    BY ParseTyped
  <1> DEFINE boot == c.boot
             esp == c.esp \o c.swap
             vs == c.volumes
             chroot == ChrootMounts
             conf == ConfigureRootfs(c, j)
             ALL == Seq(Command)
  <1>2. PICK v : c.root = <<v>> /\ v.fstype \in FsType \ {"swap"} /\ v.dir = "/"
    BY RootVolume
  <1>3. boot \in Seq(OtherVolume) /\ esp \in Seq(OtherVolume) /\ vs \in Seq(OtherVolume)
    <2>1. c.boot \in Seq(OtherVolume) /\ c.esp \in Seq(OtherVolume) /\ c.swap \in Seq(OtherVolume)
          /\ c.volumes \in Seq(OtherVolume)
      BY <1>1
    <2> QED
      BY <2>1, ConcatProperties
  <1>4. /\ Unshared(boot) /\ Unshared(esp) /\ Unshared(vs)
        /\ Apart(boot, esp) /\ Apart(boot, vs) /\ Apart(esp, vs)
        /\ Outside(boot) /\ Outside(esp) /\ Outside(vs) /\ IsInjective(ChrootDirs)
    <2> DEFINE T == OtherVolume \cup {v}
               A == Seq(T)
               x == c.root \o boot
               y == x \o esp
               w == y \o vs
    <2>1. c.root \in A /\ boot \in A /\ esp \in A /\ vs \in A
      <3>1. c.root \in A
        BY <1>2
      <3> HIDE DEF boot, esp, vs
      <3>2. boot \in A /\ esp \in A /\ vs \in A
        BY <1>3, SeqMonotonic
      <3> QED
        BY <3>1, <3>2
    <2>2. c # NoConfig
      <3>1. "luks" \in DOMAIN c
        BY DEF Parse
      <3>2. DOMAIN NoConfig = {}
        BY DEF NoConfig
      <3> QED
        BY <3>1, <3>2
    <2>3. VolumesOf(c) = w
      BY Zenon DEF VolumesOf
    <2> HIDE DEF boot, esp, vs, T
    <2>4. x \in A /\ y \in A /\ w \in A
      BY <2>1, ConcatProperties
    <2> HIDE DEF w
    <2>5. DOMAIN w = 1..Len(w)
      BY <2>4
    <2>6. Unshared(w) /\ Outside(w) /\ IsInjective(ChrootDirs)
      BY <2>2, <2>3, <2>5 DEF SharedKey, Unshared, Outside
    <2> HIDE DEF x, y
    <2>7. Unshared(y) /\ Unshared(vs) /\ Apart(y, vs) /\ Outside(y) /\ Outside(vs)
      BY <2>1, <2>4, <2>6, UnsharedParts, OutsideParts DEF w
    <2>8. /\ Unshared(x) /\ Unshared(esp) /\ Apart(x, esp) /\ Outside(x) /\ Outside(esp)
          /\ Apart(x, vs) /\ Apart(esp, vs)
      BY <2>1, <2>4, <2>7, UnsharedParts, OutsideParts, ApartParts DEF y
    <2>9. /\ Unshared(boot) /\ Outside(boot) /\ Apart(boot, esp) /\ Apart(boot, vs)
      BY <2>1, <2>4, <2>8, UnsharedParts, OutsideParts, ApartParts DEF x
    <2> QED
      BY <2>6, <2>7, <2>8, <2>9
  <1> HIDE DEF boot, esp, vs
  <1>5. /\ PartedIn(InitEach(boot, BootDev(c, j)), PlacesOf(boot))
        /\ InitEach(boot, BootDev(c, j)) \in ALL
        /\ PartedIn(InitEach(esp, Loop(j)), PlacesOf(esp)) /\ InitEach(esp, Loop(j)) \in ALL
        /\ PartedIn(ExtraVolumes(c), PlacesOf(vs)) /\ ExtraVolumes(c) \in ALL
    <2>1. BootDev(c, j) \in Id \cup {NoId} /\ Loop(j) \in Id \cup {NoId}
      BY DeviceChoices, Kinds
    <2>2. c.volumes = vs
      BY DEF vs
    <2> QED
      BY <1>3, <1>4, <2>1, <2>2, InitEachParted, ExtraVolumesParted
  <1>6. /\ PartedIn(Cmd("unpack", NoId, NoId), {}) /\ Cmd("unpack", NoId, NoId) \in ALL
        /\ PartedIn(chroot, ChrootPlaces) /\ chroot \in ALL
        /\ PartedIn(conf, {}) /\ conf \in ALL
    <2>1. Cmd("unpack", NoId, NoId) = <<FsCmd("unpack", NoId, NoId)>>
      BY DEF Cmd, FsCmd
    <2>2. "unpack" \in Op \ {"mount"}
      BY DEF Op
    <2>3. PartedIn(<<FsCmd("unpack", NoId, NoId)>>, {}) /\ <<FsCmd("unpack", NoId, NoId)>> \in ALL
      BY <2>2, OneParted
    <2> QED
      BY <2>1, <2>3, <1>4, ChrootParted, ConfigureParted
  <1>7. /\ PlacesOf(boot) \cap PlacesOf(esp) = {} /\ PlacesOf(boot) \cap PlacesOf(vs) = {}
        /\ PlacesOf(esp) \cap PlacesOf(vs) = {}
        /\ \A l \in {boot, esp, vs} : PlacesOf(l) \cap ChrootPlaces = {}
    BY <1>4, PlacesDisjoint
  <1> DEFINE a1 == InitEach(boot, BootDev(c, j))
             a2 == a1 \o InitEach(esp, Loop(j))
             a3 == a2 \o ExtraVolumes(c)
             a4 == a3 \o Cmd("unpack", NoId, NoId)
             a5 == a4 \o chroot
             a6 == a5 \o conf
             p1 == PlacesOf(boot)
             p2 == p1 \cup PlacesOf(esp)
             p3 == p2 \cup PlacesOf(vs)
             p5 == p3 \cup ChrootPlaces
  <1>8. After(c, j) = a6
    BY Zenon DEF After, boot, esp
  <1> HIDE DEF chroot, conf
  <1>9. PartedIn(a2, p2) /\ a2 \in ALL
    <2> HIDE DEF a1
    <2> QED
      BY <1>5, <1>7, PartedTwo DEF a1
  <1>10. PartedIn(a3, p3) /\ a3 \in ALL
    <2>1. p2 \cap PlacesOf(vs) = {}
      BY <1>7
    <2> HIDE DEF a2, p2
    <2> QED
      BY <1>5, <1>9, <2>1, PartedTwo
  <1>11. PartedIn(a4, p3) /\ a4 \in ALL
    <2> HIDE DEF a3, p3
    <2>1. PartedIn(a4, p3 \cup {}) /\ a4 \in ALL
      BY <1>6, <1>10, PartedTwo
    <2> QED
      BY <2>1
  <1>12. PartedIn(a5, p5) /\ a5 \in ALL
    <2>1. p3 \cap ChrootPlaces = {}
      BY <1>7
    <2> HIDE DEF a4, p3
    <2> QED
      BY <1>6, <1>11, <2>1, PartedTwo
  <1>13. PartedIn(a6, p5) /\ a6 \in ALL
    <2> HIDE DEF a5, p5
    <2>1. PartedIn(a6, p5 \cup {}) /\ a6 \in ALL
      BY <1>6, <1>12, PartedTwo
    <2> QED
      BY <2>1
  <1>14. MountAt("/") \notin p5
    <2>1. \A l \in Seq(OtherVolume) : \A i \in 1..Len(l) : l[i].dir # "/"
      <3>1. NoDir # "/"
        BY DEF NoDir
      <3>2. \A w \in OtherVolume : w.dir # "/"
        BY <3>1 DEF OtherVolume
      <3> QED
        BY <3>2
    <2>2. \A l \in {boot, esp, vs} : MountAt("/") \notin PlacesOf(l)
      BY <1>3, <2>1, PlacesDisjoint DEF PlacesOf, PlaceOf
    <2>3. MountAt("/") \notin ChrootPlaces
      BY ChrootAssumption, PlacesDisjoint DEF ChrootPlaces, Range
    <2> QED
      BY <2>2, <2>3
  <1> HIDE DEF a6, p5
  <1> DEFINE R == RootFs(Btrfs(c))
             V == OpenVg(c, j)
             B == Before(c, j)
  <1>15. Plan(c, j) = B \o (V \o R) \o a6 /\ B \in Seq(Early(c, j)) /\ V \in ALL /\ R \in ALL
    BY <1>8, PlanSplit DEF Center
  <1>16. PartedIn(B, {}) /\ B \in ALL
    <2>1. Early(c, j) \subseteq Mountless
      BY DEF Early, Mountless
    <2>2. B \in Seq(Mountless)
      BY <1>15, <2>1, SeqMonotonic
    <2> QED
      BY <2>2, MountlessParted
  <1>17. PartedIn(V, {})
    <2>1. /\ Len(V) = 3 /\ V[1].op # "mount" /\ V[2].op # "mount" /\ V[3].op # "mount"
      BY DEF OpenVg
    <2> HIDE DEF V
    <2> QED
      BY <2>1 DEF PartedIn, Parted, MountsOnly
  <1>18. PartedIn(R, {MountAt("/")})
    <2>1. \A op, id : RootCmd(op, id) = FsCmd(op, id, RootVg)
      BY DEF RootCmd, FsCmd
    <2>2. R = IF Btrfs(c)
              THEN <<FsCmd("run", NoId, RootVg), FsCmd("mount", MountAt("/"), RootVg),
                     FsCmd("run", NoId, RootVg), FsCmd("umount", MountAt("/"), RootVg),
                     FsCmd("mount", MountAt("/"), RootVg)>>
              ELSE <<FsCmd("run", NoId, RootVg), FsCmd("mount", MountAt("/"), RootVg)>>
      BY <2>1, Zenon DEF RootFs
    <2> HIDE DEF R
    <2> QED
      BY <2>2, ShortParted, Zenon
  <1> HIDE DEF R, V, B
  <1> DEFINE C == V \o R
             Q == B \o C
             root == {MountAt("/")}
  <1>19. PartedIn(C, root) /\ C \in ALL
    <2>1. PartedIn(C, {} \cup root) /\ C \in ALL
      BY <1>15, <1>17, <1>18, PartedTwo
    <2> QED
      BY <2>1
  <1>20. PartedIn(Q, root) /\ Q \in ALL
    <2> HIDE DEF C
    <2>1. PartedIn(Q, {} \cup root) /\ Q \in ALL
      BY <1>16, <1>19, PartedTwo
    <2> QED
      BY <2>1
  <1>21. PartedIn(Q \o a6, root \cup p5)
    <2>1. root \cap p5 = {}
      BY <1>14
    <2> HIDE DEF Q, root
    <2> QED
      BY <1>13, <1>20, <2>1, PartedTwo
  <1> QED
    BY <1>15, <1>21 DEF PartedIn

-----------------------------------------------------------------------------
(* The order in which a plan mounts the volumes.                           *)

\* After n commands what the command at position q mounted is still mounted: init_fs()
\* takes the top of a btrfs away two commands after it has mounted it.
Stands(P, n, q) == P[q].op = "mount" /\ ~ (q + 2 <= n /\ P[q + 2].op = "umount")
Stand(s, q) == Stands(s, Len(s), q)

\* A command that unmounts takes back the command before the last one.
Paired(s) ==
    \A q \in 1..Len(s) : s[q].op = "umount" =>
        q - 2 \in 1..Len(s) /\ s[q - 1].op = "run" /\ s[q - 2].op = "mount" /\ s[q - 2].id = s[q].id

\* The command mounts the volume.
Serves(s, v) == IsMounted(v) /\ s.id = MountAt(v.dir)

\* The volume is mounted for good by the command at position q, and all that is mounted after
\* it, for good or not, is later ones.
Settled(s, q, vs, i) ==
    /\ Stand(s, q) /\ Serves(s[q], vs[i])
    /\ \A r \in (q + 1)..Len(s) :
          s[r].op = "mount" => \E k \in (i + 1)..Len(vs) : Serves(s[r], vs[k])

\* Commands that mount these volumes for good in their order, and nothing else.
InOrder(s, vs) ==
    /\ Paired(s)
    /\ \A q \in 1..Len(s) : s[q].op # "unpack"
    /\ \A q \in 1..Len(s) : s[q].op = "mount" => \E k \in 1..Len(vs) : Serves(s[q], vs[k])
    /\ \A i \in 1..Len(vs) : IsMounted(vs[i]) => \E q \in 1..Len(s) : Settled(s, q, vs, i)

\* Where things are in a concatenation whose second part begins with no unmount.
Joined(w, s, t) ==
    /\ Len(s) \in Nat /\ Len(t) \in Nat /\ Len(w) = Len(s) + Len(t)
    /\ \A q \in 1..Len(s) : w[q] = s[q] /\ (Stand(w, q) <=> Stand(s, q))
    /\ \A q \in 1..Len(t) : w[Len(s) + q] = t[q] /\ (Stand(w, Len(s) + q) <=> Stand(t, q))

\* What stands after each of two parts stands after both.
LEMMA StandsJoined ==
  ASSUME NEW S, NEW s \in Seq(S), NEW t \in Seq(S), Paired(t)
  PROVE  Joined(s \o t, s, t)
  <1> DEFINE w == s \o t
             n == Len(s)
  <1>1. Parts(w, s, t)
    BY ConcatParts
  <1> HIDE DEF w
  <1>2. n \in Nat /\ Len(t) \in Nat /\ Len(w) = n + Len(t)
    BY <1>1 DEF Parts
  <1>3. /\ \A i \in 1..n : w[i] = s[i]
        /\ \A i \in 1..Len(t) : w[n + i] = t[i]
    BY <1>1 DEF Parts
  <1> HIDE DEF n
  <1>4. \A i \in {1, 2} : i <= Len(t) => t[i].op # "umount"
    <2> SUFFICES ASSUME NEW i \in {1, 2}, i <= Len(t), t[i].op = "umount" PROVE FALSE
      OBVIOUS
    <2>1. i \in 1..Len(t)
      BY <1>2
    <2>2. i - 2 \in 1..Len(t)
      BY <2>1 DEF Paired
    <2> QED
      BY <2>2
  <1>5. ASSUME NEW q \in 1..n PROVE Stand(w, q) <=> Stand(s, q)
    <2>1. CASE q + 2 <= n
      <3>1. w[q + 2] = s[q + 2] /\ q + 2 <= Len(w)
        BY <2>1, <1>2, <1>3
      <3> QED
        BY <2>1, <3>1, <1>3 DEF Stand, Stands, n
    <2>2. CASE ~ (q + 2 <= n)
      <3>1. PICK i : i = q + 2 - n
        OBVIOUS
      <3>2. i \in {1, 2} /\ n + i = q + 2
        BY <2>2, <3>1, <1>2
      <3>3. q + 2 <= Len(w) => i \in 1..Len(t)
        BY <3>2, <1>2
      <3>4. q + 2 <= Len(w) => w[q + 2].op # "umount"
        BY <3>2, <3>3, <1>2, <1>3, <1>4
      <3> QED
        BY <2>2, <3>4, <1>3 DEF Stand, Stands, n
    <2> QED
      BY <2>1, <2>2
  <1>6. ASSUME NEW q \in 1..Len(t) PROVE Stand(w, n + q) <=> Stand(t, q)
    <2>1. n + q + 2 <= Len(w) <=> q + 2 <= Len(t)
      BY <1>2
    <2>2. q + 2 <= Len(t) => w[n + q + 2] = t[q + 2]
      <3> SUFFICES ASSUME q + 2 <= Len(t) PROVE w[n + q + 2] = t[q + 2]
        OBVIOUS
      <3>1. q + 2 \in 1..Len(t) /\ n + (q + 2) = n + q + 2
        BY <1>2
      <3> QED
        BY <3>1, <1>3
    <2> QED
      BY <2>1, <2>2, <1>3 DEF Stand, Stands
  <1> QED
    BY <1>2, <1>3, <1>5, <1>6 DEF Joined, n, w

\* Commands that take back what they mounted, one after the other.
LEMMA PairedConcat ==
  ASSUME NEW S, NEW s \in Seq(S), NEW t \in Seq(S), Paired(s), Paired(t)
  PROVE  Paired(s \o t)
  <1> DEFINE w == s \o t
             n == Len(s)
  <1>1. Joined(w, s, t)
    BY StandsJoined
  <1> HIDE DEF w
  <1> SUFFICES ASSUME NEW q \in 1..Len(w), w[q].op = "umount"
               PROVE  /\ q - 2 \in 1..Len(w) /\ w[q - 1].op = "run" /\ w[q - 2].op = "mount"
                      /\ w[q - 2].id = w[q].id
    BY DEF Paired, w
  <1>2. n \in Nat /\ Len(t) \in Nat /\ Len(w) = n + Len(t)
    BY <1>1 DEF Joined
  <1>3. /\ \A i \in 1..n : w[i] = s[i]
        /\ \A i \in 1..Len(t) : w[n + i] = t[i]
    BY <1>1 DEF Joined
  <1>4. CASE q <= n
    <2>1. q \in 1..n
      BY <1>2, <1>4
    <2>2. q - 2 \in 1..n /\ s[q - 1].op = "run" /\ s[q - 2].op = "mount" /\ s[q - 2].id = s[q].id
      BY <2>1, <1>3, <1>4 DEF Paired
    <2>3. q - 1 \in 1..n
      BY <2>1, <2>2, <1>2
    <2> QED
      BY <2>1, <2>2, <2>3, <1>2, <1>3, SMTT(40)
  <1>5. CASE ~ (q <= n)
    <2>1. PICK i : i = q - n
      OBVIOUS
    <2>2. i \in 1..Len(t) /\ n + i = q
      BY <1>2, <1>5, <2>1
    <2>3. i - 2 \in 1..Len(t) /\ t[i - 1].op = "run" /\ t[i - 2].op = "mount" /\ t[i - 2].id = t[i].id
      BY <2>2, <1>3 DEF Paired
    <2>4. i - 1 \in 1..Len(t) /\ n + (i - 1) = q - 1 /\ n + (i - 2) = q - 2 /\ q - 2 \in 1..Len(w)
      BY <2>2, <2>3, <1>2
    <2> QED
      BY <2>2, <2>3, <2>4, <1>3
  <1> QED
    BY <1>4, <1>5

\* Commands for volumes and commands for further ones.
LEMMA OrderConcat ==
  ASSUME NEW S, NEW s \in Seq(S), NEW t \in Seq(S), NEW T, NEW vs \in Seq(T), NEW ws \in Seq(T),
         InOrder(s, vs), InOrder(t, ws)
  PROVE  InOrder(s \o t, vs \o ws)
  <1> DEFINE w == s \o t
             x == vs \o ws
             n == Len(s)
             m == Len(vs)
  <1>1. Joined(w, s, t) /\ Paired(w)
    BY StandsJoined, PairedConcat DEF InOrder
  <1>2. Parts(x, vs, ws)
    BY ConcatParts
  <1> HIDE DEF w, x
  <1>3. /\ n \in Nat /\ Len(t) \in Nat /\ Len(w) = n + Len(t)
        /\ m \in Nat /\ Len(ws) \in Nat /\ Len(x) = m + Len(ws)
    BY <1>1, <1>2 DEF Joined, Parts
  <1>4. /\ \A q \in 1..n : w[q] = s[q] /\ (Stand(w, q) <=> Stand(s, q))
        /\ \A q \in 1..Len(t) : w[n + q] = t[q] /\ (Stand(w, n + q) <=> Stand(t, q))
    BY <1>1 DEF Joined
  <1>5. /\ \A i \in 1..m : x[i] = vs[i]
        /\ \A i \in 1..Len(ws) : x[m + i] = ws[i]
    BY <1>2 DEF Parts
  <1>6. /\ \A q \in 1..n : s[q].op = "mount" => \E k \in 1..m : Serves(s[q], vs[k])
        /\ \A q \in 1..Len(t) : t[q].op = "mount" => \E k \in 1..Len(ws) : Serves(t[q], ws[k])
        /\ \A i \in 1..m : IsMounted(vs[i]) => \E q \in 1..n : Settled(s, q, vs, i)
        /\ \A i \in 1..Len(ws) : IsMounted(ws[i]) => \E q \in 1..Len(t) : Settled(t, q, ws, i)
    BY DEF InOrder
  <1>7. \A q \in 1..Len(w) : q \in 1..n \/ \E p \in 1..Len(t) : q = n + p
    <2> SUFFICES ASSUME NEW q \in 1..Len(w), q \notin 1..n PROVE \E p \in 1..Len(t) : q = n + p
      OBVIOUS
    <2>1. q - n \in 1..Len(t) /\ q = n + (q - n)
      BY <1>3
    <2> QED
      BY <2>1
  <1>8. \A i \in 1..Len(x) : i \in 1..m \/ \E p \in 1..Len(ws) : i = m + p
    <2> SUFFICES ASSUME NEW i \in 1..Len(x), i \notin 1..m PROVE \E p \in 1..Len(ws) : i = m + p
      OBVIOUS
    <2>1. i - m \in 1..Len(ws) /\ i = m + (i - m)
      BY <1>3
    <2> QED
      BY <2>1
  <1>9. \A k \in 1..m : k \in 1..Len(x)
    BY <1>3
  <1>10. \A k \in 1..Len(ws) : m + k \in 1..Len(x)
    BY <1>3
  <1> HIDE DEF n, m
  <1>11. \A q \in 1..Len(w) : w[q].op # "unpack"
    <2>1. \A q \in 1..n : s[q].op # "unpack"
      BY DEF InOrder, n
    <2>2. \A q \in 1..Len(t) : t[q].op # "unpack"
      BY DEF InOrder
    <2>3. \A q \in 1..n : w[q].op # "unpack"
      BY <2>1, <1>4
    <2>4. \A q \in 1..Len(t) : w[n + q].op # "unpack"
      BY <2>2, <1>4
    <2> QED
      BY <2>3, <2>4, <1>7
  <1>12. ASSUME NEW q \in 1..Len(w), w[q].op = "mount" PROVE \E k \in 1..Len(x) : Serves(w[q], x[k])
    <2>1. CASE q \in 1..n
      <3>1. PICK k \in 1..m : Serves(s[q], vs[k])
        BY <1>4, <1>6, <1>12, <2>1
      <3> QED
        BY <3>1, <2>1, <1>4, <1>5, <1>9
    <2>2. ASSUME NEW p \in 1..Len(t), q = n + p PROVE \E k \in 1..Len(x) : Serves(w[q], x[k])
      <3>1. PICK k \in 1..Len(ws) : Serves(t[p], ws[k])
        BY <1>4, <1>6, <1>12, <2>2
      <3> QED
        BY <3>1, <2>2, <1>4, <1>5, <1>10
    <2> QED
      BY <1>7, <2>1, <2>2
  <1>13. ASSUME NEW i \in 1..m, IsMounted(vs[i]) PROVE \E q \in 1..Len(w) : Settled(w, q, x, i)
    <2>1. PICK q \in 1..n : Settled(s, q, vs, i)
      BY <1>6, <1>13
    <2>2. q \in 1..Len(w) /\ Stand(w, q) /\ Serves(w[q], x[i])
      BY <2>1, <1>3, <1>4, <1>5 DEF Settled
    <2>3. ASSUME NEW r \in (q + 1)..Len(w), w[r].op = "mount"
          PROVE  \E k \in (i + 1)..Len(x) : Serves(w[r], x[k])
      <3>1. r \in 1..Len(w)
        BY <1>3
      <3>2. CASE r \in 1..n
        <4>1. r \in (q + 1)..Len(s) /\ s[r].op = "mount"
          BY <2>3, <3>2, <1>3, <1>4 DEF n
        <4>2. PICK k \in (i + 1)..m : Serves(s[r], vs[k])
          BY <4>1, <2>1 DEF Settled, m
        <4>3. k \in 1..m /\ k \in (i + 1)..Len(x)
          BY <1>3
        <4> QED
          BY <4>2, <4>3, <3>2, <1>4, <1>5
      <3>3. ASSUME NEW p \in 1..Len(t), r = n + p PROVE \E k \in (i + 1)..Len(x) : Serves(w[r], x[k])
        <4>1. PICK k \in 1..Len(ws) : Serves(t[p], ws[k])
          BY <1>4, <1>6, <2>3, <3>3
        <4>2. m + k \in (i + 1)..Len(x)
          BY <1>3
        <4> QED
          BY <4>1, <4>2, <3>3, <1>4, <1>5
      <3> QED
        BY <3>1, <3>2, <3>3, <1>7
    <2> QED
      BY <2>2, <2>3 DEF Settled
  <1>14. ASSUME NEW i \in 1..Len(ws), IsMounted(ws[i]) PROVE \E q \in 1..Len(w) : Settled(w, q, x, m + i)
    <2>1. PICK p \in 1..Len(t) : Settled(t, p, ws, i)
      BY <1>6, <1>14
    <2>2. n + p \in 1..Len(w) /\ Stand(w, n + p) /\ Serves(w[n + p], x[m + i])
      BY <2>1, <1>3, <1>4, <1>5 DEF Settled
    <2>3. ASSUME NEW r \in (n + p + 1)..Len(w), w[r].op = "mount"
          PROVE  \E k \in (m + i + 1)..Len(x) : Serves(w[r], x[k])
      <3>1. PICK a : a = r - n
        OBVIOUS
      <3>2. a \in (p + 1)..Len(t) /\ a \in 1..Len(t) /\ r = n + a
        BY <3>1, <1>3
      <3>3. t[a].op = "mount" /\ w[r] = t[a]
        BY <3>2, <2>3, <1>4
      <3>4. PICK k \in (i + 1)..Len(ws) : Serves(t[a], ws[k])
        BY <3>2, <3>3, <2>1 DEF Settled
      <3>5. k \in 1..Len(ws) /\ m + k \in (m + i + 1)..Len(x)
        BY <1>3
      <3> QED
        BY <3>3, <3>4, <3>5, <1>5
    <2> QED
      BY <2>2, <2>3 DEF Settled
  <1>15. \A i \in 1..Len(x) : IsMounted(x[i]) => \E q \in 1..Len(w) : Settled(w, q, x, i)
    BY <1>5, <1>8, <1>13, <1>14
  <1> QED
    BY <1>1, <1>11, <1>12, <1>15 DEF InOrder, w, x

\* Commands that mount and unmount nothing serve no volume.
Idle == {s \in Command : s.op \notin {"mount", "umount", "unpack"}}

\* They are in order for none, and for one that is not mounted.
LEMMA IdleOrdered ==
  ASSUME NEW s \in Seq(Idle)
  PROVE  /\ s \in Seq(Command) /\ InOrder(s, <<>>)
         /\ \A v : ~ IsMounted(v) => InOrder(s, <<v>>)
  <1>1. s \in Seq(Command)
    BY SeqMonotonic DEF Idle
  <1>2. \A q \in 1..Len(s) : s[q].op \notin {"mount", "umount", "unpack"}
    <2>1. \A q \in 1..Len(s) : s[q] \in Idle
      OBVIOUS
    <2> QED
      BY <2>1 DEF Idle
  <1>4. Paired(s)
    BY <1>2 DEF Paired
  <1>5. InOrder(s, <<>>)
    BY <1>2, <1>4 DEF InOrder
  <1>6. ASSUME NEW v, ~ IsMounted(v) PROVE InOrder(s, <<v>>)
    <2> DEFINE vs == <<v>>
    <2>1. Len(vs) = 1 /\ vs[1] = v
      OBVIOUS
    <2> HIDE DEF vs
    <2>2. \A i \in 1..Len(vs) : ~ IsMounted(vs[i])
      BY <2>1, <1>6
    <2>3. InOrder(s, vs)
      BY <2>2, <1>2, <1>4 DEF InOrder
    <2> QED
      BY <2>3 DEF vs
  <1> QED
    BY <1>1, <1>5, <1>6

\* Commands that mount the one volume, the last one for good.
LEMMA LastServes ==
  ASSUME NEW s, NEW n \in 1..5, Len(s) = n, Paired(s), NEW v, Serves(s[n], v), Stand(s, n),
         \A q \in 1..n : s[q].op # "unpack",
         \A q \in 1..n : s[q].op = "mount" => Serves(s[q], v)
  PROVE  InOrder(s, <<v>>)
  <1> DEFINE vs == <<v>>
  <1>1. Len(vs) = 1 /\ vs[1] = v
    OBVIOUS
  <1> HIDE DEF vs
  <1>2. \A q \in 1..Len(s) : s[q].op = "mount" => \E k \in 1..Len(vs) : Serves(s[q], vs[k])
    BY <1>1
  <1>3. ASSUME NEW i \in 1..Len(vs) PROVE Settled(s, n, vs, i)
    <2>1. i = 1
      BY <1>1
    <2>2. \A r \in (n + 1)..Len(s) : FALSE
      OBVIOUS
    <2> QED
      BY <2>1, <2>2, <1>1 DEF Settled
  <1>4. InOrder(s, vs)
    BY <1>2, <1>3 DEF InOrder
  <1> QED
    BY <1>4 DEF vs

\* The commands that mount a volume.
LEMMA ShortOrdered ==
  ASSUME NEW on, NEW v, IsMounted(v)
  PROVE  /\ InOrder(<<FsCmd("run", NoId, on), FsCmd("mount", MountAt(v.dir), on)>>, <<v>>)
         /\ InOrder(<<FsCmd("run", NoId, on), FsCmd("mount", MountAt(v.dir), on), FsCmd("run", NoId, on),
                      FsCmd("umount", MountAt(v.dir), on), FsCmd("mount", MountAt(v.dir), on)>>, <<v>>)
  <1> DEFINE d == v.dir
  <1>1. InOrder(<<FsCmd("run", NoId, on), FsCmd("mount", MountAt(d), on)>>, <<v>>)
    <2> DEFINE w == <<FsCmd("run", NoId, on), FsCmd("mount", MountAt(d), on)>>
    <2>1. Len(w) = 2 /\ w[1].op = "run" /\ w[2].op = "mount" /\ w[2].id = MountAt(v.dir)
      BY DEF FsCmd
    <2> HIDE DEF w, d
    <2>2. \A q \in 1..2 : q = 1 \/ q = 2
      OBVIOUS
    <2>3. Paired(w)
      BY <2>1, <2>2 DEF Paired
    <2>4. Stand(w, 2) /\ Serves(w[2], v)
      BY <2>1 DEF Stand, Stands, Serves
    <2>5. \A q \in 1..2 : w[q].op # "unpack" /\ (w[q].op = "mount" => Serves(w[q], v))
      BY <2>1, <2>2 DEF Serves
    <2>6. InOrder(w, <<v>>)
      BY <2>1, <2>3, <2>4, <2>5, LastServes
    <2> QED
      BY <2>6 DEF w
  <1>2. InOrder(<<FsCmd("run", NoId, on), FsCmd("mount", MountAt(d), on), FsCmd("run", NoId, on),
                  FsCmd("umount", MountAt(d), on), FsCmd("mount", MountAt(d), on)>>, <<v>>)
    <2> DEFINE w == <<FsCmd("run", NoId, on), FsCmd("mount", MountAt(d), on), FsCmd("run", NoId, on),
                      FsCmd("umount", MountAt(d), on), FsCmd("mount", MountAt(d), on)>>
    <2>1. /\ Len(w) = 5 /\ w[1].op = "run" /\ w[2].op = "mount" /\ w[3].op = "run"
          /\ w[4].op = "umount" /\ w[5].op = "mount"
          /\ w[2].id = MountAt(v.dir) /\ w[4].id = w[2].id /\ w[5].id = MountAt(v.dir)
      BY DEF FsCmd
    <2> HIDE DEF w, d
    <2>2. \A q \in 1..5 : q = 1 \/ q = 2 \/ q = 3 \/ q = 4 \/ q = 5
      OBVIOUS
    <2>3. Paired(w)
      <3> SUFFICES ASSUME NEW q \in 1..5, w[q].op = "umount"
                   PROVE  /\ q - 2 \in 1..5 /\ w[q - 1].op = "run" /\ w[q - 2].op = "mount"
                          /\ w[q - 2].id = w[q].id
        BY <2>1 DEF Paired
      <3>1. q = 4
        BY <2>1, <2>2
      <3>2. q - 2 = 2 /\ q - 1 = 3
        BY <3>1
      <3> QED
        BY <2>1, <3>1, <3>2
    <2>4. Stand(w, 5) /\ Serves(w[5], v)
      BY <2>1 DEF Stand, Stands, Serves
    <2>5. \A q \in 1..5 : w[q].op # "unpack"
      BY <2>1, <2>2
    <2>6. \A q \in 1..5 : w[q].op = "mount" => Serves(w[q], v)
      BY <2>1, <2>2 DEF Serves
    <2>7. InOrder(w, <<v>>)
      BY <2>1, <2>3, <2>4, <2>5, <2>6, LastServes
    <2> QED
      BY <2>7 DEF w
  <1> QED
    BY <1>1, <1>2

\* init_fs() mounts its volume for good, if it is one that is mounted.
LEMMA InitFsOrdered ==
  ASSUME NEW v \in AnyVolume, NEW on \in Id \cup {NoId}
  PROVE  InitFs(v, on) \in Seq(Command) /\ InOrder(InitFs(v, on), <<v>>)
  <1> DEFINE d == v.dir
             run == FsCmd("run", NoId, on)
             mount == FsCmd("mount", MountAt(d), on)
             umount == FsCmd("umount", MountAt(d), on)
  <1>1. \A op, id : Cmd(op, id, on) = <<FsCmd(op, id, on)>>
    BY DEF Cmd, FsCmd
  <1>2. run \in Command
    BY DEF FsCmd, Command, Op
  <1>3. \A op \in {"run", "refuse"} : ~ IsMounted(v) =>
           <<FsCmd(op, NoId, on)>> \in Seq(Command) /\ InOrder(<<FsCmd(op, NoId, on)>>, <<v>>)
    <2> TAKE op \in {"run", "refuse"}
    <2>1. FsCmd(op, NoId, on) \in Idle
      BY DEF FsCmd, Idle, Command, Op
    <2>2. <<FsCmd(op, NoId, on)>> \in Seq(Idle)
      BY <2>1
    <2> QED
      BY <2>2, IdleOrdered
  <1>4. CASE d = NoDir /\ v.fstype = "btrfs"
    <2>1. InitFs(v, on) = <<FsCmd("refuse", NoId, on)>>
      BY <1>1, <1>4 DEF InitFs
    <2>2. ~ IsMounted(v)
      BY <1>4 DEF IsMounted
    <2> QED
      BY <2>1, <2>2, <1>3, Zenon
  <1>5. CASE (d = NoDir \/ v.fstype = "swap") /\ v.fstype # "btrfs"
    <2>1. InitFs(v, on) = <<run>> \o <<>> \o <<>>
      BY <1>1, <1>5 DEF InitFs, When
    <2>2. ~ IsMounted(v)
      BY <1>5 DEF IsMounted
    <2> HIDE DEF run
    <2>3. InitFs(v, on) = <<run>>
      BY <2>1
    <2> QED
      BY <2>2, <2>3, <1>3, Zenon DEF run
  <1>6. CASE d # NoDir /\ v.fstype # "swap"
    <2>1. IsMounted(v)
      BY <1>6 DEF IsMounted
    <2>2. mount \in Command /\ umount \in Command
      <3>1. d \in Dir
        BY <1>6 DEF AnyVolume
      <3> QED
        BY <3>1, Kinds DEF FsCmd, Command, Op
    <2>3. CASE v.fstype = "btrfs"
      <3>1. InitFs(v, on) = <<run>> \o (<<mount>> \o <<run>> \o <<umount>>) \o <<mount>>
        BY <2>3, <1>1, <1>6 DEF InitFs, When
      <3> HIDE DEF run, mount, umount
      <3>2. <<run>> \o (<<mount>> \o <<run>> \o <<umount>>) \o <<mount>>
               = <<run, mount, run, umount, mount>>
        <4>1. \A a, b, e, f, g \in Command :
                 <<a>> \o (<<b>> \o <<e>> \o <<f>>) \o <<g>> = <<a, b, e, f, g>>
          BY FiveInOrder
        <4> QED
          BY <1>2, <2>2, <4>1
      <3>3. InOrder(<<run, mount, run, umount, mount>>, <<v>>)
        BY <2>1, ShortOrdered, Zenon DEF run, mount, umount
      <3>4. <<run, mount, run, umount, mount>> \in Seq(Command)
        BY <1>2, <2>2
      <3> QED
        BY <3>1, <3>2, <3>3, <3>4, Zenon
    <2>4. CASE v.fstype # "btrfs"
      <3>1. InitFs(v, on) = <<run>> \o <<>> \o <<mount>>
        BY <2>4, <1>1, <1>6 DEF InitFs, When
      <3> HIDE DEF run, mount, umount
      <3>2. InitFs(v, on) = <<run, mount>>
        BY <3>1, <1>2, <2>2, TwoInOrder
      <3>3. InOrder(<<run, mount>>, <<v>>)
        BY <2>1, ShortOrdered, Zenon DEF run, mount
      <3>4. <<run, mount>> \in Seq(Command)
        BY <1>2, <2>2
      <3> QED
        BY <3>2, <3>3, <3>4, Zenon
    <2> QED
      BY <2>3, <2>4
  <1> QED
    BY <1>4, <1>5, <1>6

\* The sequence of one element.
Single(x) == <<x>>

\* What is before the n-th element, and the n-th.
LEMMA FirstElements ==
  ASSUME NEW T, NEW vs \in Seq(T), NEW n \in 1..Len(vs)
  PROVE  /\ SubSeq(vs, 1, n) \in Seq(T) /\ Single(vs[n]) \in Seq(T)
         /\ n # 1 => SubSeq(vs, 1, n) = SubSeq(vs, 1, n - 1) \o Single(vs[n])
         /\ n = 1 => SubSeq(vs, 1, n) = Single(vs[n])
         /\ SubSeq(vs, 1, Len(vs)) = vs
  <1>1. n \in Nat /\ Len(vs) \in Nat /\ vs[n] \in T /\ \A i \in 1..n : vs[i] \in T
    OBVIOUS
  <1>sub. SubSeq(vs, 1, n) = [i \in 1..n |-> vs[i]]
    BY <1>1
  <1>2. SubSeq(vs, 1, n) \in Seq(T) /\ Len(SubSeq(vs, 1, n)) = n
    BY <1>1
  <1>3. Single(vs[n]) \in Seq(T)
    BY <1>1 DEF Single
  <1>4. ASSUME n # 1 PROVE SubSeq(vs, 1, n) = SubSeq(vs, 1, n - 1) \o Single(vs[n])
    <2> DEFINE p == SubSeq(vs, 1, n - 1)
               e == Single(vs[n])
    <2>1. n - 1 \in Nat
      BY <1>1
    <2>2. p \in Seq(T) /\ Len(p) = n - 1 /\ \A i \in 1..(n - 1) : p[i] = vs[i]
      BY <1>1, <2>1
    <2>3. e \in Seq(T) /\ Len(e) = 1 /\ e[1] = vs[n]
      BY <1>1 DEF Single
    <2> DEFINE w == p \o e
    <2> HIDE DEF p, e
    <2>4. w \in Seq(T) /\ Parts(w, p, e)
      BY <2>2, <2>3, ConcatParts
    <2> HIDE DEF w
    <2>5. Len(w) = n /\ (\A i \in 1..(n - 1) : w[i] = p[i]) /\ w[n - 1 + 1] = e[1]
      BY <2>2, <2>3, <2>4, <1>1 DEF Parts
    <2>6. \A i \in 1..n : w[i] = vs[i]
      <3>1. \A i \in 1..n : i \in 1..(n - 1) \/ i = n
        BY <1>1
      <3>2. n - 1 + 1 = n
        BY <1>1
      <3> QED
        BY <2>2, <2>3, <2>5, <3>1, <3>2
    <2>7. w = [i \in 1..n |-> w[i]]
      BY <2>4, <2>5
    <2> QED
      BY <2>6, <2>7, <1>sub DEF p, e, w
  <1>5. n = 1 => SubSeq(vs, 1, n) = Single(vs[n])
    <2>1. [i \in 1..1 |-> vs[i]] = <<vs[1]>>
      OBVIOUS
    <2> QED
      BY <2>1, <1>sub DEF Single
  <1>6. SubSeq(vs, 1, Len(vs)) = vs
    OBVIOUS
  <1> QED
    BY <1>2, <1>3, <1>4, <1>5, <1>6

\* The commands for several volumes, a sequence for each.
LEMMA OrderFlatten ==
  ASSUME NEW T, NEW vs \in Seq(T), NEW ss \in Seq(Seq(Command)), Len(ss) = Len(vs),
         \A i \in 1..Len(vs) : InOrder(ss[i], Single(vs[i]))
  PROVE  InOrder(FlattenSeq(ss), vs) /\ FlattenSeq(ss) \in Seq(Command)
  <1>1. CASE ss = <<>>
    <2>1. Len(vs) = 0
      BY <1>1
    <2>2. vs = <<>>
      BY <2>1
    <2>3. FlattenSeq(ss) = <<>>
      BY <1>1 DEF FlattenSeq
    <2>4. <<>> \in Seq(Idle)
      OBVIOUS
    <2> QED
      BY <2>2, <2>3, <2>4, IdleOrdered
  <1>2. CASE ss # <<>>
    <2>1. PICK f : FlatUpTo(f, ss, Len(ss)) /\ FlattenSeq(ss) = f[Len(ss)]
      BY <1>2, FlattenDefined
    <2> DEFINE Fine(n) == f[n] \in Seq(Command) /\ InOrder(f[n], SubSeq(vs, 1, n))
               Bad == {n \in 1..Len(ss) : ~ Fine(n)}
    <2>2. Len(ss) \in Nat \ {0} /\ Bad \in SUBSET Nat
      BY <1>2
    <2>3. \A i \in 1..Len(ss) : f[i] = IF i = 1 THEN ss[i] ELSE f[i - 1] \o ss[i]
      <3>1. f = [i \in 1..Len(ss) |-> IF i = 1 THEN ss[i] ELSE f[i - 1] \o ss[i]]
        BY <2>1 DEF FlatUpTo
      <3> QED
        BY <3>1
    <2>4. Bad = {}
      <3> SUFFICES ASSUME Bad # {} PROVE FALSE
        OBVIOUS
      <3>1. PICK n \in Bad : \A k \in Bad : n <= k
        BY <2>2, LeastNumber
      <3>2. n \in 1..Len(ss) /\ n \in 1..Len(vs) /\ ~ Fine(n)
        OBVIOUS
      <3>3. ss[n] \in Seq(Command) /\ InOrder(ss[n], Single(vs[n]))
        BY <3>2
      <3>4. CASE n = 1
        <4>1. f[n] = ss[n]
          BY <3>2, <3>4, <2>3
        <4>2. SubSeq(vs, 1, n) = Single(vs[n])
          BY <3>2, <3>4, FirstElements, ZenonT(40)
        <4> QED
          BY <4>1, <4>2, <3>2, <3>3
      <3>5. CASE n # 1
        <4>1. n - 1 \in 1..Len(ss) /\ n - 1 \in 1..Len(vs) /\ ~ (n <= n - 1)
          BY <3>2, <3>5
        <4>2. Fine(n - 1)
          BY <3>1, <4>1
        <4> DEFINE g == f[n - 1]
                   x == SubSeq(vs, 1, n - 1)
                   y == Single(vs[n])
                   h == ss[n]
        <4>3. f[n] = g \o h
          BY <2>3, <3>2, <3>5
        <4>4. SubSeq(vs, 1, n) = x \o y /\ x \in Seq(T) /\ y \in Seq(T)
          BY <3>2, <3>5, <4>1, FirstElements, Zenon
        <4>5. g \in Seq(Command) /\ InOrder(g, x) /\ h \in Seq(Command) /\ InOrder(h, y)
          BY <4>2, <3>3
        <4> HIDE DEF g, x, y, h
        <4>6. InOrder(g \o h, x \o y) /\ g \o h \in Seq(Command)
          <5>1. InOrder(g \o h, x \o y)
            BY <4>4, <4>5, OrderConcat
          <5> QED
            BY <5>1, <4>5, ConcatProperties
        <4>7. Fine(n)
          BY <4>3, <4>4, <4>6
        <4> QED
          BY <4>7, <3>2
      <3> QED
        BY <3>4, <3>5
    <2>5. Fine(Len(ss))
      <3>1. Len(ss) \in 1..Len(ss)
        BY <2>2
      <3> HIDE DEF Fine
      <3> QED
        BY <3>1, <2>4
    <2>6. SubSeq(vs, 1, Len(vs)) = vs
      <3>1. Len(vs) \in 1..Len(vs)
        BY <2>2
      <3> QED
        BY <3>1, FirstElements, Zenon
    <2> QED
      BY <2>1, <2>5, <2>6
  <1> QED
    BY <1>1, <1>2

\* The commands for the volumes of a list mount them in the order of the list.
LEMMA InitEachOrdered ==
  ASSUME NEW vs \in Seq(AnyVolume), NEW on \in Id \cup {NoId}
  PROVE  InOrder(InitEach(vs, on), vs) /\ InitEach(vs, on) \in Seq(Command)
  <1> DEFINE ss == [i \in DOMAIN vs |-> InitFs(vs[i], on)]
  <1>1. DOMAIN vs = 1..Len(vs) /\ Len(vs) \in Nat
    OBVIOUS
  <1>2. \A i \in 1..Len(vs) : /\ InOrder(InitFs(vs[i], on), Single(vs[i]))
                              /\ InitFs(vs[i], on) \in Seq(Command)
    BY InitFsOrdered DEF Single
  <1>one. \A i \in 1..Len(vs) : ss[i] = InitFs(vs[i], on)
    BY <1>1
  <1>3. /\ ss \in Seq(Seq(Command)) /\ Len(ss) = Len(vs)
        /\ \A i \in 1..Len(vs) : InOrder(ss[i], Single(vs[i]))
    <2>1. ss \in Seq(Seq(Command)) /\ Len(ss) = Len(vs)
      BY <1>1, <1>2
    <2> HIDE DEF ss
    <2> QED
      BY <2>1, <1>one, <1>2
  <1>4. InitEach(vs, on) = FlattenSeq(ss)
    BY DEF InitEach
  <1> HIDE DEF ss
  <1> QED
    BY <1>3, <1>4, OrderFlatten

\* The further volumes are mounted in the order of the list.
LEMMA ExtraVolumesOrdered ==
  ASSUME NEW c, NEW vs \in Seq(AnyVolume), c.volumes = vs
  PROVE  InOrder(ExtraVolumes(c), vs) /\ ExtraVolumes(c) \in Seq(Command)
  <1> DEFINE lv == Cmd("lvcreate", RootVg, NoId)
             ss == [i \in DOMAIN vs |-> lv \o InitFs(vs[i], RootVg)]
  <1>1. DOMAIN vs = 1..Len(vs) /\ Len(vs) \in Nat
    OBVIOUS
  <1>2. lv \in Seq(Idle)
    BY Kinds DEF Cmd, Idle, Command, Op
  <1>3. lv \in Seq(Command) /\ InOrder(lv, <<>>)
    BY <1>2, IdleOrdered
  <1>4. \A i \in 1..Len(vs) : /\ InOrder(lv \o InitFs(vs[i], RootVg), Single(vs[i]))
                              /\ lv \o InitFs(vs[i], RootVg) \in Seq(Command)
    <2> TAKE i \in 1..Len(vs)
    <2> DEFINE s == InitFs(vs[i], RootVg)
               x == Single(vs[i])
    <2>1. vs[i] \in AnyVolume /\ RootVg \in Id \cup {NoId}
      BY Kinds
    <2>2. s \in Seq(Command) /\ InOrder(s, x) /\ x \in Seq(AnyVolume)
      BY <2>1, InitFsOrdered DEF Single
    <2>3. <<>> \in Seq(AnyVolume) /\ <<>> \o x = x
      BY <2>1 DEF Single
    <2> HIDE DEF s, lv, x
    <2>4. InOrder(lv \o s, <<>> \o x)
      BY <2>2, <2>3, <1>3, OrderConcat
    <2> QED
      BY <2>2, <2>3, <2>4, <1>3, ConcatProperties DEF s, x
  <1>one. \A i \in 1..Len(vs) : ss[i] = lv \o InitFs(vs[i], RootVg)
    BY <1>1
  <1>5. /\ ss \in Seq(Seq(Command)) /\ Len(ss) = Len(vs)
        /\ \A i \in 1..Len(vs) : InOrder(ss[i], Single(vs[i]))
    <2>1. ss \in Seq(Seq(Command)) /\ Len(ss) = Len(vs)
      BY <1>1, <1>4
    <2> HIDE DEF ss, lv
    <2> QED
      BY <2>1, <1>one, <1>4
  <1>6. ExtraVolumes(c) = FlattenSeq(ss)
    BY DEF ExtraVolumes
  <1> HIDE DEF ss
  <1> QED
    BY <1>5, <1>6, OrderFlatten

\* Commands before those for the volumes.
LEMMA IdleFirst ==
  ASSUME NEW s \in Seq(Idle), NEW t \in Seq(Command), NEW T, NEW vs \in Seq(T), InOrder(t, vs)
  PROVE  InOrder(s \o t, vs) /\ s \o t \in Seq(Command)
  <1>1. s \in Seq(Command) /\ InOrder(s, <<>>)
    BY IdleOrdered
  <1>2. <<>> \in Seq(T) /\ <<>> \o vs = vs
    OBVIOUS
  <1>3. InOrder(s \o t, <<>> \o vs)
    BY <1>1, <1>2, OrderConcat
  <1> QED
    BY <1>1, <1>2, <1>3, ConcatProperties

\* The commands that configure the root filesystem mount nothing.
LEMMA ConfigureIdle ==
  ASSUME NEW j \in Job, NEW c
  PROVE  ConfigureRootfs(c, j) \in Seq(Idle)
  <1> DEFINE M == Seq(Idle)
  <1>1. \A s, t \in M : s \o t \in M
    OBVIOUS
  <1>2. \A on \in Id \cup {NoId} :
           /\ Cmd("run", NoId, on) \in M
           /\ \A cond : When(cond, Cmd("run", NoId, on)) \in M
    <2> TAKE on \in Id \cup {NoId}
    <2>1. Cmd("run", NoId, on) \in M
      BY DEF Cmd, Idle, Command, Op
    <2>2. <<>> \in M
      OBVIOUS
    <2> QED
      BY <2>1, <2>2, Zenon DEF When
  <1>3. {Array("boot"), Array("root"), NoId, Loop(j)} \subseteq Id \cup {NoId}
    BY Kinds
  <1> DEFINE a == When(c.bootRaid, Cmd("run", NoId, Array("boot")))
             b == When(c.rootRaid, Cmd("run", NoId, Array("root")))
             l == When(c.luks, Cmd("run", NoId, NoId))
             r == Cmd("run", NoId, NoId)
             g == When(~c.uefi, Cmd("run", NoId, Loop(j)))
             s == When(c.snapper /\ c.root[1].fstype = "btrfs", Cmd("run", NoId, NoId))
  <1>4. a \in M /\ b \in M /\ l \in M /\ r \in M /\ g \in M /\ s \in M
    BY <1>2, <1>3
  <1>5. ConfigureRootfs(c, j) = a \o b \o l \o r \o r \o r \o g \o s
    BY Zenon DEF ConfigureRootfs
  <1> HIDE DEF a, b, l, r, g, s
  <1> QED
    BY <1>1, <1>4, <1>5

\* Commands without an unmount, and without an unpack.
Onward(s) == \A q \in 1..Len(s) : s[q].op \notin {"umount", "unpack"}

\* What follows the unpacking.
LEMMA TailOnward ==
  ASSUME NEW j \in Job, NEW c
  PROVE  /\ ChrootMounts \o ConfigureRootfs(c, j) \in Seq(Command)
         /\ Onward(ChrootMounts \o ConfigureRootfs(c, j))
  <1> DEFINE s == ChrootMounts
             t == ConfigureRootfs(c, j)
             w == s \o t
  <1>1. s \in Seq(Command) /\ \A q \in 1..Len(s) : s[q].op = "mount"
    <2>1. /\ DOMAIN ChrootDirs = 1..Len(ChrootDirs) /\ Len(ChrootDirs) \in Nat
      BY ChrootAssumption
    <2>2. s \in Seq(Late(c, j)) /\ Late(c, j) \subseteq Command
      BY ChrootLate DEF Late
    <2>3. s \in Seq(Command)
      BY <2>2, SeqMonotonic
    <2>4. DOMAIN s = 1..Len(ChrootDirs) /\ \A q \in 1..Len(ChrootDirs) : s[q].op = "mount"
      BY <2>1 DEF ChrootMounts
    <2>5. DOMAIN s = 1..Len(s)
      BY <2>3
    <2> QED
      BY <2>3, <2>4, <2>5
  <1>2. t \in Seq(Command) /\ \A q \in 1..Len(t) : t[q].op \notin {"umount", "unpack"}
    <2>1. t \in Seq(Idle)
      BY ConfigureIdle
    <2> HIDE DEF t
    <2>2. \A q \in 1..Len(t) : t[q] \in Idle
      BY <2>1
    <2> QED
      BY <2>1, <2>2, IdleOrdered DEF Idle
  <1> HIDE DEF s, t
  <1>3. w \in Seq(Command) /\ Parts(w, s, t)
    BY <1>1, <1>2, ConcatParts
  <1> HIDE DEF w
  <1>4. ASSUME NEW q \in 1..Len(w) PROVE w[q].op \notin {"umount", "unpack"}
    <2>1. CASE q \in 1..Len(s)
      BY <2>1, <1>1, <1>3 DEF Parts
    <2>2. CASE q \notin 1..Len(s)
      <3>1. PICK p : p = q - Len(s)
        OBVIOUS
      <3>2. p \in 1..Len(t) /\ w[Len(s) + p] = t[p] /\ Len(s) + p = q
        BY <2>2, <3>1, <1>3 DEF Parts
      <3> QED
        BY <3>2, <1>2
    <2> QED
      BY <2>1, <2>2
  <1> QED
    BY <1>3, <1>4 DEF Onward, w, s, t

\* The first n commands mount each volume for good, and after it, for good or not, only later ones.
Fills(P, n, vs) ==
    \A i \in 1..Len(vs) : IsMounted(vs[i]) =>
        \E q \in 1..n :
            /\ Stands(P, n, q) /\ Serves(P[q], vs[i])
            /\ \A r \in (q + 1)..n :
                  P[r].op = "mount" => \E k \in (i + 1)..Len(vs) : Serves(P[r], vs[k])

\* A plan that mounts the volumes in their order before it unpacks.
Ordered(P, vs) ==
    /\ Paired(P)
    /\ \A u \in 1..Len(P) : P[u].op = "unpack" => Fills(P, u - 1, vs)

\* Commands for the volumes, then the one that unpacks, then others.
LEMMA UnpackBetween ==
  ASSUME NEW f \in Seq(Command), NEW x \in Command, NEW t \in Seq(Command), NEW vs,
         x.op = "unpack", InOrder(f, vs), Onward(t)
  PROVE  Ordered(f \o <<x>> \o t, vs)
  <1> DEFINE y == <<x>>
             g == f \o y
             P == g \o t
             n == Len(f)
  <1>1. y \in Seq(Command) /\ Len(y) = 1 /\ y[1] = x
    OBVIOUS
  <1> HIDE DEF y
  <1>2. Paired(f) /\ Paired(y) /\ Paired(t)
    <2>1. \A q \in 1..Len(y) : y[q].op # "umount"
      BY <1>1
    <2> QED
      BY <2>1 DEF InOrder, Paired, Onward
  <1>3. g \in Seq(Command) /\ Parts(g, f, y) /\ Paired(g)
    BY <1>1, <1>2, ConcatParts, PairedConcat
  <1> HIDE DEF g
  <1>4. Parts(P, g, t) /\ Paired(P)
    BY <1>2, <1>3, ConcatParts, PairedConcat
  <1> HIDE DEF P
  <1>5. /\ n \in Nat /\ Len(t) \in Nat /\ Len(g) = n + 1 /\ Len(P) = n + 1 + Len(t)
        /\ \A q \in 1..n : P[q] = f[q]
        /\ \A q \in 1..Len(t) : P[n + 1 + q] = t[q]
    <2>1. n \in Nat /\ Len(t) \in Nat /\ Len(g) = n + 1 /\ Len(P) = n + 1 + Len(t)
      BY <1>1, <1>3, <1>4 DEF Parts
    <2>2. \A q \in 1..n : P[q] = f[q]
      <3> TAKE q \in 1..n
      <3>1. q \in 1..Len(g) /\ g[q] = f[q]
        BY <2>1, <1>3 DEF Parts
      <3> QED
        BY <3>1, <1>4 DEF Parts
    <2>3. \A q \in 1..Len(t) : P[n + 1 + q] = t[q]
      BY <2>1, <1>4 DEF Parts
    <2> QED
      BY <2>1, <2>2, <2>3
  <1>6. ASSUME NEW u \in 1..Len(P), P[u].op = "unpack" PROVE u = n + 1
    <2>1. CASE u <= n
      <3>1. u \in 1..n
        BY <2>1, <1>5
      <3> QED
        BY <3>1, <1>5, <1>6 DEF InOrder
    <2>2. CASE u > n + 1
      <3>1. PICK q : q = u - (n + 1)
        OBVIOUS
      <3>2. q \in 1..Len(t) /\ n + 1 + q = u
        BY <3>1, <2>2, <1>5
      <3> QED
        BY <3>2, <1>5, <1>6 DEF Onward
    <2> QED
      BY <2>1, <2>2, <1>5
  <1>7. \A q \in 1..n : Stands(P, n, q) <=> Stand(f, q)
    <2> TAKE q \in 1..n
    <2>1. q + 2 <= n => P[q + 2] = f[q + 2]
      <3>1. q + 2 <= n => q + 2 \in 1..n
        BY <1>5
      <3> QED
        BY <3>1, <1>5
    <2> QED
      BY <2>1, <1>5 DEF Stand, Stands
  <1>8. Fills(P, n, vs)
    <2> SUFFICES ASSUME NEW i \in 1..Len(vs), IsMounted(vs[i])
                 PROVE  \E q \in 1..n :
                           /\ Stands(P, n, q) /\ Serves(P[q], vs[i])
                           /\ \A r \in (q + 1)..n :
                                 P[r].op = "mount" => \E k \in (i + 1)..Len(vs) : Serves(P[r], vs[k])
      BY Zenon DEF Fills
    <2>1. PICK q \in 1..n : Settled(f, q, vs, i)
      BY DEF InOrder
    <2>2. Stands(P, n, q) /\ Serves(P[q], vs[i])
      BY <2>1, <1>5, <1>7 DEF Settled
    <2>3. ASSUME NEW r \in (q + 1)..n, P[r].op = "mount"
          PROVE  \E k \in (i + 1)..Len(vs) : Serves(P[r], vs[k])
      <3>1. r \in 1..n /\ r \in (q + 1)..Len(f)
        BY <1>5
      <3>2. f[r].op = "mount" /\ P[r] = f[r]
        BY <3>1, <2>3, <1>5
      <3> QED
        BY <3>1, <3>2, <2>1 DEF Settled
    <2> QED
      BY <2>2, <2>3
  <1>9. n + 1 - 1 = n
    BY <1>5
  <1> QED
    BY <1>4, <1>6, <1>8, <1>9 DEF Ordered, P, g, y

\* The plan mounts the volumes of its config in their order, and then unpacks.
LEMMA PlanOrdered ==
  ASSUME NEW j \in Job, NEW d \in Doc, Accepted(d), NEW c, c = Parse(d)
  PROVE  Ordered(Plan(c, j), VolumesOf(c))
  <1>1. /\ c.bootRaid \in BOOLEAN /\ c.rootRaid \in BOOLEAN /\ c.luks \in BOOLEAN
        /\ \A l \in {"boot", "esp", "swap", "volumes"} : c[l] \in Seq(OtherVolume)
    BY ParseTyped
  <1> DEFINE A == Seq(AnyVolume)
             C == Seq(Command)
             boot == c.boot
             esp == c.esp \o c.swap
             vs == c.volumes
             root == c.root
  <1>2. PICK v \in AnyVolume : c.root = <<v>> /\ v.fstype \in FsType \ {"swap"} /\ v.dir = "/"
    BY RootVolume
  <1>3. boot \in A /\ esp \in A /\ vs \in A /\ root \in A
    <2>1. OtherVolume \subseteq AnyVolume
      BY DEF OtherVolume, AnyVolume
    <2>2. c.boot \in A /\ c.esp \in A /\ c.swap \in A /\ c.volumes \in A
      BY <1>1, <2>1, SeqMonotonic
    <2> QED
      BY <2>2, <1>2, ConcatProperties
  <1> DEFINE bootCmds == InitEach(boot, BootDev(c, j))
             espCmds == InitEach(esp, Loop(j))
             extra == ExtraVolumes(c)
             R == RootFs(Btrfs(c))
             V == OpenVg(c, j)
             B == Before(c, j)
             unpack == <<FsCmd("unpack", NoId, NoId)>>
             chroot == ChrootMounts
             conf == ConfigureRootfs(c, j)
             es == bootCmds \o espCmds \o extra
             f == B \o (V \o R) \o es
  <1>4. /\ InOrder(bootCmds, boot) /\ bootCmds \in C
        /\ InOrder(espCmds, esp) /\ espCmds \in C
        /\ InOrder(extra, vs) /\ extra \in C
        /\ InOrder(R, root) /\ R \in C
    <2>1. BootDev(c, j) \in Id \cup {NoId} /\ Loop(j) \in Id \cup {NoId} /\ RootVg \in Id \cup {NoId}
      BY DeviceChoices, Kinds
    <2>2. R = InitEach(root, RootVg)
      BY <1>2, RootFsPlan DEF Btrfs
    <2> HIDE DEF R, esp
    <2> QED
      BY <1>3, <2>1, <2>2, InitEachOrdered, ExtraVolumesOrdered
  <1>5. /\ Plan(c, j) = B \o (V \o R) \o After(c, j)
        /\ B \in Seq(Idle) /\ V \in Seq(Idle)
    <2>1. /\ Plan(c, j) = B \o (V \o R) \o After(c, j)
          /\ B \in Seq(Early(c, j)) /\ V \in Seq(Command)
      BY PlanSplit DEF Center
    <2>2. Early(c, j) \subseteq Idle
      BY DEF Early, Idle
    <2>3. B \in Seq(Idle)
      BY <2>1, <2>2, SeqMonotonic
    <2>4. RootPv(c, j) \in Id
      BY DeviceChoices, Kinds
    <2>5. /\ [op |-> "vgcreate", id |-> RootVg, on |-> RootPv(c, j)] \in Idle
          /\ [op |-> "vgchange", id |-> RootVg, on |-> NoId] \in Idle
          /\ [op |-> "lvcreate", id |-> RootVg, on |-> NoId] \in Idle
      BY <2>4, Kinds DEF Idle, Command, Op
    <2>6. V \in Seq(Idle)
      BY <2>5 DEF OpenVg
    <2> QED
      BY <2>1, <2>3, <2>6
  <1>6. chroot \o conf \in C /\ Onward(chroot \o conf) /\ chroot \in C /\ conf \in C
    <2>1. chroot \in Seq(Late(c, j)) /\ conf \in Seq(Late(c, j)) /\ Late(c, j) \subseteq Command
      BY ChrootLate, ConfigureLate DEF Late
    <2> HIDE DEF chroot, conf
    <2>2. chroot \in C /\ conf \in C
      BY <2>1, SeqMonotonic
    <2> QED
      BY <2>2, TailOnward DEF chroot, conf
  <1>7. After(c, j) = es \o unpack \o chroot \o conf
    <2>1. Cmd("unpack", NoId, NoId) = unpack
      BY DEF Cmd, FsCmd
    <2> HIDE DEF unpack
    <2> QED
      BY <2>1, Zenon DEF After
  <1>8. FsCmd("unpack", NoId, NoId) \in Command /\ unpack \in C
        /\ FsCmd("unpack", NoId, NoId).op = "unpack"
    BY DEF FsCmd, Command, Op
  <1>9. VolumesOf(c) = root \o boot \o esp \o vs
    BY Zenon DEF VolumesOf
  <1> HIDE DEF bootCmds, espCmds, extra, R, V, B, unpack, chroot, conf, boot, esp, vs, root
  <1>10. InOrder(es, boot \o esp \o vs) /\ es \in C /\ boot \o esp \o vs \in A
    <2> DEFINE a == bootCmds \o espCmds
               b == boot \o esp
    <2>1. InOrder(a, b) /\ a \in C /\ b \in A
      BY <1>3, <1>4, OrderConcat, ConcatProperties
    <2> HIDE DEF a, b
    <2>2. InOrder(a \o extra, b \o vs) /\ a \o extra \in C /\ b \o vs \in A
      BY <1>3, <1>4, <2>1, OrderConcat, ConcatProperties
    <2> QED
      BY <2>2 DEF a, b
  <1> DEFINE rest == boot \o esp \o vs
             Q == B \o (V \o R)
  <1>11. InOrder(Q, root) /\ Q \in C
    <2> DEFINE x == V \o R
    <2>1. InOrder(x, root) /\ x \in C
      BY <1>3, <1>4, <1>5, IdleFirst
    <2> HIDE DEF x
    <2>2. InOrder(B \o x, root) /\ B \o x \in C
      BY <1>3, <1>5, <2>1, IdleFirst
    <2> QED
      BY <2>2 DEF x
  <1>12. VolumesOf(c) = root \o rest
    <2>1. boot \o esp \in A
      BY <1>3, ConcatProperties
    <2>2. Unbracketed(root, boot \o esp, vs) /\ Unbracketed(root, boot, esp)
      BY <1>3, <2>1, TwoUnbracketed
    <2> QED
      BY <1>9, <2>2, Zenon DEF Unbracketed
  <1> HIDE DEF es, rest, Q
  <1>13. InOrder(f, VolumesOf(c)) /\ f \in C
    <2>1. InOrder(Q \o es, root \o rest) /\ Q \o es \in C
      BY <1>3, <1>10, <1>11, OrderConcat, ConcatProperties DEF rest
    <2> QED
      BY <2>1, <1>12 DEF Q
  <1>14. Plan(c, j) = f \o unpack \o (chroot \o conf)
    <2> DEFINE u == es \o unpack
    <2>1. After(c, j) = u \o chroot \o conf /\ Plan(c, j) = Q \o (u \o chroot \o conf)
      BY <1>5, <1>7 DEF Q
    <2>2. Unbracketed(Q, es, unpack) /\ u \in C
      BY <1>8, <1>10, <1>11, TwoUnbracketed
    <2> HIDE DEF u
    <2>3. Plan(c, j) = Q \o u \o chroot \o conf
      <3>1. u \o chroot \in C
        BY <1>6, <2>2, ConcatProperties
      <3>2. Unbracketed(Q, u \o chroot, conf) /\ Unbracketed(Q, u, chroot)
        BY <1>6, <1>11, <2>2, <3>1, TwoUnbracketed
      <3> QED
        BY <2>1, <3>2, Zenon DEF Unbracketed
    <2>4. Q \o u = f \o unpack
      BY <2>2, Zenon DEF Unbracketed, u, Q
    <2> HIDE DEF f
    <2>5. f \o unpack \in C
      BY <1>8, <1>13, ConcatProperties
    <2>6. Unbracketed(f \o unpack, chroot, conf)
      BY <1>6, <2>5, TwoUnbracketed
    <2> QED
      BY <2>3, <2>4, <2>6, Zenon DEF Unbracketed
  <1> HIDE DEF f
  <1> QED
    BY <1>6, <1>8, <1>13, <1>14, UnpackBetween DEF unpack

-----------------------------------------------------------------------------
(* The volumes of the config are those that the document asks for.         *)

\* What is in a part is in the whole.
LEMMA ContainsConcat ==
  ASSUME NEW S, NEW s \in Seq(S), NEW t \in Seq(S), NEW v, Contains(s, v) \/ Contains(t, v)
  PROVE  Contains(s \o t, v)
  <1> DEFINE w == s \o t
  <1>1. Parts(w, s, t)
    BY ConcatParts
  <1> HIDE DEF w
  <1>2. CASE Contains(s, v)
    BY <1>1, <1>2 DEF Parts, Contains
  <1>3. CASE Contains(t, v)
    BY <1>1, <1>3 DEF Parts, Contains
  <1> QED
    BY <1>2, <1>3 DEF w

\* What is in one of the sequences is in the flattened one.
LEMMA FlattenContains ==
  ASSUME NEW S, NEW ss \in Seq(Seq(S)), NEW i \in 1..Len(ss), NEW v, Contains(ss[i], v)
  PROVE  Contains(FlattenSeq(ss), v)
  <1>1. ss # <<>> /\ Len(ss) \in Nat
    OBVIOUS
  <1>2. PICK f : FlatUpTo(f, ss, Len(ss)) /\ FlattenSeq(ss) = f[Len(ss)]
    BY <1>1, FlattenDefined
  <1>3. \A n \in 1..Len(ss) : f[n] = IF n = 1 THEN ss[n] ELSE f[n - 1] \o ss[n]
    <2>1. f = [n \in 1..Len(ss) |-> IF n = 1 THEN ss[n] ELSE f[n - 1] \o ss[n]]
      BY <1>2 DEF FlatUpTo
    <2> QED
      BY <2>1
  <1> DEFINE Fine(n) == f[n] \in Seq(S) /\ (i <= n => Contains(f[n], v))
             Bad == {n \in 1..Len(ss) : ~ Fine(n)}
  <1>4. Bad = {}
    <2> SUFFICES ASSUME Bad # {} PROVE FALSE
      OBVIOUS
    <2>1. Bad \in SUBSET Nat
      OBVIOUS
    <2>2. PICK n \in Bad : \A k \in Bad : n <= k
      BY <2>1, LeastNumber
    <2>3. n \in 1..Len(ss) /\ ~ Fine(n) /\ ss[n] \in Seq(S)
      OBVIOUS
    <2>4. CASE n = 1
      <3>1. f[n] = ss[n] /\ (i <= n => i = n)
        BY <1>3, <2>3, <2>4
      <3> QED
        BY <3>1, <2>3
    <2>5. CASE n # 1
      <3>1. n - 1 \in 1..Len(ss) /\ ~ (n <= n - 1)
        BY <2>3, <2>5
      <3>2. Fine(n - 1)
        BY <2>2, <3>1
      <3> DEFINE g == f[n - 1]
                 h == ss[n]
      <3>3. f[n] = g \o h /\ g \in Seq(S) /\ h \in Seq(S)
        BY <1>3, <2>3, <2>5, <3>2
      <3>4. i <= n => Contains(g, v) \/ Contains(h, v)
        <4>1. i <= n => i <= n - 1 \/ i = n
          BY <2>3
        <4> QED
          BY <4>1, <3>2
      <3> HIDE DEF g, h
      <3>5. g \o h \in Seq(S) /\ (i <= n => Contains(g \o h, v))
        BY <3>3, <3>4, ContainsConcat, ConcatProperties
      <3> QED
        BY <3>3, <3>5, <2>3
    <2> QED
      BY <2>4, <2>5
  <1>5. Len(ss) \in 1..Len(ss) /\ i <= Len(ss)
    BY <1>1
  <1> HIDE DEF Fine
  <1>6. Fine(Len(ss))
    BY <1>4, <1>5
  <1> QED
    BY <1>2, <1>5, <1>6 DEF Fine

\* There is one entry that counts for a name.
LEMMA NamedOne ==
  ASSUME NEW d \in Doc, NEW name, NEW lv \in BOOLEAN, NEW k \in Places(d, name, lv)
  PROVE  Named(d, name, lv) = <<VolumeAt(d, k)>>
  <1> DEFINE places == Places(d, name, lv)
  <1>1. d.volumes \in Seq(Entry) /\ DOMAIN d.volumes = 1..Len(d.volumes) /\ Len(d.volumes) \in Nat
    BY DEF Doc
  <1>2. \A i \in places : /\ i \in 1..Len(d.volumes) /\ d.volumes[i].name = name
                          /\ IsLv(d.volumes[i]) = lv /\ IsLast(d, i)
    BY <1>1 DEF Places, Counts
  <1>3. ASSUME NEW i \in places PROVE i = k
    <2>1. SameKey(d.volumes[i], d.volumes[k]) /\ SameKey(d.volumes[k], d.volumes[i])
      BY <1>2 DEF SameKey
    <2> QED
      BY <1>1, <1>2, <2>1 DEF IsLast
  <1>4. places = {k}
    BY <1>3
  <1>5. Cardinality(places) = 1 /\ (CHOOSE i \in places : TRUE) = k
    BY <1>4, FS_Singleton
  <1> DEFINE any == CHOOSE i \in places : TRUE
  <1>6. Named(d, name, lv) = [i \in 1..Cardinality(places) |-> VolumeAt(d, any)]
    BY DEF Named
  <1> HIDE DEF any, places
  <1>7. Named(d, name, lv) = [i \in 1..1 |-> VolumeAt(d, k)]
    BY <1>5, <1>6 DEF any
  <1>8. \A x : [i \in 1..1 |-> x] = <<x>>
    OBVIOUS
  <1> QED
    BY <1>7, <1>8

\* The volume of an entry that the document asks for is one of the config.
LEMMA AskedContained ==
  ASSUME NEW d \in Doc, Accepted(d), NEW i \in DOMAIN d.volumes, AskedFor(d, i),
         MntDir(d.volumes[i]) # NoDir
  PROVE  /\ Contains(VolumesOf(Parse(d)), VolumeAt(d, i)) /\ IsMounted(VolumeAt(d, i))
         /\ VolumesOf(Parse(d)) \in Seq(AnyVolume)
  <1> DEFINE c == Parse(d)
             e == d.volumes[i]
             v == VolumeAt(d, i)
             A == Seq(AnyVolume)
             boot == c.boot
             esp == c.esp
             swap == c.swap
             vs == c.volumes
             root == c.root
  <1>1. /\ d.volumes \in Seq(Entry) /\ DOMAIN d.volumes = 1..Len(d.volumes) /\ Len(d.volumes) \in Nat
        /\ e \in Entry
    BY DEF Doc
  <1>2. Counts(d, i) /\ e.fstype # "swap" /\ (e.name = "esp" => d.boot_type = "uefi")
    <2>1. /\ e.enabled # "off" /\ e.fstype # "swap"
          /\ \A k \in DOMAIN d.volumes : k > i => ~ SameKey(e, d.volumes[k])
          /\ e.name = "esp" => d.boot_type = "uefi"
      BY DEF AskedFor
    <2>2. \A k \in (i + 1)..Len(d.volumes) : k \in DOMAIN d.volumes /\ k > i
      BY <1>1
    <2> QED
      BY <2>1, <2>2 DEF Counts, IsLast, IsOn, SameKey
  <1>3. IsMounted(v)
    BY <1>2 DEF IsMounted, VolumeAt
  <1>4. /\ root = Named(d, "root", TRUE) /\ boot = Named(d, "boot", FALSE)
        /\ esp = (IF d.boot_type = "uefi" THEN Named(d, "esp", FALSE) ELSE <<>>)
        /\ swap = Named(d, "swap", FALSE) /\ vs = Extra(d)
    BY DEF Parse
  <1>5. boot \in A /\ esp \in A /\ swap \in A /\ vs \in A /\ root \in A
    <2>1. OtherVolume \subseteq AnyVolume
      BY DEF OtherVolume, AnyVolume
    <2>2. \A l \in {"boot", "esp", "swap", "volumes"} : c[l] \in Seq(OtherVolume)
      BY ParseTyped
    <2> HIDE DEF c
    <2>3. c.boot \in A /\ c.esp \in A /\ c.swap \in A /\ c.volumes \in A
      BY <2>1, <2>2, SeqMonotonic
    <2>4. PICK x \in AnyVolume : c.root = <<x>>
      BY RootVolume DEF c
    <2> QED
      BY <2>3, <2>4
  <1>6. \A name, lv : e.name = name /\ IsLv(e) = lv => i \in Places(d, name, lv)
    BY <1>2 DEF Places
  <1>7. \A x : Contains(<<x>>, x)
    BY DEF Contains
  <1>8. \/ Contains(root, v) \/ Contains(boot, v) \/ Contains(esp, v) \/ Contains(swap, v)
        \/ Contains(vs, v)
    <2>1. CASE IsLv(e) /\ e.name = "root"
      <3>1. i \in Places(d, "root", TRUE)
        BY <1>6, <2>1 DEF IsLv
      <3> QED
        BY <3>1, <1>4, <1>7, NamedOne
    <2>2. CASE IsLv(e) /\ e.name # "root"
      <3>1. IsExtra(d, i)
        BY <1>2, <2>2 DEF IsExtra
      <3> DEFINE ss == [k \in DOMAIN d.volumes |->
                           IF IsExtra(d, k) THEN <<VolumeAt(d, k)>> ELSE <<>>]
      <3>2. ASSUME NEW k \in 1..Len(d.volumes)
            PROVE  (IF IsExtra(d, k) THEN <<VolumeAt(d, k)>> ELSE <<>>) \in A
        <4>1. VolumeAt(d, k) \in AnyVolume
          BY <1>1, EntryDir DEF VolumeAt, AnyVolume
        <4> QED
          BY <4>1
      <3>3. ss \in Seq(A) /\ ss[i] = <<v>> /\ i \in 1..Len(ss)
        <4>1. ss \in Seq(A)
          BY <1>1, <3>2
        <4> QED
          BY <4>1, <1>1, <3>1
      <3>4. Extra(d) = FlattenSeq(ss)
        BY DEF Extra
      <3> HIDE DEF ss, v
      <3>5. Contains(Extra(d), v)
        BY <3>3, <3>4, <1>7, FlattenContains
      <3> QED
        BY <3>5, <1>4
    <2>3. CASE ~ IsLv(e)
      <3>1. e.name \in {"esp", "boot", "swap"}
        BY <1>2, <2>3 DEF IsLv
      <3>2. i \in Places(d, e.name, FALSE)
        BY <1>6, <2>3 DEF IsLv
      <3>3. Named(d, e.name, FALSE) = <<v>>
        BY <3>2, NamedOne
      <3> QED
        BY <3>1, <3>3, <1>2, <1>4, <1>7
    <2> QED
      BY <2>1, <2>2, <2>3
  <1>9. VolumesOf(c) = root \o boot \o (esp \o swap) \o vs
    BY Zenon DEF VolumesOf
  <1> HIDE DEF root, boot, esp, swap, vs, v
  <1> DEFINE x == root \o boot
             y == esp \o swap
             z == x \o y
  <1>10. x \in A /\ y \in A
    BY <1>5, ConcatProperties
  <1>11. /\ Contains(root, v) \/ Contains(boot, v) => Contains(x, v)
         /\ Contains(esp, v) \/ Contains(swap, v) => Contains(y, v)
    BY <1>5, ContainsConcat
  <1> HIDE DEF x, y
  <1>12. z \in A /\ (Contains(x, v) \/ Contains(y, v) => Contains(z, v))
    BY <1>10, ContainsConcat, ConcatProperties
  <1> HIDE DEF z
  <1>13. z \o vs \in A /\ (Contains(z, v) \/ Contains(vs, v) => Contains(z \o vs, v))
    BY <1>5, <1>12, ContainsConcat, ConcatProperties
  <1>14. VolumesOf(c) = z \o vs
    BY <1>9, Zenon DEF x, y, z
  <1> QED
    BY <1>3, <1>8, <1>11, <1>12, <1>13, <1>14 DEF v
=============================================================================
