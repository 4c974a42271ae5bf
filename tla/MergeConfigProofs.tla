------------------------- MODULE MergeConfigProofs --------------------------
(***************************************************************************)
(* Proofs about merge-config.py, for all aliases, every list of variables  *)
(* that collect values and every sequence of definitions: which files are  *)
(* accepted, and what value each variable has.                             *)
(***************************************************************************)
EXTENDS MergeConfig, FiniteSetTheorems, SequenceTheorems, WellFoundedInduction, TLAPS

-----------------------------------------------------------------------------
(* Recursion                                                               *)

\* A set of natural numbers that is not empty has a least element.
LEMMA LeastNumber ==
  ASSUME NEW S \in SUBSET Nat, S # {}
  PROVE  \E i \in S : \A k \in S : i <= k
  <1> DEFINE R == OpToRel(<, Nat)
  <1>1. PICK i \in S : ~ \E y \in S : <<y, i>> \in R
    BY NatLessThanWellFounded, WFMin
  <1>2. \A k \in S : ~ (k < i)
    BY <1>1 DEF OpToRel
  <1> QED
    BY <1>2

\* The names that the replacements of a name lead to, up to the n-th.
Replaces(f, name, n) ==
    f = [k \in 0..n |-> IF k = 0 THEN name
                        ELSE IF f[k - 1] \in DOMAIN Alias THEN Alias[f[k - 1]] ELSE f[k - 1]]

\* The recursion of Unaliased is well-defined.
LEMMA ReplacesDefined ==
  ASSUME NEW name, NEW n \in Nat PROVE \E f : Replaces(f, name, n)
  <1> DEFINE Undefined == {k \in Nat : ~ \E f : Replaces(f, name, k)}
  <1>1. SUFFICES ASSUME Undefined # {} PROVE FALSE
    OBVIOUS
  <1>2. PICK k \in Undefined : \A l \in Undefined : k <= l
    BY <1>1, LeastNumber
  <1>3. k # 0
    <2> SUFFICES ASSUME k = 0 PROVE FALSE
      OBVIOUS
    <2>1. Replaces([i \in 0..0 |-> name], name, 0)
      BY DEF Replaces
    <2> QED
      BY <2>1, <1>2
  <1>4. k \in Nat /\ k - 1 \in Nat /\ ~ (k <= k - 1)
    BY <1>3
  <1>5. PICK f : Replaces(f, name, k - 1)
    BY <1>2, <1>4
  <1> DEFINE next(n0) == IF n0 \in DOMAIN Alias THEN Alias[n0] ELSE n0
             g == [i \in 0..k |-> IF i = k THEN next(f[k - 1]) ELSE f[i]]
  <1>6. ASSUME NEW i \in 0..k PROVE g[i] = IF i = 0 THEN name ELSE next(g[i - 1])
    <2> HIDE DEF next
    <2>1. CASE i = k
      <3>1. g[k - 1] = f[k - 1] /\ g[i] = next(f[k - 1])
        BY <1>4, <2>1
      <3> QED
        BY <1>3, <2>1, <3>1
    <2>2. CASE i # k
      <3>1. i \in 0..(k - 1) /\ g[i] = f[i]
        BY <1>4, <2>2
      <3>2. f[i] = IF i = 0 THEN name ELSE next(f[i - 1])
        BY <3>1, <1>5 DEF Replaces, next
      <3>3. i # 0 => g[i - 1] = f[i - 1]
        BY <3>1, <1>4
      <3> QED
        BY <3>1, <3>2, <3>3
    <2> QED
      BY <2>1, <2>2
  <1>7. Replaces(g, name, k)
    BY <1>6, Zenon DEF Replaces
  <1> QED
    BY <1>7, <1>2

\* The old names, and how many there are.
Old == DOMAIN Alias
Aliases == Cardinality(Old)

\* The steps that the replacement of a name takes.
LEMMA Steps ==
  ASSUME NEW name
  PROVE  \E f : /\ f[0] = name /\ Unaliased(name) = f[Aliases]
                /\ \A k \in 1..Aliases :
                      /\ f[k - 1] \in Old => f[k] = Alias[f[k - 1]]
                      /\ f[k - 1] \notin Old => f[k] = f[k - 1]
  <1> DEFINE N == Aliases
             h == CHOOSE f : f = [k \in 0..N |->
                      IF k = 0 THEN name
                      ELSE IF f[k - 1] \in DOMAIN Alias THEN Alias[f[k - 1]] ELSE f[k - 1]]
  <1>1. N \in Nat
    BY NameAssumption, FS_CardinalityType DEF Aliases, Old
  <1>2. Replaces(h, name, N)
    BY <1>1, ReplacesDefined DEF Replaces
  <1>3. Unaliased(name) = h[N]
    BY Zenon DEF Unaliased, Aliases, Old
  <1> HIDE DEF h, N
  <1>4. h[0] = name
    <2>1. 0 \in 0..N
      BY <1>1
    <2> QED
      BY <2>1, <1>2 DEF Replaces
  <1>5. ASSUME NEW k \in 1..N
        PROVE  /\ h[k - 1] \in Old => h[k] = Alias[h[k - 1]]
               /\ h[k - 1] \notin Old => h[k] = h[k - 1]
    <2>1. k \in 0..N /\ k # 0
      BY <1>1
    <2>2. h[k] = IF k = 0 THEN name
                 ELSE IF h[k - 1] \in DOMAIN Alias THEN Alias[h[k - 1]] ELSE h[k - 1]
      BY <2>1, <1>2 DEF Replaces
    <2> QED
      BY <2>1, <2>2 DEF Old
  <1> QED
    BY <1>3, <1>4, <1>5 DEF N

\* unalias_varname() refuses a name exactly if replacing it has no end.
LEMMA CircularIsEndless == ASSUME NEW name PROVE Circular(name) <=> Endless(name)
  <1>1. PICK f : /\ f[0] = name /\ Unaliased(name) = f[Aliases]
                 /\ \A k \in 1..Aliases : /\ f[k - 1] \in Old => f[k] = Alias[f[k - 1]]
                                          /\ f[k - 1] \notin Old => f[k] = f[k - 1]
    BY Steps
  <1>2. IsFiniteSet(Old) /\ Aliases \in Nat
    BY NameAssumption, FS_CardinalityType DEF Aliases, Old
  <1>3. ASSUME Endless(name) PROVE Circular(name)
    <2>1. PICK S \in SUBSET Old : name \in S /\ \A n \in S : Alias[n] \in S
      BY <1>3 DEF Endless, Old
    <2> DEFINE Bad == {k \in 0..Aliases : f[k] \notin S}
    <2>2. Bad = {}
      <3> SUFFICES ASSUME Bad # {} PROVE FALSE
        OBVIOUS
      <3>1. PICK k \in Bad : \A l \in Bad : k <= l
        <4>1. Bad \in SUBSET Nat
          BY <1>2
        <4> HIDE DEF Bad
        <4> QED
          BY <4>1, LeastNumber
      <3>2. k # 0
        BY <3>1, <2>1, <1>1
      <3>3. k \in 1..Aliases /\ k - 1 \in 0..Aliases /\ ~ (k <= k - 1)
        BY <1>2, <3>1, <3>2
      <3>4. f[k - 1] \in S
        BY <3>1, <3>3
      <3> QED
        BY <3>1, <3>3, <3>4, <2>1, <1>1
    <2>3. f[Aliases] \in S
      BY <2>2, <1>2
    <2> QED
      BY <2>1, <2>3, <1>1 DEF Circular, Old
  <1>4. ASSUME Circular(name) PROVE Endless(name)
    <2>1. f[Aliases] \in Old
      BY <1>1, <1>4 DEF Circular, Old
    <2>2. \A k \in 0..Aliases : f[k] \in Old
      <3> DEFINE Bad == {d \in Nat : d <= Aliases /\ f[Aliases - d] \notin Old}
      <3>1. Bad = {}
        <4> SUFFICES ASSUME Bad # {} PROVE FALSE
          OBVIOUS
        <4>1. PICK d \in Bad : \A l \in Bad : d <= l
          BY LeastNumber
        <4>2. d # 0
          BY <4>1, <2>1, <1>2
        <4>3. d - 1 \in Nat /\ d - 1 <= Aliases /\ ~ (d <= d - 1)
          BY <4>1, <4>2, <1>2
        <4>4. f[Aliases - (d - 1)] \in Old
          BY <4>1, <4>3
        <4> DEFINE k == Aliases - (d - 1)
        <4>5. k \in 1..Aliases /\ k - 1 = Aliases - d
          BY <4>1, <4>2, <1>2
        <4>6. f[k - 1] \notin Old
          BY <4>1, <4>5
        <4> HIDE DEF k
        <4>7. f[k] = f[k - 1]
          BY <4>5, <4>6, <1>1
        <4> QED
          BY <4>4, <4>6, <4>7 DEF k
      <3>2. ASSUME NEW k \in 0..Aliases PROVE f[k] \in Old
        <4>1. Aliases - k \in Nat /\ Aliases - k <= Aliases /\ Aliases - (Aliases - k) = k
          BY <1>2
        <4> QED
          BY <3>1, <4>1
      <3> QED
        BY <3>2
    <2> DEFINE g == [k \in 0..Aliases |-> f[k]]
    <2>3. \E i, j \in 0..Aliases : i # j /\ g[i] = g[j]
      <3>1. IsFiniteSet(0..Aliases) /\ Cardinality(0..Aliases) = Aliases + 1
        <4>1. 0 \in Int /\ Aliases \in Int /\ 0 <= Aliases
          BY <1>2
        <4>2. /\ IsFiniteSet(0..Aliases)
              /\ Cardinality(0..Aliases) = IF 0 > Aliases THEN 0 ELSE Aliases - 0 + 1
          BY <4>1, FS_Interval
        <4> QED
          BY <4>1, <4>2
      <3>2. Cardinality(Old) < Cardinality(0..Aliases)
        BY <3>1, <1>2 DEF Aliases
      <3>3. g \in [0..Aliases -> Old]
        BY <2>2
      <3> HIDE DEF g
      <3> QED
        BY <1>2, <3>1, <3>2, <3>3, FS_PigeonHole
    <2>4. PICK i \in 0..Aliases, j \in 0..Aliases : i < j /\ f[i] = f[j]
      <3>1. PICK i, j \in 0..Aliases : i # j /\ f[i] = f[j]
        BY <2>3
      <3>2. i < j \/ j < i
        BY <3>1, <1>2
      <3> QED
        BY <3>1, <3>2
    <2> DEFINE S == {f[k] : k \in 0..(j - 1)}
    <2>5. S \subseteq Old
      <3>1. 0..(j - 1) \subseteq 0..Aliases
        BY <1>2
      <3> QED
        BY <2>2, <3>1
    <2>6. name \in S
      <3>1. 0 \in 0..(j - 1)
        BY <1>2, <2>4
      <3> QED
        BY <3>1, <1>1
    <2>7. ASSUME NEW n \in S PROVE Alias[n] \in S
      <3>1. PICK k \in 0..(j - 1) : n = f[k]
        BY <2>7
      <3>2. k + 1 \in 1..Aliases /\ (k + 1) - 1 = k
        BY <1>2, <2>4
      <3>3. n \in Old
        BY <2>5, <2>7
      <3>4. f[k + 1] = Alias[n]
        BY <1>1, <3>1, <3>2, <3>3
      <3>5. CASE k + 1 = j
        <4>1. i \in 0..(j - 1)
          BY <1>2, <2>4
        <4> QED
          BY <3>4, <3>5, <4>1, <2>4
      <3>6. CASE k + 1 # j
        <4>1. k + 1 \in 0..(j - 1)
          BY <1>2, <2>4, <3>6
        <4> QED
          BY <3>4, <4>1
      <3> QED
        BY <3>5, <3>6
    <2> HIDE DEF S
    <2> QED
      BY <2>5, <2>6, <2>7 DEF Endless, Old
  <1> QED
    BY <1>3, <1>4

-----------------------------------------------------------------------------
(* What FlattenSeq computes                                                *)

\* What FlattenSeq computes, up to the n-th sequence.
FlatUpTo(f, ss, n) ==
    f = [i \in 1..n |-> IF i = 1 THEN ss[i] ELSE f[i - 1] \o ss[i]]

\* The recursion of FlattenSeq is well-defined.
LEMMA FlattenDefined ==
  ASSUME NEW S, NEW ss \in Seq(Seq(S)), ss # <<>>
  PROVE  \E f : FlatUpTo(f, ss, Len(ss)) /\ FlattenSeq(ss) = f[Len(ss)]
  <1> DEFINE Undefined == {n \in Nat : ~ \E f : FlatUpTo(f, ss, n)}
  <1>1. Undefined = {}
    <2> SUFFICES ASSUME Undefined # {} PROVE FALSE
      OBVIOUS
    <2>1. PICK n \in Undefined : \A k \in Undefined : n <= k
      BY LeastNumber
    <2>2. n # 0
      <3>1. FlatUpTo([i \in 1..0 |-> <<>>], ss, 0)
        BY DEF FlatUpTo
      <3> QED
        BY <3>1, <2>1
    <2>3. n \in Nat
      OBVIOUS
    <2>4. n - 1 \in Nat /\ ~ (n <= n - 1)
      BY <2>2, <2>3
    <2>5. n - 1 \notin Undefined
      BY <2>1, <2>4
    <2>6. PICK f : FlatUpTo(f, ss, n - 1)
      BY <2>4, <2>5
    <2> DEFINE g == [i \in 1..n |-> IF i = n THEN (IF n = 1 THEN ss[n] ELSE f[n - 1] \o ss[n])
                                             ELSE f[i]]
    <2>7. \A i \in 1..n : g[i] = IF i = 1 THEN ss[i] ELSE g[i - 1] \o ss[i]
      <3> TAKE i \in 1..n
      <3>1. CASE i = n
        <4>1. n # 1 => g[n - 1] = f[n - 1]
          BY <2>2, <2>3
        <4> QED
          BY <3>1, <4>1
      <3>2. CASE i # n
        <4>1. i \in 1..(n - 1) /\ g[i] = f[i]
          BY <3>2, <2>3
        <4>2. f[i] = IF i = 1 THEN ss[i] ELSE f[i - 1] \o ss[i]
          BY <4>1, <2>6 DEF FlatUpTo
        <4>3. i # 1 => g[i - 1] = f[i - 1]
          BY <4>1, <2>3
        <4> QED
          BY <4>1, <4>2, <4>3
      <3> QED
        BY <3>1, <3>2
    <2>8. FlatUpTo(g, ss, n)
      BY <2>7, Zenon DEF FlatUpTo
    <2> QED
      BY <2>8, <2>1
  <1> DEFINE h == CHOOSE f : f = [i \in 1..Len(ss) |-> IF i = 1 THEN ss[i] ELSE f[i - 1] \o ss[i]]
  <1>2. Len(ss) \in Nat /\ Len(ss) # 0
    OBVIOUS
  <1>3. \E f : f = [i \in 1..Len(ss) |-> IF i = 1 THEN ss[i] ELSE f[i - 1] \o ss[i]]
    BY <1>1, <1>2 DEF FlatUpTo
  <1>4. h = [i \in 1..Len(ss) |-> IF i = 1 THEN ss[i] ELSE h[i - 1] \o ss[i]]
    BY <1>3
  <1>5. FlattenSeq(ss) = h[Len(ss)]
    BY <1>2 DEF FlattenSeq
  <1> HIDE DEF h
  <1> QED
    BY <1>4, <1>5 DEF FlatUpTo

\* It has the elements of all sequences in it.
LEMMA FlattenTyped ==
  ASSUME NEW S, NEW ss \in Seq(Seq(S))
  PROVE  FlattenSeq(ss) \in Seq(S)
  <1>1. CASE ss = <<>>
    BY <1>1 DEF FlattenSeq
  <1>2. CASE ss # <<>>
    <2>1. PICK f : FlatUpTo(f, ss, Len(ss)) /\ FlattenSeq(ss) = f[Len(ss)]
      BY <1>2, FlattenDefined
    <2> DEFINE Bad == {n \in 1..Len(ss) : f[n] \notin Seq(S)}
    <2>2. Len(ss) \in Nat \ {0} /\ Bad \in SUBSET Nat
      BY <1>2
    <2>3. Bad = {}
      <3> SUFFICES ASSUME Bad # {} PROVE FALSE
        OBVIOUS
      <3>1. PICK n \in Bad : \A k \in Bad : n <= k
        BY <2>2, LeastNumber
      <3>2. n \in 1..Len(ss) /\ f[n] \notin Seq(S) /\ ss[n] \in Seq(S)
        OBVIOUS
      <3>3. f[n] = IF n = 1 THEN ss[n] ELSE f[n - 1] \o ss[n]
        BY <2>1, <3>2 DEF FlatUpTo
      <3>4. n # 1
        BY <3>2, <3>3
      <3>5. n - 1 \in 1..Len(ss) /\ ~ (n <= n - 1)
        BY <3>2, <3>4
      <3>6. f[n - 1] \in Seq(S)
        BY <3>1, <3>5
      <3>7. f[n - 1] \o ss[n] \in Seq(S)
        BY <3>2, <3>6
      <3> QED
        BY <3>2, <3>3, <3>4, <3>7
    <2>4. f[Len(ss)] \in Seq(S)
      BY <2>2, <2>3
    <2> QED
      BY <2>1, <2>4
  <1> QED
    BY <1>1, <1>2

\* One more sequence comes last.
LEMMA FlattenAppend ==
  ASSUME NEW S, NEW ss \in Seq(Seq(S)), NEW s \in Seq(S)
  PROVE  FlattenSeq(Append(ss, s)) = FlattenSeq(ss) \o s
  <1> DEFINE n == Len(ss)
             tt == Append(ss, s)
  <1>1. /\ n \in Nat /\ tt \in Seq(Seq(S)) /\ Len(tt) = n + 1 /\ tt # <<>> /\ tt[n + 1] = s
        /\ \A i \in 1..n : tt[i] = ss[i]
    <2> DEFINE T == Seq(S)
    <2> HIDE DEF T
    <2>1. ss \in Seq(T) /\ s \in T
      BY DEF T
    <2>2. /\ n \in Nat /\ tt \in Seq(T) /\ Len(tt) = n + 1 /\ tt # <<>> /\ tt[n + 1] = s
          /\ \A i \in 1..n : tt[i] = ss[i]
      BY <2>1, AppendProperties
    <2> QED
      BY <2>2 DEF T
  <1> HIDE DEF tt
  <1>2. PICK g : FlatUpTo(g, tt, Len(tt)) /\ FlattenSeq(tt) = g[Len(tt)]
    BY <1>1, FlattenDefined
  <1>3. \A i \in 1..(n + 1) : g[i] = IF i = 1 THEN tt[i] ELSE g[i - 1] \o tt[i]
    BY <1>1, <1>2 DEF FlatUpTo
  <1>4. CASE ss = <<>>
    <2>1. n = 0 /\ g[1] = s
      BY <1>1, <1>3, <1>4
    <2>2. FlattenSeq(tt) = s
      BY <1>1, <1>2, <2>1
    <2>3. FlattenSeq(ss) = <<>>
      BY <1>4 DEF FlattenSeq
    <2>4. <<>> \o s = s
      OBVIOUS
    <2> QED
      BY <2>2, <2>3, <2>4 DEF tt
  <1>5. CASE ss # <<>>
    <2>1. PICK f : FlatUpTo(f, ss, Len(ss)) /\ FlattenSeq(ss) = f[Len(ss)]
      BY <1>5, FlattenDefined
    <2>2. \A i \in 1..n : f[i] = IF i = 1 THEN ss[i] ELSE f[i - 1] \o ss[i]
      BY <2>1 DEF FlatUpTo
    <2> DEFINE Bad == {i \in 1..n : g[i] # f[i]}
    <2>3. Bad = {}
      <3> SUFFICES ASSUME Bad # {} PROVE FALSE
        OBVIOUS
      <3>1. PICK i \in Bad : \A k \in Bad : i <= k
        <4>1. Bad \in SUBSET Nat
          BY <1>1
        <4> HIDE DEF Bad
        <4> QED
          BY <4>1, LeastNumber
      <3>2. i \in 1..n /\ i \in 1..(n + 1) /\ g[i] # f[i] /\ tt[i] = ss[i]
        BY <1>1, <3>1
      <3>3. i # 1
        BY <3>2, <1>3, <2>2
      <3>4. i - 1 \in 1..n /\ ~ (i <= i - 1)
        BY <1>1, <3>2, <3>3
      <3>5. g[i - 1] = f[i - 1]
        BY <3>1, <3>4
      <3> HIDE DEF n
      <3> QED
        BY <3>2, <3>3, <3>5, <1>3, <2>2
    <2>4. n # 0 /\ n \in 1..n /\ n + 1 \in 1..(n + 1) /\ n + 1 # 1 /\ (n + 1) - 1 = n
      BY <1>1, <1>5
    <2>5. g[n] = f[n]
      BY <2>3, <2>4
    <2>6. g[n + 1] = g[n] \o tt[n + 1]
      <3> HIDE DEF n
      <3> QED
        BY <1>3, <2>4
    <2> QED
      BY <1>1, <1>2, <2>1, <2>5, <2>6 DEF tt
  <1> QED
    BY <1>4, <1>5

-----------------------------------------------------------------------------
(* Which files are accepted                                                *)

\* The variable of definition i.
N(i) == Unaliased(defs[i].name)

\* Definition i stands where it may: its variable is declared before if it is set,
\* and not yet known if it is declared.
DeclaredFirst(i) ==
    /\ defs[i].mode = "set" => DefinitionsOf(N(i), i - 1) # {}
    /\ defs[i].mode = "declare" => DefinitionsOf(N(i), i - 1) = {}

Merged == {"merge", "expand", "done", "failed"}
Errors == {"circular", "undeclared", "redeclared"}

TypeOK ==
    /\ defs \in Seq(Definition)
    /\ pos \in 0..Len(defs)
    /\ merge \in Merged \cup Errors
    /\ merge \in {"expand", "done", "failed"} => pos = Len(defs)

\* While definitions are merged, the variables are those defined so far.
Variables == merge = "merge" => DOMAIN vmap = {N(i) : i \in 1..pos}

\* Each definition that was merged may stand where it stands; one that was
\* refused may not.
Judged ==
    /\ merge \in Merged => \A i \in 1..pos : DeclaredFirst(i) /\ ~ Circular(defs[i].name)
    /\ merge \in {"undeclared", "redeclared"} => \E i \in DOMAIN defs : ~ DeclaredFirst(i)
    /\ merge = "circular" => \E n \in {defs[i].name : i \in DOMAIN defs} \cup MergeVars : Circular(n)

\* The variable of the next definition is known if it was defined before.
LEMMA KnownIfDefined ==
  ASSUME TypeOK, Variables, merge = "merge", pos < Len(defs)
  PROVE  /\ pos + 1 \in DOMAIN defs /\ defs[pos + 1] \in Definition /\ pos \in Nat
         /\ Known(N(pos + 1)) <=> DefinitionsOf(N(pos + 1), (pos + 1) - 1) # {}
  <1>1. pos \in Nat /\ (pos + 1) - 1 = pos /\ pos + 1 \in 1..Len(defs)
    BY DEF TypeOK
  <1>2. defs[pos + 1] \in Definition /\ DOMAIN defs = 1..Len(defs)
    BY <1>1 DEF TypeOK
  <1>3. Known(N(pos + 1)) <=> \E i \in 1..pos : N(i) = N(pos + 1)
    BY DEF Known, Variables
  <1>4. DefinitionsOf(N(pos + 1), pos) = {i \in 1..pos : N(i) = N(pos + 1)}
    BY DEF DefinitionsOf, N
  <1> QED
    BY <1>1, <1>2, <1>3, <1>4

\* A definition is refused exactly if it may not stand where it stands.
LEMMA RefusalJudges ==
  ASSUME TypeOK, Variables, merge = "merge", pos < Len(defs)
  PROVE  LET d == defs[pos + 1] IN
         /\ Refusal(d) = "none" => DeclaredFirst(pos + 1) /\ ~ Circular(d.name)
         /\ Refusal(d) \in {"undeclared", "redeclared"} => ~ DeclaredFirst(pos + 1)
         /\ Refusal(d) = "circular" => Circular(d.name)
         /\ Refusal(d) \in Errors \cup {"none"}
  <1> DEFINE d == defs[pos + 1]
             known == Known(Unaliased(d.name))
             circular == Circular(d.name)
  <1>1. known <=> DefinitionsOf(N(pos + 1), (pos + 1) - 1) # {}
    BY KnownIfDefined DEF N
  <1>2. d.mode \in {"declare", "set", "optional"}
    BY KnownIfDefined DEF Definition
  <1>3. Refusal(d) = IF circular THEN "circular"
                     ELSE CASE d.mode = "set" /\ ~ known -> "undeclared"
                            [] d.mode = "declare" /\ known -> "redeclared"
                            [] OTHER -> "none"
    BY DEF Refusal
  <1>4. DeclaredFirst(pos + 1) <=> /\ d.mode = "set" => known
                                   /\ d.mode = "declare" => ~ known
    BY <1>1 DEF DeclaredFirst
  <1> HIDE DEF d, known, circular
  <1>5. CASE circular
    <2>1. Refusal(d) = "circular"
      BY <1>3, <1>5, Zenon
    <2> QED
      BY <1>5, <2>1 DEF circular, d, Errors
  <1>6. CASE ~ circular /\ d.mode = "set" /\ ~ known
    <2>1. Refusal(d) = "undeclared"
      BY <1>3, <1>6
    <2> QED
      BY <1>4, <1>6, <2>1 DEF d, Errors
  <1>7. CASE ~ circular /\ d.mode = "declare" /\ known
    <2>1. Refusal(d) = "redeclared"
      BY <1>3, <1>7
    <2> QED
      BY <1>4, <1>7, <2>1 DEF d, Errors
  <1>8. CASE ~ circular /\ (d.mode = "set" => known) /\ (d.mode = "declare" => ~ known)
    <2>1. Refusal(d) = "none"
      BY <1>3, <1>8
    <2> QED
      BY <1>4, <1>8, <2>1 DEF d, Errors, circular
  <1> QED
    BY <1>5, <1>6, <1>7, <1>8

\* At first nothing is merged; a list of variables to collect in may be refused.
LEMMA InitAccepts == Init => TypeOK /\ Variables /\ Judged
  <1> SUFFICES ASSUME Init PROVE TypeOK /\ Variables /\ Judged
    OBVIOUS
  <1>1. PICK input \in Inputs : /\ defs = input /\ pos = 0 /\ vmap = <<>>
          /\ merge = IF \E name \in MergeVars : Circular(name) THEN "circular" ELSE "merge"
    BY DEF Init, Start
  <1>2. defs \in Seq(Definition) /\ Len(defs) \in Nat
    BY <1>1, InputsAssumption
  <1>3. 1..pos = {} /\ DOMAIN vmap = {}
    BY <1>1
  <1>4. merge \in {"circular", "merge"} /\ (merge = "circular" => \E n \in MergeVars : Circular(n))
    BY <1>1
  <1>5. TypeOK
    BY <1>1, <1>2, <1>4 DEF TypeOK, Merged, Errors
  <1>6. Variables
    BY <1>3 DEF Variables
  <1>7. Judged
    BY <1>3, <1>4 DEF Judged
  <1> QED
    BY <1>5, <1>6, <1>7

\* What the properties are stated with depends on the definitions only.
LEMMA SameDefs ==
  ASSUME defs' = defs
  PROVE  /\ \A i : N(i)' = N(i) /\ DeclaredFirst(i)' = DeclaredFirst(i)
         /\ \A n : Circular(n)' = Circular(n)
  BY DEF N, DeclaredFirst, DefinitionsOf, Circular

\* Each step keeps what was judged.
LEMMA StepAccepts ==
  ASSUME TypeOK, Variables, Judged, [Next]_vars
  PROVE  (TypeOK /\ Variables /\ Judged)'
  <1>1. CASE MergeOne
    <2>1. /\ merge = "merge" /\ pos < Len(defs) /\ Refusal(defs[pos + 1]) = "none"
          /\ pos' = pos + 1 /\ defs' = defs /\ merge' = merge
      BY <1>1 DEF MergeOne
    <2>2. /\ pos + 1 \in DOMAIN defs /\ pos \in Nat /\ DOMAIN defs = 1..Len(defs)
          /\ 1..(pos + 1) = (1..pos) \cup {pos + 1}
      BY <2>1, KnownIfDefined DEF TypeOK
    <2>3. DOMAIN vmap' = DOMAIN vmap \cup {N(pos + 1)}
      BY <1>1 DEF MergeOne, With, N
    <2>4. TypeOK'
      BY <2>1, <2>2 DEF TypeOK
    <2>5. Variables'
      BY <2>1, <2>2, <2>3, SameDefs DEF Variables
    <2>6. DeclaredFirst(pos + 1) /\ ~ Circular(defs[pos + 1].name)
      BY <2>1, RefusalJudges
    <2>7. \A i \in 1..pos' : DeclaredFirst(i) /\ ~ Circular(defs[i].name)
      BY <2>1, <2>2, <2>6 DEF Judged, Merged
    <2>8. Judged'
      <3>1. merge' = "merge"
        BY <2>1
      <3> QED
        BY <2>1, <2>7, <3>1, SameDefs DEF Judged
    <2> QED
      BY <2>4, <2>5, <2>8
  <1>2. CASE Refuse
    <2>1. /\ merge = "merge" /\ pos < Len(defs) /\ Refusal(defs[pos + 1]) # "none"
          /\ pos' = pos /\ defs' = defs /\ merge' = Refusal(defs[pos + 1])
      BY <1>2 DEF Refuse
    <2>2. pos + 1 \in DOMAIN defs
      BY <2>1, KnownIfDefined
    <2>3. /\ merge' \in {"undeclared", "redeclared"} => ~ DeclaredFirst(pos + 1)
          /\ merge' = "circular" => Circular(defs[pos + 1].name)
          /\ merge' \in Errors
      BY <2>1, RefusalJudges
    <2>4. TypeOK'
      BY <2>1, <2>3 DEF TypeOK, Errors
    <2>5. Variables'
      BY <2>3 DEF Variables, Errors
    <2>6. Judged'
      <3>1. merge' \notin Merged
        BY <2>3 DEF Merged, Errors
      <3> QED
        BY <2>1, <2>2, <2>3, <3>1, SameDefs DEF Judged
    <2> QED
      BY <2>4, <2>5, <2>6
  <1>3. CASE ExpandPasswords \/ HashFails \/ ExpandRoutes \/ InvalidRoute
    <2>1. /\ defs' = defs /\ pos' = pos /\ pos = Len(defs) /\ merge \in Merged
          /\ merge' \in {"expand", "done", "failed"}
      BY <1>3 DEF ExpandPasswords, HashFails, ExpandRoutes, InvalidRoute, TypeOK, Merged
    <2>2. TypeOK'
      BY <2>1 DEF TypeOK, Merged
    <2>3. Variables'
      BY <2>1 DEF Variables
    <2>4. Judged'
      BY <2>1, SameDefs DEF Judged, Merged
    <2> QED
      BY <2>2, <2>3, <2>4
  <1>4. CASE UNCHANGED vars
    <2>1. defs' = defs /\ pos' = pos /\ merge' = merge /\ vmap' = vmap
      BY <1>4 DEF vars
    <2> QED
      BY <2>1, SameDefs DEF TypeOK, Variables, Judged
  <1> QED
    BY <1>1, <1>2, <1>3, <1>4 DEF Next

\* merge-config.py accepts its files exactly if every variable is declared before it
\* is set, and once, under all names that it has, and no name is replaced without end.
THEOREM DeclarationsJudged == Spec => []AcceptedIffDeclared
  <1>1. TypeOK /\ Judged => AcceptedIffDeclared
    <2> SUFFICES ASSUME TypeOK, Judged PROVE AcceptedIffDeclared
      OBVIOUS
    <2> DEFINE declaredFirst ==
            \A i \in DOMAIN defs :
                LET earlier == DefinitionsOf(Unaliased(defs[i].name), i - 1) IN
                CASE defs[i].mode = "set" -> earlier # {}
                  [] defs[i].mode = "declare" -> earlier = {}
                  [] OTHER -> TRUE
               named == {defs[i].name : i \in DOMAIN defs}
    <2>1. declaredFirst <=> \A i \in DOMAIN defs : DeclaredFirst(i)
      BY DEF DeclaredFirst, N
    <2>2. \A n : Circular(n) <=> Endless(n)
      BY CircularIsEndless
    <2>3. merge \in {"expand", "done", "failed"} => declaredFirst /\ \A n \in named : ~ Endless(n)
      <3> SUFFICES ASSUME merge \in {"expand", "done", "failed"}
                   PROVE  declaredFirst /\ \A n \in named : ~ Endless(n)
        OBVIOUS
      <3>1. 1..pos = DOMAIN defs
        BY DEF TypeOK
      <3>2. \A i \in DOMAIN defs : DeclaredFirst(i) /\ ~ Circular(defs[i].name)
        BY <3>1 DEF Judged, Merged
      <3> HIDE DEF declaredFirst
      <3> QED
        BY <2>1, <2>2, <3>2
    <2>4. merge \in {"undeclared", "redeclared"} => ~ declaredFirst
      <3> HIDE DEF declaredFirst
      <3> QED
        BY <2>1 DEF Judged
    <2>5. merge = "circular" => \E n \in named \cup MergeVars : Endless(n)
      BY <2>2 DEF Judged
    <2> HIDE DEF declaredFirst, named
    <2> QED
      BY <2>3, <2>4, <2>5, Zenon DEF AcceptedIffDeclared, declaredFirst, named
  <1>2. TypeOK /\ Variables /\ Judged /\ [Next]_vars => (TypeOK /\ Variables /\ Judged)'
    BY StepAccepts
  <1> QED
    BY InitAccepts, <1>1, <1>2, PTL DEF Spec

-----------------------------------------------------------------------------
(* Which values the variables have                                         *)

\* What the first p definitions add to the value of a variable.
Given(name, p) == [i \in 1..p |-> IF i \in DefinitionsOf(name, p) THEN defs[i].value ELSE <<>>]

\* A variable that collects has what all its definitions gave it, one that is
\* not known has nothing; any other variable has what the last one gave it.
Valued ==
    merge = "merge" =>
        \A name :
            /\ Collects(name) => Get(name) = FlattenSeq(Given(name, pos))
            /\ ~ Collects(name) /\ Known(name) =>
                   vmap[name] = defs[Max(DefinitionsOf(name, pos))].value

\* One definition more.
LEMMA GivenNext ==
  ASSUME defs \in Seq(Definition), NEW p \in Nat, p < Len(defs), NEW name
  PROVE  /\ Given(name, p) \in Seq(Value)
         /\ Given(name, p + 1) =
                Append(Given(name, p), IF N(p + 1) = name THEN defs[p + 1].value ELSE <<>>)
  <1>0. Len(defs) \in Nat
    OBVIOUS
  <1>1. \A i \in 1..(p + 1) : i \in 1..Len(defs)
    BY <1>0
  <1>2. \A i \in 1..(p + 1) : defs[i].value \in Value
    <2>1. \A i \in 1..Len(defs) : defs[i] \in Definition
      OBVIOUS
    <2> QED
      BY <1>1, <2>1 DEF Definition
  <1>3. <<>> \in Value
    BY DEF Value
  <1>4. \A q \in Nat : \A i \in 1..q : i \in DefinitionsOf(name, q) <=> N(i) = name
    BY DEF DefinitionsOf, N
  <1> DEFINE item(i) == IF N(i) = name THEN defs[i].value ELSE <<>>
  <1>5. \A q \in Nat : Given(name, q) = [i \in 1..q |-> item(i)]
    BY <1>4 DEF Given
  <1>6. \A i \in 1..(p + 1) : item(i) \in Value
    BY <1>2, <1>3
  <1> HIDE DEF item
  <1>7. Given(name, p) \in Seq(Value)
    BY <1>5, <1>6
  <1>8. [i \in 1..(p + 1) |-> item(i)] = Append([i \in 1..p |-> item(i)], item(p + 1))
    BY <1>6
  <1>9. p + 1 \in Nat
    OBVIOUS
  <1>10. Given(name, p + 1) = Append(Given(name, p), item(p + 1))
    BY <1>5, <1>8, <1>9
  <1> QED
    BY <1>7, <1>10 DEF item

\* The last definition of a variable, if it is the newest one of all or is not.
LEMMA LastNext ==
  ASSUME NEW p \in Nat, NEW name
  PROVE  /\ N(p + 1) = name => Max(DefinitionsOf(name, p + 1)) = p + 1
         /\ N(p + 1) # name => DefinitionsOf(name, p + 1) = DefinitionsOf(name, p)
  <1>1. 1..(p + 1) = (1..p) \cup {p + 1}
    OBVIOUS
  <1>2. ASSUME N(p + 1) = name PROVE Max(DefinitionsOf(name, p + 1)) = p + 1
    <2> DEFINE D == DefinitionsOf(name, p + 1)
    <2>1. p + 1 \in D /\ \A i \in D : p + 1 >= i /\ i \in Nat
      BY <1>2 DEF DefinitionsOf, N
    <2>2. \A x \in D : (\A y \in D : x >= y) <=> x = p + 1
      BY <2>1
    <2> HIDE DEF D
    <2>3. Max(D) = p + 1
      BY <2>1, <2>2 DEF Max
    <2> QED
      BY <2>3 DEF D
  <1>3. ASSUME N(p + 1) # name PROVE DefinitionsOf(name, p + 1) = DefinitionsOf(name, p)
    BY <1>1, <1>3 DEF DefinitionsOf, N
  <1> QED
    BY <1>2, <1>3

\* At first no variable is known.
LEMMA InitValued == Init => Valued
  <1> SUFFICES ASSUME Init PROVE Valued
    OBVIOUS
  <1>1. pos = 0 /\ vmap = <<>>
    BY DEF Init, Start
  <1>2. \A name : ~ Known(name) /\ Get(name) = <<>>
    BY <1>1 DEF Known, Get
  <1>3. \A name : Given(name, pos) = <<>>
    BY <1>1 DEF Given
  <1>4. FlattenSeq(<<>>) = <<>>
    BY DEF FlattenSeq
  <1> QED
    BY <1>2, <1>3, <1>4 DEF Valued

\* A definition adds to the value of its variable, or replaces it.
LEMMA StepValued ==
  ASSUME TypeOK, Variables, Valued, [Next]_vars
  PROVE  Valued'
  <1>1. CASE MergeOne
    <2> DEFINE d == defs[pos + 1]
               this == N(pos + 1)
    <2>1. /\ merge = "merge" /\ pos < Len(defs) /\ pos' = pos + 1 /\ defs' = defs
          /\ vmap' = With(vmap, this, IF Collects(this) THEN Get(this) \o d.value ELSE d.value)
      BY <1>1 DEF MergeOne, N
    <2>2. pos \in Nat /\ defs \in Seq(Definition) /\ d \in Definition /\ d.value \in Seq(Word)
      BY <2>1, KnownIfDefined DEF TypeOK, Definition, Value
    <2>3. \A name, p : /\ Given(name, p)' = Given(name, p')
                       /\ DefinitionsOf(name, p)' = DefinitionsOf(name, p')
                       /\ Collects(name)' = Collects(name)
      BY <2>1 DEF Given, DefinitionsOf, Collects
    <2>4. ASSUME NEW name, Collects(name)
          PROVE  Get(name)' = FlattenSeq(Given(name, pos + 1))
      <3>1. Get(name) = FlattenSeq(Given(name, pos))
        BY <2>1, <2>4 DEF Valued
      <3>2. Given(name, pos) \in Seq(Seq(Word))
        BY <2>1, <2>2, GivenNext DEF Value
      <3>3. FlattenSeq(Given(name, pos)) \in Seq(Word)
        BY <3>2, FlattenTyped
      <3>4. CASE this = name
        <4>1. Given(name, pos + 1) = Append(Given(name, pos), d.value)
          BY <2>1, <2>2, <3>4, GivenNext
        <4>2. Get(name)' = Get(name) \o d.value
          BY <2>1, <2>4, <3>4 DEF Get, Known, With
        <4> HIDE DEF d
        <4>3. FlattenSeq(Append(Given(name, pos), d.value)) = FlattenSeq(Given(name, pos)) \o d.value
          BY <2>2, <3>2, FlattenAppend
        <4> QED
          BY <3>1, <4>1, <4>2, <4>3
      <3>5. CASE this # name
        <4>1. Given(name, pos + 1) = Append(Given(name, pos), <<>>)
          BY <2>1, <2>2, <3>5, GivenNext
        <4>2. Get(name)' = Get(name)
          BY <2>1, <3>5 DEF Get, Known, With
        <4>3. <<>> \in Seq(Word)
          OBVIOUS
        <4>4. FlattenSeq(Append(Given(name, pos), <<>>)) = FlattenSeq(Given(name, pos)) \o <<>>
          BY <3>2, <4>3, FlattenAppend
        <4>5. FlattenSeq(Given(name, pos)) \o <<>> = FlattenSeq(Given(name, pos))
          BY <3>3
        <4> QED
          BY <3>1, <4>1, <4>2, <4>4, <4>5
      <3> QED
        BY <3>4, <3>5
    <2>5. ASSUME NEW name, ~ Collects(name), Known(name)'
          PROVE  vmap'[name] = defs[Max(DefinitionsOf(name, pos + 1))].value
      <3>1. CASE this = name
        <4>1. vmap'[name] = d.value
          BY <2>1, <2>5, <3>1 DEF With
        <4>2. Max(DefinitionsOf(name, pos + 1)) = pos + 1
          BY <2>2, <3>1, LastNext
        <4> QED
          BY <4>1, <4>2
      <3>2. CASE this # name
        <4>1. Known(name) /\ vmap'[name] = vmap[name]
          BY <2>1, <2>5, <3>2 DEF With, Known
        <4>2. DefinitionsOf(name, pos + 1) = DefinitionsOf(name, pos)
          BY <2>2, <3>2, LastNext
        <4>3. vmap[name] = defs[Max(DefinitionsOf(name, pos))].value
          BY <2>1, <2>5, <4>1 DEF Valued
        <4> QED
          BY <4>1, <4>2, <4>3
      <3> QED
        BY <3>1, <3>2
    <2>6. \A name : /\ Given(name, pos)' = Given(name, pos + 1)
                    /\ DefinitionsOf(name, pos)' = DefinitionsOf(name, pos + 1)
      BY <2>1 DEF Given, DefinitionsOf
    <2>7. ASSUME NEW name
          PROVE  /\ Collects(name)' => Get(name)' = FlattenSeq(Given(name, pos))'
                 /\ ~ Collects(name)' /\ Known(name)' =>
                        vmap'[name] = defs'[Max(DefinitionsOf(name, pos))'].value
      BY <2>1, <2>3, <2>4, <2>5, <2>6
    <2> QED
      BY <2>7 DEF Valued
  <1>2. CASE Refuse
    <2>1. merge' # "merge"
      BY <1>2, RefusalJudges DEF Refuse, Errors
    <2> QED
      BY <2>1 DEF Valued
  <1>3. CASE ExpandPasswords \/ HashFails \/ ExpandRoutes \/ InvalidRoute
    BY <1>3 DEF Valued, ExpandPasswords, HashFails, ExpandRoutes, InvalidRoute
  <1>4. CASE UNCHANGED vars
    BY <1>4 DEF vars, Valued, Get, Known, Given, DefinitionsOf, Collects
  <1> QED
    BY <1>1, <1>2, <1>3, <1>4 DEF Next

\* While the files are merged, a variable has the value that its last definition
\* gave it, or all values in their order if it collects them, under all its names.
THEOREM ValuesMerged == Spec => []ValuesAsDefined
  <1>1. TypeOK /\ Variables /\ Valued => ValuesAsDefined
    <2> SUFFICES ASSUME Variables, Valued, merge = "merge" PROVE ValuesAsDefined
      BY DEF ValuesAsDefined
    <2>1. DOMAIN vmap = {Unaliased(defs[i].name) : i \in 1..pos}
      BY DEF Variables, N
    <2>2. \A name : Collects(name) <=> name \in {Unaliased(listed) : listed \in MergeVars}
      BY DEF Collects
    <2>3. ASSUME NEW name \in DOMAIN vmap
          PROVE  vmap[name] = IF name \in {Unaliased(listed) : listed \in MergeVars}
                              THEN FlattenSeq(Given(name, pos))
                              ELSE defs[Max(DefinitionsOf(name, pos))].value
      <3>1. Known(name) /\ Get(name) = vmap[name]
        BY DEF Known, Get
      <3> QED
        BY <2>2, <3>1 DEF Valued
    <2> QED
      BY <2>1, <2>3, Zenon DEF ValuesAsDefined, Given
  <1>2. TypeOK /\ Variables /\ Judged /\ Valued /\ [Next]_vars => (TypeOK /\ Variables /\ Judged /\ Valued)'
    BY StepAccepts, StepValued
  <1> QED
    BY InitAccepts, InitValued, <1>1, <1>2, PTL DEF Spec
=============================================================================
