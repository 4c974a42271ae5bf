----------------------- MODULE BuildCollectionsProofs -----------------------
(***************************************************************************)
(* Proofs about the collection resolver, for every set of collections,     *)
(* every contents of the meta files and every non-empty request.           *)
(***************************************************************************)
EXTENDS BuildCollections, TLAPS

-----------------------------------------------------------------------------
(* Ranges of sequences.                                                    *)

Injective(s) == \A i, j \in 1..Len(s) : s[i] = s[j] => i = j

LEMMA RangeEmpty == Range(<<>>) = {}
  BY DEF Range

LEMMA RangeSubset ==
  ASSUME NEW S, NEW s \in Seq(S)
  PROVE  Range(s) \subseteq S /\ (s # <<>> => Range(s) # {})
  BY DEF Range

LEMMA RangeAppend ==
  ASSUME NEW S, NEW s \in Seq(S), NEW x \in S
  PROVE  Range(Append(s, x)) = Range(s) \cup {x}
  <1>1. Append(s, x) \in Seq(S) /\ Len(Append(s, x)) = Len(s) + 1
    OBVIOUS
  <1>2. \A i \in 1..Len(s) : Append(s, x)[i] = s[i]
    OBVIOUS
  <1>3. Append(s, x)[Len(s) + 1] = x
    OBVIOUS
  <1>4. 1..(Len(s) + 1) = 1..Len(s) \cup {Len(s) + 1}
    OBVIOUS
  <1>5. DOMAIN s = 1..Len(s) /\ DOMAIN Append(s, x) = 1..(Len(s) + 1)
    OBVIOUS
  <1> QED
    BY <1>2, <1>3, <1>4, <1>5 DEF Range

LEMMA RangeHeadTail ==
  ASSUME NEW S, NEW s \in Seq(S), s # <<>>
  PROVE  /\ Head(s) \in S
         /\ Tail(s) \in Seq(S)
         /\ Head(s) \in Range(s)
         /\ Range(s) = {Head(s)} \cup Range(Tail(s))
  <1>1. Len(s) \in Nat /\ Len(s) >= 1
    OBVIOUS
  <1>2. Tail(s) \in Seq(S) /\ Len(Tail(s)) = Len(s) - 1
    OBVIOUS
  <1>3. \A i \in 1..(Len(s) - 1) : Tail(s)[i] = s[i + 1]
    OBVIOUS
  <1>4. Head(s) = s[1]
    OBVIOUS
  <1>5. DOMAIN s = 1..Len(s) /\ DOMAIN Tail(s) = 1..(Len(s) - 1)
    BY <1>1, <1>2
  <1>6. \A i \in 2..Len(s) : i - 1 \in 1..(Len(s) - 1) /\ s[i] = Tail(s)[i - 1]
    BY <1>1, <1>3
  <1>7. \A i \in 1..(Len(s) - 1) : i + 1 \in 1..Len(s)
    BY <1>1
  <1>8. \A i \in 1..Len(s) : i = 1 \/ i \in 2..Len(s)
    BY <1>1
  <1>9. Range(s) \subseteq {Head(s)} \cup Range(Tail(s))
    BY <1>4, <1>5, <1>6, <1>8 DEF Range
  <1>10. Range(Tail(s)) \subseteq Range(s)
    BY <1>3, <1>5, <1>7 DEF Range
  <1>11. Head(s) \in Range(s)
    BY <1>1, <1>4, <1>5 DEF Range
  <1> QED
    BY <1>2, <1>9, <1>10, <1>11, <1>1, <1>4

LEMMA RangeConcat ==
  ASSUME NEW S, NEW s \in Seq(S), NEW t \in Seq(S)
  PROVE  s \o t \in Seq(S) /\ Range(s \o t) = Range(s) \cup Range(t)
  <1>1. s \o t \in Seq(S) /\ Len(s \o t) = Len(s) + Len(t)
    OBVIOUS
  <1>2. \A i \in 1..Len(s) : (s \o t)[i] = s[i]
    OBVIOUS
  <1>3. \A i \in 1..Len(t) : (s \o t)[Len(s) + i] = t[i]
    OBVIOUS
  <1>4. /\ DOMAIN s = 1..Len(s) /\ DOMAIN t = 1..Len(t)
        /\ DOMAIN (s \o t) = 1..(Len(s) + Len(t))
    OBVIOUS
  <1>5. Range(s) \subseteq Range(s \o t)
    BY <1>2, <1>4 DEF Range
  <1>6. Range(t) \subseteq Range(s \o t)
    <2>1. \A i \in 1..Len(t) : Len(s) + i \in 1..(Len(s) + Len(t))
      OBVIOUS
    <2> QED
      BY <1>3, <1>4, <2>1 DEF Range
  <1>7. Range(s \o t) \subseteq Range(s) \cup Range(t)
    <2>1. \A i \in 1..(Len(s) + Len(t)) :
             i \in 1..Len(s) \/ (i - Len(s) \in 1..Len(t) /\ i = Len(s) + (i - Len(s)))
      OBVIOUS
    <2> QED
      BY <1>2, <1>3, <1>4, <2>1 DEF Range
  <1> QED
    BY <1>1, <1>5, <1>6, <1>7

LEMMA InjectiveAppend ==
  ASSUME NEW S, NEW s \in Seq(S), Injective(s), NEW x \in S, x \notin Range(s)
  PROVE  Injective(Append(s, x))
  <1>1. /\ Len(Append(s, x)) = Len(s) + 1
        /\ \A i \in 1..Len(s) : Append(s, x)[i] = s[i]
        /\ Append(s, x)[Len(s) + 1] = x
    OBVIOUS
  <1>2. \A i \in 1..Len(s) : s[i] # x
    BY DEF Range
  <1>3. \A i \in 1..(Len(s) + 1) : i \in 1..Len(s) \/ i = Len(s) + 1
    OBVIOUS
  <1> QED
    BY <1>1, <1>2, <1>3 DEF Injective

LEMMA InjectiveTail ==
  ASSUME NEW S, NEW s \in Seq(S), Injective(s), s # <<>>
  PROVE  Injective(Tail(s)) /\ Head(s) \notin Range(Tail(s))
  <1>1. /\ Len(Tail(s)) = Len(s) - 1
        /\ Len(s) \in Nat /\ Len(s) >= 1
        /\ \A i \in 1..(Len(s) - 1) : Tail(s)[i] = s[i + 1]
        /\ Head(s) = s[1]
    OBVIOUS
  <1>2. \A i \in 1..(Len(s) - 1) : i + 1 \in 1..Len(s) /\ i + 1 # 1
    BY <1>1
  <1>3. DOMAIN Tail(s) = 1..(Len(s) - 1)
    BY <1>1
  <1>4. Injective(Tail(s))
    BY <1>1, <1>2 DEF Injective
  <1>5. Head(s) \notin Range(Tail(s))
    BY <1>1, <1>2, <1>3 DEF Injective, Range
  <1> QED
    BY <1>4, <1>5

-----------------------------------------------------------------------------
(* The graph.                                                              *)

LEMMA SelectedFacts ==
  ASSUME NEW m \in [Name -> MetaRecord], NEW w \in Seq(Name)
  PROVE  /\ Selected(m, w) \subseteq Name
         /\ Range(w) \subseteq Selected(m, w)
         /\ PullClosed(m, Selected(m, w))
         /\ \A S \in SUBSET Name :
               Range(w) \subseteq S /\ PullClosed(m, S) => Selected(m, w) \subseteq S
  <1>1. Range(w) \subseteq Name
    BY RangeSubset
  <1>2. \A n \in Name : Pulls(m, n) \subseteq Name
    <2>1. \A n \in Name : m[n].depends \in Seq(Name) /\ m[n].wants \in Seq(Name)
      BY DEF MetaRecord
    <2> QED
      BY <2>1, RangeSubset DEF Pulls
  <1>3. Selected(m, w) \subseteq Name /\ Range(w) \subseteq Selected(m, w)
    BY <1>1 DEF Selected
  <1>4. ASSUME NEW n \in Selected(m, w), NEW k \in Pulls(m, n)
        PROVE  k \in Selected(m, w)
    <2>1. n \in Name /\ k \in Name
      BY <1>2, <1>3, <1>4
    <2>2. ASSUME NEW S \in SUBSET Name, Range(w) \subseteq S, PullClosed(m, S)
          PROVE  k \in S
      BY <1>4, <2>2 DEF Selected, PullClosed
    <2> QED
      BY <2>1, <2>2 DEF Selected
  <1>5. PullClosed(m, Selected(m, w))
    BY <1>4 DEF PullClosed
  <1> QED
    BY <1>3, <1>5 DEF Selected

LEMMA RequiresSelected ==
  ASSUME NEW m \in [Name -> MetaRecord], NEW w \in Seq(Name),
         NEW n \in Selected(m, w)
  PROVE  Requires(m, w, n) \subseteq Selected(m, w)
  <1>1. Pulls(m, n) \subseteq Selected(m, w)
    BY SelectedFacts DEF PullClosed
  <1> QED
    BY <1>1 DEF Requires, Pulls

LEMMA NeedsInside ==
  ASSUME NEW m, NEW w, NEW S \in SUBSET Name, RequireClosed(m, w, S), NEW n \in S
  PROVE  Needs(m, w, n) \subseteq S
  BY DEF Needs

-----------------------------------------------------------------------------
(* The inductive invariant.                                                *)

Sel == Selected(meta, wanted)
Req(n) == Requires(meta, wanted, n)
Seen == DOMAIN todoDep
Pending == Range(scan) \cup Range(scanNext)

Resolving == phase \in {"resolve", "resolved", "cycle", "missing", "accepted"}

\* Scanning: what was seen or is pending is the request and what it pulls in,
\* and each name seen is queued once, with the dependencies its meta file lists.
ScanInv ==
    /\ Seen \cup Pending \subseteq Sel
    /\ Range(wanted) \subseteq Seen \cup Pending
    /\ \A n \in Seen : /\ Pulls(meta, n) \subseteq Seen \cup Pending
                       /\ todoDep[n] = DepSet(n)
                       /\ \A k \in Range(meta[n].after) : orderOnly[k] # "unset"
                       /\ ~(meta[n].late /\ meta[n].virtual)
    /\ \A k \in Name : orderOnly[k] = "strict" <=> k \in Seen
    /\ late = {n \in Seen : meta[n].late}
    /\ Range(queue) = Seen
    /\ done = {} /\ out = <<>> /\ queueNext = <<>> /\ resolvedAny = FALSE

\* Resolving: a name is done or waits in exactly one of the two queues, and what
\* it still waits for is what it requires and is not done.
WorkInv ==
    /\ done \cup Seen = Sel
    /\ done \cap Seen = {}
    /\ \A n \in Seen : todoDep[n] = Req(n) \ done
    /\ RequireClosed(meta, wanted, done)
    /\ Range(queue) \cup Range(queueNext) = Seen
    /\ Range(queue) \cap Range(queueNext) = {}
    /\ ~HasLateVirtual(meta, wanted)

\* A name that was deferred in a pass without progress is still blocked.
PassInv ==
    /\ ~resolvedAny => \A n \in Range(queueNext) : todoDep[n] # {}
    /\ phase = "resolve" => resolvedAny \/ Seen # {}
    /\ Resolved => Seen = {}
    /\ phase = "cycle" => HasCycle(meta, wanted)

\* What was yielded is what is done, less the virtual ones, in an order in which
\* nothing precedes what it needs; no name that waits in a circle is done.
OutInv ==
    /\ Range(out) = {n \in done : ~meta[n].virtual}
    /\ Injective(out)
    /\ OutRespectsNeeds
    /\ \A S \in SUBSET Sel :
          (\A n \in S : Req(n) \cap S # {}) => S \cap done = {}

QueuesOnce == Injective(queue) /\ Injective(queueNext)

IInv == /\ TypeOK
        /\ wanted # <<>>
        /\ QueuesOnce
        /\ phase = "scan" => ScanInv
        /\ phase = "late_virtual" => done = {} /\ out = <<>>
        /\ Resolving => WorkInv /\ PassInv /\ OutInv

LEMMA InitIInv == Init => IInv
  <1> SUFFICES ASSUME Init PROVE IInv
    OBVIOUS
  <1>1. meta \in [Name -> MetaRecord] /\ wanted \in Seq(Name) /\ wanted # <<>>
    BY MetaSpaceAssumption, WantedSpaceAssumption DEF Init
  <1>2. DOMAIN todoDep = {} /\ todoDep = <<>>
    BY DEF Init
  <1>3. TypeOK
    <2>1. DOMAIN todoDep \subseteq Name /\ todoDep \in [DOMAIN todoDep -> SUBSET Name]
      BY <1>2
    <2>2. <<>> \in Seq(Name)
      OBVIOUS
    <2>3. /\ scan \in Seq(Name) /\ scanNext \in Seq(Name)
          /\ queue \in Seq(Name) /\ queueNext \in Seq(Name) /\ out \in Seq(Name)
      BY <1>1, <2>2 DEF Init
    <2>4. /\ phase \in Phase /\ late \subseteq Name /\ done \subseteq Name
          /\ resolvedAny \in BOOLEAN
          /\ orderOnly \in [Name -> {"unset", "strict", "order"}]
      BY DEF Init, Phase
    <2> QED
      BY <1>1, <2>1, <2>3, <2>4 DEF TypeOK
  <1>4. ScanInv
    <2>1. Range(wanted) \subseteq Sel
      BY <1>1, SelectedFacts DEF Sel
    <2>2. Pending = Range(wanted)
      BY RangeEmpty DEF Init, Pending
    <2> QED
      BY <1>2, <2>1, <2>2, RangeEmpty DEF Init, ScanInv, Seen
  <1>5. QueuesOnce
    BY DEF Init, QueuesOnce, Injective
  <1> QED
    BY <1>1, <1>3, <1>4, <1>5 DEF Init, IInv, Resolving

LEMMA InputKept ==
  ASSUME [Next]_vars
  PROVE  /\ meta' = meta /\ wanted' = wanted
         /\ Sel' = Sel /\ \A n : Req(n)' = Req(n)
  <1>1. meta' = meta /\ wanted' = wanted
    BY DEF Next, Step, Terminated, vars, input, ScanAgain, ScanName, RejectLateVirtual,
           ScanRound, EvalDeps, ResolveName, DeferName, NextPass, NoProgress, CheckDirs
  <1> QED
    BY <1>1 DEF Sel, Req

LEMMA ScanAgainStep ==
  ASSUME IInv, ScanAgain
  PROVE  IInv'
  <1> USE DEF IInv
  <1>1. Sel' = Sel
    BY InputKept DEF Next, Step
  <1>2. /\ scan \in Seq(Name) /\ scan # <<>> /\ phase = "scan" /\ phase' = "scan"
        /\ scan' = Tail(scan) /\ Head(scan) \in Seen
        /\ UNCHANGED <<meta, wanted, scanNext, orderOnly, late, todoDep, queue,
                       queueNext, resolvedAny, done, out>>
    BY DEF ScanAgain, TypeOK, input, resolveVars, Seen
  <1>3. Range(scan) = {Head(scan)} \cup Range(scan') /\ scan' \in Seq(Name)
    BY <1>2, RangeHeadTail
  <1>4. Seen' = Seen /\ Seen \cup Pending' = Seen \cup Pending
    BY <1>2, <1>3 DEF Seen, Pending
  <1>5. TypeOK'
    BY <1>2, <1>3 DEF TypeOK
  <1>6. ScanInv'
    BY <1>1, <1>2, <1>4 DEF ScanInv, Pulls, DepSet
  <1>7. QueuesOnce'
    BY <1>2 DEF QueuesOnce
  <1> QED
    BY <1>2, <1>5, <1>6, <1>7 DEF Resolving

LEMMA ScanRoundStep ==
  ASSUME IInv, ScanRound
  PROVE  IInv'
  <1> USE DEF IInv
  <1>1. Sel' = Sel
    BY InputKept DEF Next, Step
  <1>2. /\ phase = "scan" /\ phase' = "scan"
        /\ scan = <<>> /\ scan' = scanNext /\ scanNext' = <<>>
        /\ UNCHANGED <<meta, wanted, orderOnly, late, todoDep, queue,
                       queueNext, resolvedAny, done, out>>
    BY DEF ScanRound, input, resolveVars
  <1>3. Seen' = Seen /\ Pending' = Pending
    BY <1>2, RangeEmpty DEF Seen, Pending
  <1>4. TypeOK'
    BY <1>2 DEF TypeOK
  <1>5. ScanInv'
    BY <1>1, <1>2, <1>3 DEF ScanInv, Pulls, DepSet
  <1>6. QueuesOnce'
    BY <1>2 DEF QueuesOnce
  <1> QED
    BY <1>2, <1>4, <1>5, <1>6 DEF Resolving

LEMMA RejectStep ==
  ASSUME IInv, RejectLateVirtual
  PROVE  IInv'
  BY DEF IInv, RejectLateVirtual, TypeOK, Phase, Ended, QueuesOnce, Resolving, ScanInv,
         input, scanVars, resolveVars

LEMMA ScanNameStep ==
  ASSUME IInv, ScanName
  PROVE  IInv'
  <1> USE DEF IInv
  <1> DEFINE n == Head(scan)
  <1>1. Sel' = Sel
    BY InputKept DEF Next, Step
  <1>2. /\ scan \in Seq(Name) /\ scan # <<>> /\ phase = "scan" /\ phase' = "scan"
        /\ scan' = Tail(scan)
        /\ UNCHANGED <<meta, wanted, queueNext, resolvedAny, done, out>>
    BY DEF ScanName, TypeOK, input, resolveVars
  <1>3. /\ n \notin Seen
        /\ ~(meta[n].late /\ meta[n].virtual)
        /\ scanNext' = scanNext \o meta[n].depends \o meta[n].wants
        /\ orderOnly' = MarkScanned(n)
        /\ late' = IF meta[n].late THEN late \cup {n} ELSE late
        /\ queue' = Append(queue, n)
        /\ todoDep' = [m \in Seen \cup {n} |-> IF m = n THEN DepSet(n) ELSE todoDep[m]]
    BY DEF ScanName, Seen
  <1>4. /\ n \in Name /\ n \in Range(scan) /\ scan' \in Seq(Name)
        /\ Range(scan) = {n} \cup Range(scan')
    BY <1>2, RangeHeadTail
  <1>5. /\ meta[n].depends \in Seq(Name) /\ meta[n].wants \in Seq(Name)
        /\ meta[n].after \in Seq(Name) /\ meta[n].late \in BOOLEAN
    BY <1>4 DEF TypeOK, MetaRecord
  <1>6. scanNext' \in Seq(Name) /\ Range(scanNext') = Range(scanNext) \cup Pulls(meta, n)
    <2> DEFINE front == scanNext \o meta[n].depends
    <2>1. /\ front \in Seq(Name)
          /\ Range(front) = Range(scanNext) \cup Range(meta[n].depends)
      BY <1>5, RangeConcat DEF TypeOK
    <2>2. scanNext' = front \o meta[n].wants
      BY <1>3
    <2> HIDE DEF n, front
    <2>3. /\ front \o meta[n].wants \in Seq(Name)
          /\ Range(front \o meta[n].wants) = Range(front) \cup Range(meta[n].wants)
      BY <1>5, <2>1, RangeConcat
    <2> QED
      BY <2>1, <2>2, <2>3 DEF Pulls
  <1>7. Seen' = Seen \cup {n}
    BY <1>3 DEF Seen
  <1>8. DepSet(n) \subseteq Name
    BY <1>5, RangeSubset DEF DepSet
  <1>9. queue' \in Seq(Name) /\ Range(queue') = Range(queue) \cup {n} /\ n \notin Range(queue)
    BY <1>2, <1>3, <1>4, RangeAppend DEF TypeOK, ScanInv
  <1> HIDE DEF n
  <1>10. TypeOK'
    <2>1. DOMAIN todoDep' \subseteq Name
      BY <1>3, <1>4 DEF TypeOK, Seen
    <2>2. todoDep' \in [DOMAIN todoDep' -> SUBSET Name]
      BY <1>3, <1>8 DEF TypeOK, Seen
    <2>3. orderOnly' \in [Name -> {"unset", "strict", "order"}]
      BY <1>3 DEF TypeOK, MarkScanned
    <2>4. late' \subseteq Name
      BY <1>3, <1>4 DEF TypeOK
    <2> QED
      BY <1>2, <1>4, <1>6, <1>9, <2>1, <2>2, <2>3, <2>4 DEF TypeOK
  <1>11. ScanInv'
    <2>1. ScanInv
      BY <1>2
    <2>2. Seen' \cup Pending' = Seen \cup Pending \cup Pulls(meta, n)
      BY <1>4, <1>6, <1>7 DEF Pending
    <2>3. n \in Sel
      BY <2>1, <1>4 DEF ScanInv, Pending
    <2>4. Pulls(meta, n) \subseteq Sel
      BY <2>3, SelectedFacts DEF TypeOK, Sel, PullClosed
    <2>5. (Seen \cup Pending \subseteq Sel)'
      BY <1>1, <2>1, <2>2, <2>4 DEF ScanInv
    <2>6. (Range(wanted) \subseteq Seen \cup Pending)'
      BY <1>2, <2>1, <2>2 DEF ScanInv
    <2>7. ASSUME NEW m \in Seen'
          PROVE  /\ Pulls(meta', m) \subseteq Seen' \cup Pending'
                 /\ todoDep'[m] = DepSet(m)'
                 /\ \A k \in Range(meta'[m].after) : orderOnly'[k] # "unset"
                 /\ ~(meta'[m].late /\ meta'[m].virtual)
      <3>1. CASE m = n
        <4>1. Range(meta[n].after) \subseteq Name
          BY <1>5, RangeSubset
        <4>2. \A k \in Range(meta[n].after) : orderOnly'[k] # "unset"
          BY <1>3, <4>1 DEF MarkScanned
        <4> QED
          BY <1>2, <1>3, <2>2, <3>1, <4>2 DEF DepSet, Pulls
      <3>2. CASE m \in Seen /\ m # n
        <4>1. Range(meta[m].after) \subseteq Name
          BY <3>2, RangeSubset DEF TypeOK, MetaRecord, Seen
        <4>2. \A k \in Range(meta[m].after) : orderOnly'[k] # "unset"
          BY <1>3, <2>1, <3>2, <4>1 DEF MarkScanned, ScanInv
        <4> QED
          BY <1>2, <1>3, <2>1, <2>2, <3>2, <4>2 DEF ScanInv, DepSet, Pulls
      <3> QED
        BY <1>7, <3>1, <3>2
    <2>8. \A k \in Name : orderOnly'[k] = "strict" <=> k \in Seen'
      BY <1>3, <1>7, <2>1 DEF MarkScanned, ScanInv
    <2>9. late' = {m \in Seen' : meta'[m].late}
      BY <1>2, <1>3, <1>5, <1>7, <2>1 DEF ScanInv
    <2>10. Range(queue') = Seen'
      BY <1>7, <1>9, <2>1 DEF ScanInv
    <2> QED
      BY <1>2, <2>1, <2>5, <2>6, <2>7, <2>8, <2>9, <2>10 DEF ScanInv
  <1>12. QueuesOnce'
    <2>1. Injective(queue')
      BY <1>3, <1>4, <1>9, InjectiveAppend DEF TypeOK, QueuesOnce
    <2> QED
      BY <1>2, <2>1 DEF QueuesOnce
  <1> QED
    BY <1>2, <1>10, <1>11, <1>12 DEF Resolving

LEMMA RequiresWhenScanned ==
  ASSUME IInv, phase = "scan", scan = <<>>, scanNext = <<>>
  PROVE  /\ Seen = Sel
         /\ \A n \in Seen : (todoDep[n] \ OrderOnlyDeps)
                \cup (IF n \in late THEN Seen \ late ELSE {}) = Req(n)
  <1> USE DEF IInv
  <1>1. ScanInv /\ Pending = {}
    BY RangeEmpty DEF Pending
  <1>2. Seen \in SUBSET Name
    BY DEF TypeOK, Seen
  <1>3. Range(wanted) \subseteq Seen /\ PullClosed(meta, Seen)
    BY <1>1 DEF ScanInv, PullClosed
  <1>4. Sel \subseteq Seen
    BY <1>2, <1>3, SelectedFacts DEF TypeOK, Sel
  <1>5. Seen = Sel
    BY <1>1, <1>4 DEF ScanInv
  <1>6. ASSUME NEW n \in Seen
        PROVE  (todoDep[n] \ OrderOnlyDeps)
                  \cup (IF n \in late THEN Seen \ late ELSE {}) = Req(n)
    <2>1. Range(meta[n].depends) \subseteq Seen
      BY <1>3, <1>6 DEF PullClosed, Pulls
    <2>2. Range(meta[n].after) \subseteq Name
      BY <1>2, <1>6, RangeSubset DEF TypeOK, MetaRecord
    <2>3. \A k \in Range(meta[n].after) : k \in OrderOnlyDeps <=> k \notin Seen
      <3> SUFFICES ASSUME NEW k \in Range(meta[n].after)
                   PROVE  k \in OrderOnlyDeps <=> k \notin Seen
        OBVIOUS
      <3>1. k \in Name /\ orderOnly[k] \in {"strict", "order"}
        BY <1>1, <1>6, <2>2 DEF ScanInv, TypeOK
      <3> QED
        BY <1>1, <3>1 DEF ScanInv, OrderOnlyDeps
    <2>4. \A k \in Seen : k \notin OrderOnlyDeps
      BY <1>1, <1>2 DEF ScanInv, OrderOnlyDeps
    <2>5. todoDep[n] \ OrderOnlyDeps
             = Range(meta[n].depends) \cup (Range(meta[n].after) \cap Seen)
      BY <1>1, <1>6, <2>1, <2>3, <2>4 DEF ScanInv, DepSet
    <2>6. (IF n \in late THEN Seen \ late ELSE {})
             = (IF meta[n].late THEN {k \in Sel : ~meta[k].late} ELSE {})
      BY <1>1, <1>5, <1>6 DEF ScanInv
    <2> QED
      BY <1>5, <2>5, <2>6 DEF Req, Requires, Sel
  <1> QED
    BY <1>5, <1>6

LEMMA EvalDepsStep ==
  ASSUME IInv, EvalDeps
  PROVE  IInv'
  <1> USE DEF IInv
  <1>1. Sel' = Sel /\ \A n : Req(n)' = Req(n)
    BY InputKept DEF Next, Step
  <1>2. /\ phase = "scan" /\ scan = <<>> /\ scanNext = <<>> /\ phase' = "resolve"
        /\ UNCHANGED <<meta, wanted, scan, scanNext, orderOnly, late, queue,
                       queueNext, resolvedAny, done, out>>
        /\ todoDep' = [n \in Seen |-> (todoDep[n] \ OrderOnlyDeps)
                          \cup (IF n \in late THEN Seen \ late ELSE {})]
    BY DEF EvalDeps, input, scanVars, resolveVars, Seen
  <1>3. Seen = Sel /\ todoDep' = [n \in Seen |-> Req(n)]
    BY <1>2, RequiresWhenScanned
  <1>4. ScanInv
    BY <1>2
  <1>5. Seen' = Sel /\ Sel \subseteq Name
    BY <1>3, SelectedFacts DEF Seen, Sel, TypeOK
  <1>6. \A n \in Sel : Req(n) \subseteq Sel
    BY RequiresSelected DEF TypeOK, Sel, Req
  <1>7. TypeOK'
    <2>1. DOMAIN todoDep' \subseteq Name /\ todoDep' \in [DOMAIN todoDep' -> SUBSET Name]
      BY <1>3, <1>5, <1>6
    <2> QED
      BY <1>2, <2>1 DEF TypeOK, Phase
  <1>8. WorkInv'
    <2>1. \A n \in Seen' : todoDep'[n] = Req(n)' \ done'
      BY <1>1, <1>2, <1>3, <1>4, <1>5 DEF ScanInv
    <2>2. ~HasLateVirtual(meta', wanted')
      BY <1>2, <1>3, <1>4 DEF ScanInv, HasLateVirtual, Sel
    <2>3. Range(queue') = Seen' /\ Range(queueNext') = {}
      BY <1>2, <1>3, <1>4, <1>5, RangeEmpty DEF ScanInv
    <2>4. done' = {}
      BY <1>2, <1>4 DEF ScanInv
    <2> QED
      BY <1>1, <1>5, <2>1, <2>2, <2>3, <2>4 DEF WorkInv, RequireClosed
  <1>9. PassInv'
    <2>1. Seen' # {}
      <3>1. Range(wanted) # {} /\ Range(wanted) \subseteq Sel
        BY RangeSubset, SelectedFacts DEF TypeOK, Sel
      <3> QED
        BY <1>5, <3>1
    <2>2. Range(queueNext') = {}
      BY <1>2, <1>4, RangeEmpty DEF ScanInv
    <2> QED
      BY <1>2, <2>1, <2>2 DEF PassInv, Resolved
  <1>10. OutInv'
    BY <1>2, <1>4, RangeEmpty DEF ScanInv, OutInv, Injective, OutRespectsNeeds
  <1>11. QueuesOnce'
    BY <1>2 DEF QueuesOnce
  <1> QED
    BY <1>2, <1>7, <1>8, <1>9, <1>10, <1>11 DEF Resolving

LEMMA OutOrderAppend ==
  ASSUME IInv, Resolving, NEW n \in Name, n \notin done
  PROVE  \A i, j \in 1..Len(Append(out, n)) :
            i < j => Append(out, n)[j] \notin Needs(meta, wanted, Append(out, n)[i])
  <1> USE DEF IInv
  <1>1. /\ out \in Seq(Name) /\ OutRespectsNeeds /\ done \subseteq Name
        /\ RequireClosed(meta, wanted, done) /\ Range(out) \subseteq done
    BY DEF TypeOK, OutInv, WorkInv
  <1>2. /\ Len(Append(out, n)) = Len(out) + 1
        /\ \A i \in 1..Len(out) : Append(out, n)[i] = out[i]
        /\ Append(out, n)[Len(out) + 1] = n
    BY <1>1
  <1>3. \A i \in 1..Len(out) : n \notin Needs(meta, wanted, out[i])
    <2>1. \A i \in 1..Len(out) : out[i] \in done
      BY <1>1 DEF Range
    <2> QED
      BY <1>1, <2>1, NeedsInside
  <1>4. \A i, j \in 1..(Len(out) + 1) :
           i < j => i \in 1..Len(out) /\ (j \in 1..Len(out) \/ j = Len(out) + 1)
    BY <1>1
  <1> QED
    BY <1>1, <1>2, <1>3, <1>4 DEF OutRespectsNeeds

LEMMA ResolveNameStep ==
  ASSUME IInv, ResolveName
  PROVE  IInv'
  <1> USE DEF IInv
  <1> DEFINE n == Head(queue)
  <1>1. Sel' = Sel /\ \A k : Req(k)' = Req(k)
    BY InputKept DEF Next, Step
  <1>2. /\ phase = "resolve" /\ phase' = "resolve" /\ queue # <<>>
        /\ queue' = Tail(queue) /\ resolvedAny' = TRUE
        /\ UNCHANGED <<meta, wanted, scan, scanNext, orderOnly, late, queueNext>>
        /\ todoDep[n] = {} /\ done' = done \cup {n}
        /\ todoDep' = [m \in Seen \ {n} |-> todoDep[m] \ {n}]
        /\ out' = IF meta[n].virtual THEN out ELSE Append(out, n)
    BY DEF ResolveName, input, scanVars, Seen
  <1>3. WorkInv /\ PassInv /\ OutInv
    BY <1>2 DEF Resolving
  <1>4. /\ n \in Name /\ n \in Range(queue) /\ queue' \in Seq(Name)
        /\ Range(queue) = {n} \cup Range(queue')
    BY <1>2, RangeHeadTail DEF TypeOK
  <1>5. Injective(queue') /\ n \notin Range(queue')
    BY <1>2, InjectiveTail DEF TypeOK, QueuesOnce
  <1> HIDE DEF n
  <1>6. n \in Seen /\ n \notin done /\ n \in Sel /\ Req(n) \subseteq done
    BY <1>2, <1>3, <1>4 DEF WorkInv
  <1>7. Seen' = Seen \ {n}
    BY <1>2 DEF Seen
  <1>8. out' \in Seq(Name) /\ Range(out') = {k \in done' : ~meta[k].virtual}
    <2>1. Range(Append(out, n)) = Range(out) \cup {n} /\ Append(out, n) \in Seq(Name)
      BY <1>4, RangeAppend DEF TypeOK
    <2> QED
      BY <1>2, <1>3, <2>1 DEF OutInv, TypeOK
  <1>9. TypeOK'
    <2>1. DOMAIN todoDep' \subseteq Name /\ todoDep' \in [DOMAIN todoDep' -> SUBSET Name]
      BY <1>2 DEF TypeOK, Seen
    <2> QED
      BY <1>2, <1>4, <1>8, <2>1 DEF TypeOK
  <1>10. WorkInv'
    <2>1. \A k \in Seen' : todoDep'[k] = Req(k)' \ done'
      BY <1>1, <1>2, <1>3, <1>7 DEF WorkInv
    <2>2. RequireClosed(meta, wanted, done)' 
      BY <1>2, <1>3, <1>6 DEF WorkInv, RequireClosed, Req
    <2>3. /\ Range(queue') \cup Range(queueNext') = Seen'
          /\ Range(queue') \cap Range(queueNext') = {}
      BY <1>2, <1>3, <1>4, <1>5, <1>7 DEF WorkInv
    <2> QED
      BY <1>1, <1>2, <1>3, <1>6, <1>7, <2>1, <2>2, <2>3 DEF WorkInv
  <1>11. PassInv'
    BY <1>2 DEF PassInv, Resolved
  <1>12. OutInv'
    <2>1. Injective(out')
      <3>1. n \notin Range(out)
        BY <1>3, <1>6 DEF OutInv
      <3>2. Injective(Append(out, n))
        BY <1>3, <1>4, <3>1, InjectiveAppend DEF OutInv, TypeOK
      <3> QED
        BY <1>2, <1>3, <3>2 DEF OutInv
    <2>2. OutRespectsNeeds'
      BY <1>2, <1>3, <1>4, <1>6, OutOrderAppend DEF OutInv, OutRespectsNeeds, Resolving
    <2>3. ASSUME NEW S \in SUBSET Sel, \A k \in S : Req(k) \cap S # {}
          PROVE  S \cap done' = {}
      BY <1>2, <1>3, <1>6, <2>3 DEF OutInv
    <2> QED
      BY <1>1, <1>2, <1>8, <2>1, <2>2, <2>3 DEF OutInv
  <1>13. QueuesOnce'
    BY <1>2, <1>5 DEF QueuesOnce
  <1> QED
    BY <1>2, <1>9, <1>10, <1>11, <1>12, <1>13 DEF Resolving

LEMMA DeferNameStep ==
  ASSUME IInv, DeferName
  PROVE  IInv'
  <1> USE DEF IInv
  <1> DEFINE n == Head(queue)
  <1>1. Sel' = Sel /\ \A k : Req(k)' = Req(k)
    BY InputKept DEF Next, Step
  <1>2. /\ phase = "resolve" /\ phase' = "resolve" /\ queue # <<>>
        /\ todoDep[n] # {} /\ queueNext' = Append(queueNext, n) /\ queue' = Tail(queue)
        /\ UNCHANGED <<meta, wanted, scan, scanNext, orderOnly, late, todoDep,
                       resolvedAny, done, out>>
    BY DEF DeferName, input, scanVars
  <1>3. WorkInv /\ PassInv /\ OutInv
    BY <1>2 DEF Resolving
  <1>4. /\ n \in Name /\ n \in Range(queue) /\ queue' \in Seq(Name)
        /\ Range(queue) = {n} \cup Range(queue')
    BY <1>2, RangeHeadTail DEF TypeOK
  <1>5. Injective(queue') /\ n \notin Range(queue')
    BY <1>2, InjectiveTail DEF TypeOK, QueuesOnce
  <1>6. n \notin Range(queueNext)
    BY <1>3, <1>4 DEF WorkInv
  <1> HIDE DEF n
  <1>7. /\ queueNext' \in Seq(Name) /\ Range(queueNext') = Range(queueNext) \cup {n}
        /\ Injective(queueNext')
    BY <1>2, <1>4, <1>6, RangeAppend, InjectiveAppend DEF TypeOK, QueuesOnce
  <1>8. Seen' = Seen
    BY <1>2 DEF Seen
  <1>9. TypeOK'
    BY <1>2, <1>4, <1>7 DEF TypeOK
  <1>10. WorkInv'
    BY <1>1, <1>2, <1>3, <1>4, <1>5, <1>7, <1>8 DEF WorkInv, RequireClosed
  <1>11. PassInv'
    BY <1>2, <1>3, <1>7, <1>8 DEF PassInv, Resolved
  <1>12. OutInv'
    BY <1>1, <1>2, <1>3 DEF OutInv, OutRespectsNeeds
  <1>13. QueuesOnce'
    BY <1>5, <1>7 DEF QueuesOnce
  <1> QED
    BY <1>2, <1>9, <1>10, <1>11, <1>12, <1>13 DEF Resolving

LEMMA NextPassStep ==
  ASSUME IInv, NextPass
  PROVE  IInv'
  <1> USE DEF IInv
  <1>1. Sel' = Sel /\ \A k : Req(k)' = Req(k)
    BY InputKept DEF Next, Step
  <1>2. /\ phase = "resolve" /\ queue = <<>> /\ queue' = queueNext /\ queueNext' = <<>>
        /\ phase' = (IF queueNext = <<>> THEN "resolved" ELSE "resolve")
        /\ UNCHANGED <<meta, wanted, scan, scanNext, orderOnly, late, todoDep, done, out>>
        /\ resolvedAny' = FALSE
    BY DEF NextPass, input, scanVars
  <1>3. WorkInv /\ PassInv /\ OutInv
    BY <1>2 DEF Resolving
  <1>4. Seen' = Seen /\ Range(queue) = {} /\ Range(queueNext') = {} /\ Seen = Range(queueNext)
    BY <1>2, <1>3, RangeEmpty DEF Seen, WorkInv
  <1>5. TypeOK'
    BY <1>2 DEF TypeOK, Phase
  <1>6. WorkInv'
    BY <1>1, <1>2, <1>3, <1>4 DEF WorkInv, RequireClosed
  <1>7. PassInv'
    <2>1. CASE queueNext = <<>>
      BY <1>2, <1>4, <2>1, RangeEmpty DEF PassInv
    <2>2. CASE queueNext # <<>>
      <3>1. Seen # {}
        BY <1>4, <2>2, RangeSubset DEF TypeOK
      <3> QED
        BY <1>2, <1>4, <2>2, <3>1 DEF PassInv, Resolved
    <2> QED
      BY <2>1, <2>2
  <1>8. OutInv'
    BY <1>1, <1>2, <1>3 DEF OutInv, OutRespectsNeeds
  <1>9. QueuesOnce'
    BY <1>2 DEF QueuesOnce, Injective
  <1> QED
    BY <1>2, <1>3, <1>5, <1>6, <1>7, <1>8, <1>9 DEF Resolving

LEMMA BlockedForever ==
  ASSUME IInv, phase = "resolve", queue = <<>>, ~resolvedAny
  PROVE  /\ Seen # {}
         /\ \A n \in Seen : ~(Req(n) \subseteq done)
         /\ HasCycle(meta, wanted)
  <1> USE DEF IInv
  <1>1. WorkInv /\ PassInv
    BY DEF Resolving
  <1>2. Seen = Range(queueNext) /\ Seen # {}
    BY <1>1, RangeEmpty DEF WorkInv, PassInv
  <1>3. \A n \in Seen : Req(n) \ done # {}
    BY <1>1, <1>2 DEF WorkInv, PassInv
  <1>4. \A n \in Seen : Req(n) \subseteq Sel
    BY <1>1, RequiresSelected DEF TypeOK, WorkInv, Sel, Req
  <1>5. Seen \subseteq Sel /\ \A n \in Seen : Req(n) \cap Seen # {}
    BY <1>1, <1>3, <1>4 DEF WorkInv
  <1>6. HasCycle(meta, wanted)
    BY <1>2, <1>5 DEF HasCycle, Sel, Req
  <1> QED
    BY <1>2, <1>3, <1>6

LEMMA NoProgressStep ==
  ASSUME IInv, NoProgress
  PROVE  IInv'
  <1> USE DEF IInv
  <1>1. Sel' = Sel /\ \A k : Req(k)' = Req(k)
    BY InputKept DEF Next, Step
  <1>2. /\ phase = "resolve" /\ phase' = "cycle" /\ queue = <<>> /\ ~resolvedAny
        /\ UNCHANGED <<meta, wanted, scan, scanNext, orderOnly, late, todoDep, queue,
                       queueNext, resolvedAny, done, out>>
    BY DEF NoProgress, input, scanVars, resolveVars
  <1>3. WorkInv /\ PassInv /\ OutInv
    BY <1>2 DEF Resolving
  <1>4. Seen' = Seen
    BY <1>2 DEF Seen
  <1>5. TypeOK'
    BY <1>2 DEF TypeOK, Phase, Ended
  <1>6. WorkInv'
    BY <1>1, <1>2, <1>3, <1>4 DEF WorkInv, RequireClosed
  <1>7. PassInv'
    BY <1>2, <1>3, BlockedForever DEF PassInv, Resolved
  <1>8. OutInv'
    BY <1>1, <1>2, <1>3 DEF OutInv, OutRespectsNeeds
  <1>9. QueuesOnce'
    BY <1>2 DEF QueuesOnce
  <1> QED
    BY <1>2, <1>5, <1>6, <1>7, <1>8, <1>9 DEF Resolving

LEMMA CheckDirsStep ==
  ASSUME IInv, CheckDirs
  PROVE  IInv'
  <1> USE DEF IInv
  <1>1. Sel' = Sel /\ \A k : Req(k)' = Req(k)
    BY InputKept DEF Next, Step
  <1>2. /\ phase = "resolved" /\ phase' \in {"missing", "accepted"}
        /\ UNCHANGED <<meta, wanted, scan, scanNext, orderOnly, late, todoDep, queue,
                       queueNext, resolvedAny, done, out>>
    BY DEF CheckDirs, input, scanVars, resolveVars
  <1>3. WorkInv /\ PassInv /\ OutInv
    BY <1>2 DEF Resolving
  <1>4. Seen' = Seen
    BY <1>2 DEF Seen
  <1>5. TypeOK'
    BY <1>2 DEF TypeOK, Phase, Ended
  <1>6. WorkInv'
    BY <1>1, <1>2, <1>3, <1>4 DEF WorkInv, RequireClosed
  <1>7. PassInv'
    BY <1>2, <1>3, <1>4 DEF PassInv, Resolved
  <1>8. OutInv'
    BY <1>1, <1>2, <1>3 DEF OutInv, OutRespectsNeeds
  <1>9. QueuesOnce'
    BY <1>2 DEF QueuesOnce
  <1> QED
    BY <1>2, <1>5, <1>6, <1>7, <1>8, <1>9 DEF Resolving

LEMMA StutterStep ==
  ASSUME IInv, UNCHANGED vars
  PROVE  IInv'
  <1> USE DEF IInv
  <1>1. Sel' = Sel /\ \A k : Req(k)' = Req(k)
    BY InputKept
  <1>2. UNCHANGED <<meta, wanted, phase, scan, scanNext, orderOnly, late, todoDep, queue,
                    queueNext, resolvedAny, done, out>>
    BY DEF vars
  <1>3. Seen' = Seen /\ Pending' = Pending
    BY <1>2 DEF Seen, Pending
  <1>4. TypeOK'
    BY <1>2 DEF TypeOK
  <1>5. phase' = "scan" => ScanInv'
    BY <1>1, <1>2, <1>3 DEF ScanInv, Pulls, DepSet
  <1>6. Resolving' => WorkInv' /\ PassInv' /\ OutInv'
    <2>1. Resolving' => Resolving
      BY <1>2 DEF Resolving
    <2>2. WorkInv => WorkInv'
      BY <1>1, <1>2, <1>3 DEF WorkInv, RequireClosed
    <2>3. PassInv => PassInv'
      BY <1>2, <1>3 DEF PassInv, Resolved
    <2>4. OutInv => OutInv'
      BY <1>1, <1>2 DEF OutInv, OutRespectsNeeds
    <2> QED
      BY <2>1, <2>2, <2>3, <2>4
  <1>7. QueuesOnce'
    BY <1>2 DEF QueuesOnce
  <1> QED
    BY <1>2, <1>4, <1>5, <1>6, <1>7

LEMMA NextIInv == IInv /\ [Next]_vars => IInv'
  <1> SUFFICES ASSUME IInv, [Next]_vars PROVE IInv'
    OBVIOUS
  <1>1. CASE ScanAgain          BY <1>1, ScanAgainStep
  <1>2. CASE ScanName           BY <1>2, ScanNameStep
  <1>3. CASE RejectLateVirtual  BY <1>3, RejectStep
  <1>4. CASE ScanRound          BY <1>4, ScanRoundStep
  <1>5. CASE EvalDeps           BY <1>5, EvalDepsStep
  <1>6. CASE ResolveName        BY <1>6, ResolveNameStep
  <1>7. CASE DeferName          BY <1>7, DeferNameStep
  <1>8. CASE NextPass           BY <1>8, NextPassStep
  <1>9. CASE NoProgress         BY <1>9, NoProgressStep
  <1>10. CASE CheckDirs         BY <1>10, CheckDirsStep
  <1>11. CASE Terminated        BY <1>11, StutterStep DEF Terminated
  <1>12. CASE UNCHANGED vars    BY <1>12, StutterStep
  <1> QED
    BY <1>1, <1>2, <1>3, <1>4, <1>5, <1>6, <1>7, <1>8, <1>9, <1>10, <1>11, <1>12
    DEF Next, Step

\* The resolver's variables always satisfy the inductive invariant.
THEOREM Invariance == Spec => []IInv
  <1> QED
    BY InitIInv, NextIInv, PTL DEF Spec

\* Type correctness of the resolver.
THEOREM TypeCorrect == Spec => []TypeOK
  <1>1. IInv => TypeOK
    BY DEF IInv
  <1> QED
    BY <1>1, Invariance, PTL

\* The output never contains a collection ahead of one it needs, whatever the
\* meta files and the request are: the done set is closed under "requires", so
\* what is appended is needed by nothing that is there already.
THEOREM OutputOrdered == Spec => []OutRespectsNeeds
  <1>1. IInv => OutRespectsNeeds
    <2>1. CASE Resolving
      BY <2>1 DEF IInv, OutInv
    <2>2. CASE IInv /\ ~Resolving
      <3>1. out = <<>>
        BY <2>2 DEF IInv, Resolving, ScanInv, TypeOK, Phase, Ended
      <3> QED
        BY <3>1 DEF OutRespectsNeeds
    <2> QED
      BY <2>1, <2>2
  <1> QED
    BY <1>1, Invariance, PTL

\* On success the output is the selection without its virtual members, each
\* once: none is lost and none is added.
THEOREM OutputComplete == Spec => []OutIsSelection
  <1>1. IInv => OutIsSelection
    <2> SUFFICES ASSUME IInv, Resolved PROVE OutIsSelection
      BY DEF OutIsSelection
    <2>1. WorkInv /\ PassInv /\ OutInv
      BY DEF IInv, Resolving, Resolved
    <2>2. done = Sel
      BY <2>1 DEF WorkInv, PassInv
    <2> QED
      BY <2>1, <2>2 DEF OutInv, OutIsSelection, Injective, Sel
  <1> QED
    BY <1>1, Invariance, PTL

\* "Cannot resolve build collection dependencies" is raised exactly when the
\* selected collections wait for each other in a circle.
THEOREM FailureJustified == Spec => []FailsOnlyOnCycle
  <1>1. IInv => FailsOnlyOnCycle
    <2> SUFFICES ASSUME IInv PROVE FailsOnlyOnCycle
      OBVIOUS
    <2>1. phase = "cycle" => HasCycle(meta, wanted)
      BY DEF IInv, Resolving, PassInv
    <2>2. ASSUME Resolved, HasCycle(meta, wanted) PROVE FALSE
      <3>1. WorkInv /\ PassInv /\ OutInv
        BY <2>2 DEF IInv, Resolving, Resolved
      <3>2. done = Sel
        BY <2>2, <3>1 DEF WorkInv, PassInv
      <3>3. PICK S \in SUBSET Sel : S # {} /\ \A n \in S : Req(n) \cap S # {}
        BY <2>2 DEF HasCycle, Sel, Req
      <3>4. S \cap done = {}
        BY <3>1, <3>3 DEF OutInv
      <3> QED
        BY <3>2, <3>3, <3>4
    <2> QED
      BY <2>1, <2>2 DEF FailsOnlyOnCycle
  <1> QED
    BY <1>1, Invariance, PTL

-----------------------------------------------------------------------------
(* The resolver implements TopoOrder.                                      *)

\* The graph definitions that TopoOrder uses are those used here.
LEMMA SameGraph ==
  /\ Topo!MetaRecord = MetaRecord
  /\ \A m, w : Topo!Selected(m, w) = Selected(m, w)
  /\ \A m, w, n : Topo!Requires(m, w, n) = Requires(m, w, n)
  /\ \A m, w : Topo!HasLateVirtual(m, w) <=> HasLateVirtual(m, w)
  <1>1. \A f : Topo!Range(f) = Range(f)
    BY DEF Range, Topo!Range
  <1>2. \A m, n : Topo!Pulls(m, n) = Pulls(m, n)
    BY <1>1 DEF Pulls, Topo!Pulls
  <1>3. \A m, S : Topo!PullClosed(m, S) <=> PullClosed(m, S)
    BY <1>2 DEF PullClosed, Topo!PullClosed
  <1>4. \A m, w : Topo!Selected(m, w) = Selected(m, w)
    BY <1>1, <1>3 DEF Selected, Topo!Selected
  <1>5. \A m, w, n : Topo!Requires(m, w, n) = Requires(m, w, n)
    BY <1>1, <1>4 DEF Requires, Topo!Requires
  <1>6. \A m, w : Topo!HasLateVirtual(m, w) <=> HasLateVirtual(m, w)
    BY <1>4 DEF HasLateVirtual, Topo!HasLateVirtual
  <1>7. Topo!MetaRecord = MetaRecord
    BY DEF MetaRecord, Topo!MetaRecord
  <1> QED
    BY <1>4, <1>5, <1>6, <1>7

LEMMA ImplementsInit == Init => Topo!Init
  BY MetaSpaceAssumption, WantedSpaceAssumption, SameGraph DEF Init, Topo!Init

LEMMA ImplementsReject ==
  ASSUME IInv, RejectLateVirtual
  PROVE  Topo!Reject
  <1>1. /\ phase = "scan" /\ phase' = "late_virtual" /\ scan # <<>>
        /\ meta[Head(scan)].late /\ meta[Head(scan)].virtual
        /\ UNCHANGED <<meta, wanted, done, out>>
    BY DEF RejectLateVirtual, input, resolveVars
  <1>2. ScanInv
    BY <1>1 DEF IInv
  <1>3. Head(scan) \in Sel
    BY <1>1, <1>2, RangeHeadTail DEF IInv, TypeOK, ScanInv, Pending
  <1>4. HasLateVirtual(meta, wanted)
    BY <1>1, <1>3 DEF HasLateVirtual, Sel
  <1> QED
    BY <1>1, <1>2, <1>4, SameGraph DEF Topo!Reject, ScanInv, Resolved

LEMMA ImplementsPlace ==
  ASSUME IInv, ResolveName
  PROVE  Topo!Place
  <1> DEFINE n == Head(queue)
  <1>1. /\ phase = "resolve" /\ phase' = "resolve" /\ queue # <<>> /\ todoDep[n] = {}
        /\ done' = done \cup {n}
        /\ out' = (IF meta[n].virtual THEN out ELSE Append(out, n))
        /\ UNCHANGED <<meta, wanted>>
    BY DEF ResolveName, input
  <1>2. WorkInv
    BY <1>1 DEF IInv, Resolving
  <1>3. n \in Name /\ n \in Seen
    BY <1>1, <1>2, RangeHeadTail DEF IInv, TypeOK, WorkInv
  <1>4. n \in Sel \ done /\ Req(n) \subseteq done
    BY <1>1, <1>2, <1>3 DEF WorkInv
  <1> HIDE DEF n
  <1>5. Topo!Placeable(n)
    BY <1>4, SameGraph DEF Topo!Placeable, Sel, Req
  <1> QED
    BY <1>1, <1>2, <1>3, <1>5, SameGraph DEF Topo!Place, WorkInv

LEMMA ImplementsComplete ==
  ASSUME IInv, NextPass
  PROVE  Topo!Complete \/ UNCHANGED Topo!vars
  <1>1. /\ phase = "resolve" /\ queue = <<>>
        /\ phase' = (IF queueNext = <<>> THEN "resolved" ELSE "resolve")
        /\ UNCHANGED <<meta, wanted, done, out>>
    BY DEF NextPass, input
  <1>2. WorkInv
    BY <1>1 DEF IInv, Resolving
  <1>3. CASE queueNext = <<>>
    <2>1. done = Sel
      BY <1>1, <1>2, <1>3, RangeEmpty DEF WorkInv
    <2> QED
      BY <1>1, <1>2, <1>3, <2>1, SameGraph DEF Topo!Complete, WorkInv, Sel, Resolved
  <1>4. CASE queueNext # <<>>
    BY <1>1, <1>4 DEF Topo!vars, Resolved
  <1> QED
    BY <1>3, <1>4

LEMMA ImplementsStuck ==
  ASSUME IInv, NoProgress
  PROVE  Topo!Stuck
  <1>1. /\ phase = "resolve" /\ phase' = "cycle" /\ queue = <<>> /\ ~resolvedAny
        /\ UNCHANGED <<meta, wanted, done, out>>
    BY DEF NoProgress, input, resolveVars
  <1>2. WorkInv
    BY <1>1 DEF IInv, Resolving
  <1>3. Sel \ done = Seen /\ Seen # {} /\ \A n \in Seen : ~(Req(n) \subseteq done)
    BY <1>1, <1>2, BlockedForever DEF WorkInv
  <1>4. \A n \in Name : ~Topo!Placeable(n)
    BY <1>3, SameGraph DEF Topo!Placeable, Sel, Req
  <1> QED
    BY <1>1, <1>2, <1>3, <1>4, SameGraph DEF Topo!Stuck, WorkInv, Sel, Resolved

\* Every behaviour of the resolver is, step by step, one in which collections
\* are placed one at a time after all that they require.
THEOREM Refinement == Spec => ImplementsTopoOrder
  <1>1. IInv /\ [Next]_vars => [Topo!Next]_Topo!vars
    <2> SUFFICES ASSUME IInv, [Next]_vars PROVE [Topo!Next]_Topo!vars
      OBVIOUS
    <2>1. CASE ScanAgain \/ ScanName \/ ScanRound \/ EvalDeps
      BY <2>1 DEF ScanAgain, ScanName, ScanRound, EvalDeps, input, resolveVars,
                  Topo!vars, Resolved
    <2>2. CASE RejectLateVirtual
      BY <2>2, ImplementsReject DEF Topo!Next
    <2>3. CASE ResolveName
      BY <2>3, ImplementsPlace DEF Topo!Next
    <2>4. CASE DeferName
      BY <2>4 DEF DeferName, input, Topo!vars, Resolved
    <2>5. CASE NextPass
      BY <2>5, ImplementsComplete DEF Topo!Next
    <2>6. CASE NoProgress
      BY <2>6, ImplementsStuck DEF Topo!Next
    <2>7. CASE CheckDirs
      BY <2>7 DEF CheckDirs, input, resolveVars, Topo!vars, Resolved
    <2>8. CASE Terminated \/ UNCHANGED vars
      BY <2>8 DEF Terminated, vars, Topo!vars, Resolved
    <2> QED
      BY <2>1, <2>2, <2>3, <2>4, <2>5, <2>6, <2>7, <2>8 DEF Next, Step
  <1> QED
    BY <1>1, ImplementsInit, Invariance, PTL DEF Spec, ImplementsTopoOrder, Topo!Spec

-----------------------------------------------------------------------------
(* Requests in a valid order.                                              *)

Ascending(s) == \A i, j \in 1..Len(s) : i < j => Precedes(s[i], s[j])

\* The names of the request up to position k were scanned, the rest is what the
\* first pass has left.
FirstScan(k) ==
    /\ Seen = {wanted[i] : i \in 1..k}
    /\ Len(scan) = Len(wanted) - k
    /\ \A i \in 1..Len(scan) : scan[i] = wanted[k + i]

\* The queue has the order of the request, and nothing has to wait.
OrderInv ==
    WellOrdered =>
        /\ phase = "scan" => /\ Ascending(queue)
                             /\ \/ Seen = Sel
                                \/ \E k \in 0..Len(wanted) : FirstScan(k)
        /\ phase = "resolve" => /\ Ascending(queue)
                                /\ \A x \in done, y \in Seen : Precedes(x, y)
                                /\ queueNext = <<>>
        /\ phase = "resolve" \/ Resolved => Ascending(out)

LEMMA AscendingTail ==
  ASSUME NEW s \in Seq(Name), s # <<>>, Ascending(s)
  PROVE  /\ Ascending(Tail(s))
         /\ \A y \in Range(Tail(s)) : Precedes(Head(s), y)
  <1>1. /\ Len(s) \in Nat /\ Len(s) >= 1 /\ Head(s) = s[1]
        /\ Len(Tail(s)) = Len(s) - 1 /\ DOMAIN Tail(s) = 1..(Len(s) - 1)
        /\ \A i \in 1..(Len(s) - 1) : Tail(s)[i] = s[i + 1]
    OBVIOUS
  <1>2. ASSUME NEW i \in 1..Len(Tail(s)), NEW j \in 1..Len(Tail(s)), i < j
        PROVE  Precedes(Tail(s)[i], Tail(s)[j])
    <2>1. i + 1 \in 1..Len(s) /\ j + 1 \in 1..Len(s) /\ i + 1 < j + 1
      BY <1>1, <1>2
    <2> QED
      BY <1>1, <2>1 DEF Ascending
  <1>3. ASSUME NEW y \in Range(Tail(s)) PROVE Precedes(Head(s), y)
    <2>1. PICK i \in 1..(Len(s) - 1) : y = s[i + 1]
      BY <1>1, <1>3 DEF Range
    <2>2. 1 \in 1..Len(s) /\ i + 1 \in 1..Len(s) /\ 1 < i + 1
      BY <1>1
    <2> QED
      BY <1>1, <2>1, <2>2 DEF Ascending
  <1> QED
    BY <1>2, <1>3 DEF Ascending

LEMMA AscendingAppend ==
  ASSUME NEW s \in Seq(Name), NEW x \in Name, Ascending(s),
         \A y \in Range(s) : Precedes(y, x)
  PROVE  Ascending(Append(s, x))
  <1> DEFINE t == Append(s, x)
  <1>1. /\ Len(s) \in Nat /\ Len(t) = Len(s) + 1 /\ DOMAIN s = 1..Len(s)
        /\ \A i \in 1..Len(s) : t[i] = s[i]
        /\ t[Len(s) + 1] = x
    OBVIOUS
  <1>2. ASSUME NEW i \in 1..Len(t), NEW j \in 1..Len(t), i < j
        PROVE  Precedes(t[i], t[j])
    <2>1. i \in 1..Len(s) /\ (j \in 1..Len(s) \/ j = Len(s) + 1)
      BY <1>1, <1>2
    <2>2. CASE j \in 1..Len(s)
      BY <1>1, <1>2, <2>1, <2>2 DEF Ascending
    <2>3. CASE j = Len(s) + 1
      BY <1>1, <2>1, <2>3 DEF Range
    <2> QED
      BY <2>1, <2>2, <2>3
  <1> QED
    BY <1>2 DEF Ascending

LEMMA OrderInit == Init => OrderInv
  <1> SUFFICES ASSUME Init PROVE OrderInv
    OBVIOUS
  <1>1. /\ phase = "scan" /\ scan = wanted /\ queue = <<>> /\ Seen = {}
        /\ wanted \in Seq(Name)
    BY WantedSpaceAssumption DEF Init, Seen
  <1>2. FirstScan(0) /\ 0 \in 0..Len(wanted)
    BY <1>1 DEF FirstScan
  <1>3. Ascending(queue)
    BY <1>1 DEF Ascending
  <1> QED
    BY <1>1, <1>2, <1>3 DEF OrderInv, Resolved

\* The first name of a queue in the order of the request waits for nothing.
LEMMA NothingPending ==
  ASSUME IInv, WellOrdered, phase = "resolve", queue # <<>>, queueNext = <<>>, Ascending(queue)
  PROVE  todoDep[Head(queue)] = {}
  <1> DEFINE n == Head(queue)
  <1>1. WorkInv /\ wanted \in Seq(Name)
    BY DEF IInv, Resolving, TypeOK
  <1>2. /\ n \in Range(queue) /\ Range(queue) = {n} \cup Range(Tail(queue))
        /\ \A y \in Range(Tail(queue)) : Precedes(n, y)
    BY RangeHeadTail, AscendingTail DEF IInv, TypeOK
  <1> HIDE DEF n
  <1>3. Range(queue) = Seen /\ n \in Sel /\ Sel = Range(wanted)
    BY <1>1, <1>2, RangeEmpty DEF WorkInv, WellOrdered, Sel
  <1>4. PICK a \in 1..Len(wanted) : n = wanted[a]
    BY <1>1, <1>3 DEF Range
  <1>5. Req(n) \subseteq {wanted[j] : j \in 1..(a - 1)}
    BY <1>4 DEF WellOrdered, Req
  <1>6. ASSUME NEW k \in Req(n) PROVE k \in done
    <2>1. PICK j \in 1..(a - 1) : k = wanted[j]
      BY <1>5, <1>6
    <2>2. j \in 1..Len(wanted) /\ j < a /\ k \in Range(wanted)
      BY <1>1, <1>4, <2>1 DEF Range
    <2>3. k # n
      BY <1>4, <2>1, <2>2 DEF WellOrdered
    <2>4. ~Precedes(n, k)
      BY <1>4, <2>1, <2>2 DEF WellOrdered, Precedes
    <2>5. k \notin Seen
      BY <1>2, <1>3, <2>3, <2>4
    <2> QED
      BY <1>1, <1>3, <2>2, <2>5 DEF WorkInv
  <1>7. todoDep[n] = Req(n) \ done
    BY <1>1, <1>2, <1>3 DEF WorkInv
  <1> QED
    BY <1>6, <1>7 DEF n

LEMMA OrderScanName ==
  ASSUME IInv, OrderInv, ScanName
  PROVE  OrderInv'
  <1> SUFFICES ASSUME WellOrdered'
               PROVE  /\ Ascending(queue)'
                      /\ \/ Seen' = Sel'
                         \/ \E k \in 0..Len(wanted) : FirstScan(k)'
    BY DEF ScanName, OrderInv, Resolved, input
  <1>1. /\ phase = "scan" /\ scan # <<>> /\ scan' = Tail(scan)
        /\ Head(scan) \notin Seen /\ queue' = Append(queue, Head(scan))
        /\ Seen' = Seen \cup {Head(scan)}
        /\ UNCHANGED <<meta, wanted>>
    BY DEF ScanName, Seen, input
  <1>2. WellOrdered /\ Sel' = Sel
    <2>1. meta' = meta /\ wanted' = wanted
      BY <1>1
    <2>2. Sel' = Sel
      BY <2>1 DEF Sel
    <2>3. /\ Range(wanted') = Selected(meta', wanted')
          /\ \A i, j \in 1..Len(wanted') : wanted'[i] = wanted'[j] => i = j
          /\ \A i \in 1..Len(wanted') :
                Requires(meta', wanted', wanted'[i])
                    \subseteq {wanted'[j] : j \in 1..(i - 1)}
      BY DEF WellOrdered
    <2>4. WellOrdered
      BY <2>1, <2>3 DEF WellOrdered
    <2> QED
      BY <2>2, <2>4
  <1>3. /\ scan \in Seq(Name) /\ queue \in Seq(Name) /\ wanted \in Seq(Name)
        /\ Range(queue) = Seen /\ Seen \cup Pending \subseteq Sel
    BY <1>1 DEF IInv, TypeOK, ScanInv
  <1>4. Head(scan) \in Sel /\ Head(scan) \in Name
    BY <1>1, <1>3, RangeHeadTail DEF Pending
  <1>5. PICK k \in 0..Len(wanted) : FirstScan(k)
    BY <1>1, <1>2, <1>4 DEF OrderInv
  <1>6. /\ Len(scan) \in Nat /\ Len(scan) >= 1 /\ Head(scan) = scan[1]
        /\ Len(Tail(scan)) = Len(scan) - 1
        /\ \A i \in 1..(Len(scan) - 1) : Tail(scan)[i] = scan[i + 1]
    BY <1>1, <1>3
  <1>7. /\ Head(scan) = wanted[k + 1] /\ k + 1 \in 1..Len(wanted) /\ Len(wanted) \in Nat
        /\ Len(scan) = Len(wanted) - k
        /\ \A i \in 1..Len(scan) : scan[i] = wanted[k + i]
        /\ Seen = {wanted[i] : i \in 1..k}
    BY <1>3, <1>5, <1>6 DEF FirstScan
  <1>8. \A y \in Range(queue) : Precedes(y, Head(scan))
    <2>1. ASSUME NEW y \in Seen PROVE Precedes(y, Head(scan))
      <3>1. PICK i \in 1..k : y = wanted[i]
        BY <1>7, <2>1
      <3>2. i \in 1..Len(wanted) /\ i < k + 1
        BY <1>7
      <3> QED
        BY <1>7, <3>1, <3>2 DEF Precedes
    <2> QED
      BY <1>3, <2>1
  <1>9. Ascending(queue')
    BY <1>1, <1>2, <1>3, <1>4, <1>8, AscendingAppend DEF OrderInv
  <1>10. FirstScan(k + 1)'
    <2>1. Seen' = {wanted[i] : i \in 1..(k + 1)}
      <3>1. 1..(k + 1) = 1..k \cup {k + 1}
        BY <1>7
      <3> QED
        BY <1>1, <1>7, <3>1
    <2>2. Len(scan') = Len(wanted) - (k + 1)
      BY <1>1, <1>6, <1>7
    <2>3. ASSUME NEW i \in 1..Len(scan') PROVE scan'[i] = wanted[(k + 1) + i]
      <3>1. i \in 1..(Len(scan) - 1) /\ i + 1 \in 1..Len(scan) /\ k + (i + 1) = (k + 1) + i
        BY <1>1, <1>6, <1>7, <2>3
      <3> QED
        BY <1>1, <1>6, <1>7, <3>1
    <2> QED
      BY <1>1, <2>1, <2>2, <2>3 DEF FirstScan
  <1>11. k + 1 \in 0..Len(wanted)
    BY <1>7
  <1> QED
    BY <1>1, <1>9, <1>10, <1>11 DEF Ascending, Precedes

LEMMA OrderStep == IInv /\ OrderInv /\ [Next]_vars => OrderInv'
  <1> SUFFICES ASSUME IInv, OrderInv, [Next]_vars PROVE OrderInv'
    OBVIOUS
  <1>0. meta' = meta /\ wanted' = wanted
    BY InputKept
  <1>w. /\ (WellOrdered' <=> WellOrdered) /\ Sel' = Sel
        /\ \A x, y : Precedes(x, y)' <=> Precedes(x, y)
    BY <1>0 DEF WellOrdered, Precedes, Sel
  <1>1. CASE ~WellOrdered
    BY <1>1, <1>w DEF OrderInv
  <1>t. /\ scan \in Seq(Name) /\ queue \in Seq(Name) /\ wanted \in Seq(Name)
        /\ queueNext \in Seq(Name) /\ out \in Seq(Name)
    BY DEF IInv, TypeOK
  <1>2. CASE WellOrdered /\ ScanAgain
    <2>1. /\ phase = "scan" /\ phase' = phase /\ queue' = queue /\ Seen' = Seen
          /\ scan # <<>> /\ Head(scan) \in Seen
      BY <1>2 DEF ScanAgain, Seen
    <2>2. \A k \in 0..Len(wanted) : ~FirstScan(k)
      <3> SUFFICES ASSUME NEW k \in 0..Len(wanted), FirstScan(k) PROVE FALSE
        OBVIOUS
      <3>1. Len(scan) >= 1 /\ Head(scan) = scan[1] /\ Len(wanted) \in Nat /\ Len(scan) \in Nat
        BY <1>t, <2>1
      <3>2. Head(scan) = wanted[k + 1] /\ k + 1 \in 1..Len(wanted)
        BY <3>1 DEF FirstScan
      <3>3. PICK i \in 1..k : Head(scan) = wanted[i]
        BY <2>1 DEF FirstScan
      <3>4. i \in 1..Len(wanted) /\ i # k + 1
        BY <3>1
      <3> QED
        BY <1>2, <3>2, <3>3, <3>4 DEF WellOrdered
    <2>3. Ascending(queue) /\ Seen = Sel
      BY <1>2, <2>1, <2>2 DEF OrderInv
    <2> QED
      BY <1>w, <2>1, <2>3 DEF OrderInv, Ascending, Resolved
  <1>3. CASE ScanName
    BY <1>3, OrderScanName
  <1>4. CASE RejectLateVirtual
    BY <1>4 DEF RejectLateVirtual, OrderInv, Resolved
  <1>5. CASE WellOrdered /\ (ScanRound \/ EvalDeps)
    <2>1. /\ phase = "scan" /\ scan = <<>> /\ queue' = queue
          /\ UNCHANGED <<queueNext, done, out>>
      BY <1>5 DEF ScanRound, EvalDeps, scanVars, resolveVars
    <2>2. Ascending(queue) /\ Seen = Sel
      <3>1. ASSUME NEW k \in 0..Len(wanted), FirstScan(k) PROVE Seen = Sel
        <4>1. k = Len(wanted)
          BY <1>t, <2>1, <3>1 DEF FirstScan
        <4>2. Seen = Range(wanted)
          BY <1>t, <3>1, <4>1 DEF FirstScan, Range
        <4> QED
          BY <1>5, <4>2 DEF WellOrdered, Sel
      <3> QED
        BY <1>5, <2>1, <3>1 DEF OrderInv
    <2>3. Ascending(queue)'
      BY <1>w, <2>1, <2>2 DEF Ascending
    <2>4. CASE ScanRound
      <3>1. phase' = "scan" /\ Seen' = Seen
        BY <2>1, <2>4 DEF ScanRound, Seen
      <3> QED
        BY <1>w, <2>2, <2>3, <3>1 DEF OrderInv, Resolved
    <2>5. CASE EvalDeps
      <3>1. phase' = "resolve" /\ done = {} /\ out = <<>> /\ queueNext = <<>>
        BY <2>1, <2>5 DEF EvalDeps, IInv, ScanInv
      <3>2. Ascending(out)'
        BY <2>1, <3>1 DEF Ascending
      <3> QED
        BY <2>1, <2>3, <3>1, <3>2 DEF OrderInv
    <2> QED
      BY <1>5, <2>4, <2>5
  <1>6. CASE WellOrdered /\ ResolveName
    <2> DEFINE n == Head(queue)
    <2>1. /\ phase = "resolve" /\ phase' = phase /\ queue # <<>> /\ queue' = Tail(queue)
          /\ queueNext' = queueNext /\ done' = done \cup {n} /\ Seen' = Seen \ {n}
          /\ out' = IF meta[n].virtual THEN out ELSE Append(out, n)
      BY <1>6 DEF ResolveName, Seen
    <2>2. /\ Ascending(queue) /\ Ascending(out) /\ queueNext = <<>>
          /\ \A x \in done, y \in Seen : Precedes(x, y)
      BY <1>6, <2>1 DEF OrderInv
    <2>3. /\ Ascending(Tail(queue)) /\ n \in Name /\ n \in Range(queue)
          /\ \A y \in Range(Tail(queue)) : Precedes(n, y)
          /\ Range(queue) = {n} \cup Range(Tail(queue))
      BY <1>t, <2>1, <2>2, AscendingTail, RangeHeadTail
    <2> HIDE DEF n
    <2>4. Range(queue) = Seen /\ Range(out) \subseteq done
      BY <2>1, <2>2, RangeEmpty DEF IInv, Resolving, WorkInv, OutInv
    <2>5. Ascending(out')
      <3>1. Ascending(Append(out, n))
        BY <1>t, <2>2, <2>3, <2>4, AscendingAppend
      <3> QED
        BY <2>1, <2>2, <3>1
    <2>6. \A x \in done', y \in Seen' : Precedes(x, y)
      BY <2>1, <2>2, <2>3, <2>4
    <2>7. Ascending(queue)' /\ Ascending(out)'
      BY <1>w, <2>1, <2>3, <2>5 DEF Ascending
    <2> QED
      BY <1>w, <2>1, <2>2, <2>6, <2>7 DEF OrderInv
  <1>7. CASE WellOrdered /\ DeferName
    <2>1. phase = "resolve" /\ queue # <<>> /\ todoDep[Head(queue)] # {}
      BY <1>7 DEF DeferName
    <2> QED
      BY <1>7, <2>1, NothingPending DEF OrderInv
  <1>8. CASE WellOrdered /\ NextPass
    <2>1. phase = "resolve" /\ queueNext = <<>> /\ phase' = "resolved" /\ out' = out
      BY <1>8 DEF NextPass, OrderInv
    <2>2. Ascending(out)'
      BY <1>8, <1>w, <2>1 DEF OrderInv, Ascending
    <2> QED
      BY <2>1, <2>2 DEF OrderInv
  <1>9. CASE NoProgress
    BY <1>9 DEF NoProgress, OrderInv, Resolved
  <1>10. CASE WellOrdered /\ CheckDirs
    <2>1. phase = "resolved" /\ phase' \in {"missing", "accepted"} /\ out' = out
      BY <1>10 DEF CheckDirs, resolveVars
    <2>2. Ascending(out)'
      BY <1>10, <1>w, <2>1 DEF OrderInv, Ascending, Resolved
    <2> QED
      BY <2>1, <2>2 DEF OrderInv
  <1>11. CASE UNCHANGED vars
    <2>1. UNCHANGED <<phase, scan, queue, queueNext, done, out>> /\ Seen' = Seen
      BY <1>11 DEF vars, Seen
    <2>2. \A k : FirstScan(k)' <=> FirstScan(k)
      BY <1>0, <2>1 DEF FirstScan
    <2>3. /\ Ascending(queue)' <=> Ascending(queue)
          /\ Ascending(out)' <=> Ascending(out)
      BY <1>w, <2>1 DEF Ascending
    <2> QED
      BY <1>0, <1>w, <2>1, <2>2, <2>3 DEF OrderInv, Resolved
  <1> QED
    BY <1>1, <1>2, <1>3, <1>4, <1>5, <1>6, <1>7, <1>8, <1>9, <1>10, <1>11
    DEF Next, Step, Terminated

\* A request that is complete and in a valid order is yielded in that order: nothing
\* is ever deferred.
THEOREM ValidOrderKept == Spec => []ValidRequestKept
  <1>1. OrderInv => ValidRequestKept
    BY DEF OrderInv, ValidRequestKept, Ascending
  <1> QED
    BY Invariance, OrderInit, OrderStep, <1>1, PTL DEF Spec
=============================================================================
