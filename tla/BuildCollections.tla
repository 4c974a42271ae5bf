-------------------------- MODULE BuildCollections --------------------------
(***************************************************************************)
(* main_gen_expand_build_collections() of build-scripts/mkimage.py, which  *)
(* expands DBUILD_TARGET_COLLECTIONS to the ordered list of collections    *)
(* that a build uses, and the check in main() that follows it.             *)
(*                                                                         *)
(* One step is one iteration of one of the function's loops.  A queue      *)
(* entry (name, bcol_dir, bcol_is_virtual) is the name: the other two are  *)
(* functions of it.  The set collections_done is done; the test "name not  *)
(* in collections_done" of the resolve loop always holds, because a name   *)
(* is queued once (QueuesOnce in the proofs).                               *)
(***************************************************************************)
EXTENDS CollectionGraph, FiniteSets

CONSTANTS MetaSpace,     \* the meta file contents considered
          WantedSpace    \* the requests considered

ASSUME MetaSpaceAssumption == MetaSpace \subseteq [Name -> MetaRecord]

\* main() refuses an empty request before it calls the resolver
ASSUME WantedSpaceAssumption == WantedSpace \subseteq Seq(Name) \ {<<>>}

VARIABLES
    meta, wanted,   \* the input, never changed
    phase,          \* which loop runs, or how the function ended
    scan, scanNext, \* collections_todo_scan (what is left of it), .._scan_next
    orderOnly,      \* collections_order_only_map
    late,           \* collections_dep_late
    todoDep,        \* collections_todo_dep
    queue,          \* collections_todo_queue (what is left of it)
    queueNext,      \* collections_todo_queue_next
    resolvedAny,    \* resolved_any_dep
    done,           \* collections_done
    out             \* the names yielded so far

vars == <<meta, wanted, phase, scan, scanNext, orderOnly, late, todoDep,
          queue, queueNext, resolvedAny, done, out>>

input == <<meta, wanted>>
scanVars == <<scan, scanNext, orderOnly, late>>
resolveVars == <<queueNext, resolvedAny, done, out>>

Ended == {"late_virtual", "cycle", "missing", "accepted"}
Phase == {"scan", "resolve", "resolved"} \cup Ended

Init == /\ meta \in MetaSpace
        /\ wanted \in WantedSpace
        /\ phase = "scan"
        /\ scan = wanted
        /\ scanNext = <<>>
        /\ orderOnly = [n \in Name |-> "unset"]
        /\ late = {}
        /\ todoDep = <<>>
        /\ queue = <<>>
        /\ queueNext = <<>>
        /\ resolvedAny = FALSE
        /\ done = {}
        /\ out = <<>>

-----------------------------------------------------------------------------
(* Scanning for additional dependencies.                                   *)

\* "if name not in collections_todo_dep" fails: scanned before.
ScanAgain == /\ phase = "scan"
             /\ scan # <<>>
             /\ Head(scan) \in DOMAIN todoDep
             /\ scan' = Tail(scan)
             /\ UNCHANGED <<input, phase, scanNext, orderOnly, late, todoDep,
                            queue, resolveVars>>

\* collections_order_only_map after n was scanned: n itself is strict, and
\* setdefault() leaves alone what is already marked.
MarkScanned(n) ==
    [m \in Name |-> IF m = n THEN "strict"
                    ELSE IF m \in Range(meta[n].after) /\ orderOnly[m] = "unset"
                         THEN "order"
                         ELSE orderOnly[m]]

\* A fault that the checks detect: "after" is forgotten.
DepSetDependsOnly(n) == Range(meta[n].depends)

\* The dep_set built from the meta file: depends and after, "*" left out.
DepSet(n) == Range(meta[n].depends) \cup Range(meta[n].after)

\* A fault that the checks detect: what is scanned last is resolved first.
ScanNameInFront == /\ phase = "scan"
                   /\ scan # <<>>
                   /\ LET n == Head(scan) IN
                        /\ n \notin DOMAIN todoDep
                        /\ ~(meta[n].late /\ meta[n].virtual)
                        /\ scanNext' = scanNext \o meta[n].depends \o meta[n].wants
                        /\ orderOnly' = MarkScanned(n)
                        /\ late' = IF meta[n].late THEN late \cup {n} ELSE late
                        /\ queue' = <<n>> \o queue
                        /\ todoDep' = [m \in DOMAIN todoDep \cup {n} |->
                                           IF m = n THEN DepSet(n) ELSE todoDep[m]]
                   /\ scan' = Tail(scan)
                   /\ UNCHANGED <<input, phase, resolveVars>>

ScanName == /\ phase = "scan"
            /\ scan # <<>>
            /\ LET n == Head(scan) IN
                 /\ n \notin DOMAIN todoDep
                 /\ ~(meta[n].late /\ meta[n].virtual)
                 /\ scanNext' = scanNext \o meta[n].depends \o meta[n].wants
                 /\ orderOnly' = MarkScanned(n)
                 /\ late' = IF meta[n].late THEN late \cup {n} ELSE late
                 /\ queue' = Append(queue, n)
                 /\ todoDep' = [m \in DOMAIN todoDep \cup {n} |->
                                    IF m = n THEN DepSet(n) ELSE todoDep[m]]
            /\ scan' = Tail(scan)
            /\ UNCHANGED <<input, phase, resolveVars>>

\* "late-dep on all not allowed for virtual collections"
RejectLateVirtual ==
    /\ phase = "scan"
    /\ scan # <<>>
    /\ Head(scan) \notin DOMAIN todoDep
    /\ meta[Head(scan)].late /\ meta[Head(scan)].virtual
    /\ phase' = "late_virtual"
    /\ UNCHANGED <<input, scanVars, todoDep, queue, resolveVars>>

ScanRound == /\ phase = "scan"
             /\ scan = <<>>
             /\ scanNext # <<>>
             /\ scan' = scanNext
             /\ scanNext' = <<>>
             /\ UNCHANGED <<input, phase, orderOnly, late, todoDep, queue,
                            resolveVars>>

\* A fault that the checks detect: dependencies that nothing pulled in stay.
NoOrderOnlyDeps == {}

\* Drop the order-only dependencies that nothing pulled in, then make each
\* late collection depend on all those that are not late.
OrderOnlyDeps == {n \in Name : orderOnly[n] = "order"}

EvalDeps == /\ phase = "scan"
            /\ scan = <<>>
            /\ scanNext = <<>>
            /\ todoDep' = [n \in DOMAIN todoDep |->
                              (todoDep[n] \ OrderOnlyDeps)
                                \cup (IF n \in late THEN DOMAIN todoDep \ late ELSE {})]
            /\ phase' = "resolve"
            /\ UNCHANGED <<input, scanVars, queue, resolveVars>>

-----------------------------------------------------------------------------
(* Resolving: passes over the queue until it is empty.                     *)

\* A fault that the checks detect: pending dependencies do not matter.
ResolveAnyName ==
    /\ phase = "resolve"
    /\ queue # <<>>
    /\ LET n == Head(queue) IN
         /\ done' = done \cup {n}
         /\ todoDep' = [m \in DOMAIN todoDep \ {n} |-> todoDep[m] \ {n}]
         /\ out' = IF meta[n].virtual THEN out ELSE Append(out, n)
    /\ queue' = Tail(queue)
    /\ resolvedAny' = TRUE
    /\ UNCHANGED <<input, phase, scanVars, queueNext>>

\* No dependency is pending: n is done, is removed from all the others'
\* dependencies, and is yielded unless it is virtual.
ResolveName ==
    /\ phase = "resolve"
    /\ queue # <<>>
    /\ LET n == Head(queue) IN
         /\ todoDep[n] = {}
         /\ done' = done \cup {n}
         /\ todoDep' = [m \in DOMAIN todoDep \ {n} |-> todoDep[m] \ {n}]
         /\ out' = IF meta[n].virtual THEN out ELSE Append(out, n)
    /\ queue' = Tail(queue)
    /\ resolvedAny' = TRUE
    /\ UNCHANGED <<input, phase, scanVars, queueNext>>

DeferName ==
    /\ phase = "resolve"
    /\ queue # <<>>
    /\ todoDep[Head(queue)] # {}
    /\ queueNext' = Append(queueNext, Head(queue))
    /\ queue' = Tail(queue)
    /\ UNCHANGED <<input, phase, scanVars, todoDep, resolvedAny, done, out>>

\* Faults that the checks detect: a pass forgets what it deferred; a pass begins
\* although the last one resolved nothing.
NextPassForgets == /\ phase = "resolve"
                   /\ queue = <<>>
                   /\ resolvedAny
                   /\ queue' = <<>>
                   /\ queueNext' = <<>>
                   /\ resolvedAny' = FALSE
                   /\ phase' = "resolved"
                   /\ UNCHANGED <<input, scanVars, todoDep, done, out>>

NextPassAlways == /\ phase = "resolve"
                  /\ queue = <<>>
                  /\ queue' = queueNext
                  /\ queueNext' = <<>>
                  /\ resolvedAny' = FALSE
                  /\ phase' = IF queueNext = <<>> THEN "resolved" ELSE "resolve"
                  /\ UNCHANGED <<input, scanVars, todoDep, done, out>>

NextPass == /\ phase = "resolve"
            /\ queue = <<>>
            /\ resolvedAny
            /\ queue' = queueNext
            /\ queueNext' = <<>>
            /\ resolvedAny' = FALSE
            /\ phase' = IF queueNext = <<>> THEN "resolved" ELSE "resolve"
            /\ UNCHANGED <<input, scanVars, todoDep, done, out>>

\* "Cannot resolve build collection dependencies"
NoProgress == /\ phase = "resolve"
              /\ queue = <<>>
              /\ ~resolvedAny
              /\ phase' = "cycle"
              /\ UNCHANGED <<input, scanVars, todoDep, queue, resolveVars>>

\* main(): a collection without a directory aborts the build.
CheckDirs == /\ phase = "resolved"
             /\ phase' = IF \E n \in Range(out) : ~meta[n].isDir
                         THEN "missing" ELSE "accepted"
             /\ UNCHANGED <<input, scanVars, todoDep, queue, resolveVars>>

Terminated == phase \in Ended /\ UNCHANGED vars

Step == \/ ScanAgain \/ ScanName \/ RejectLateVirtual \/ ScanRound \/ EvalDeps
        \/ ResolveName \/ DeferName \/ NextPass \/ NoProgress \/ CheckDirs

Next == Step \/ Terminated

Spec == Init /\ [][Next]_vars

\* A single-threaded function: it takes its next step as long as there is one.
FairSpec == Spec /\ WF_vars(Step)

-----------------------------------------------------------------------------
(* Properties.                                                             *)

\* Each variable of the resolver has the type its Python object has.
TypeOK == /\ meta \in [Name -> MetaRecord]
          /\ wanted \in Seq(Name)
          /\ phase \in Phase
          /\ scan \in Seq(Name) /\ scanNext \in Seq(Name)
          /\ orderOnly \in [Name -> {"unset", "strict", "order"}]
          /\ late \subseteq Name
          /\ DOMAIN todoDep \subseteq Name
          /\ todoDep \in [DOMAIN todoDep -> SUBSET Name]
          /\ queue \in Seq(Name) /\ queueNext \in Seq(Name)
          /\ resolvedAny \in BOOLEAN
          /\ done \subseteq Name
          /\ out \in Seq(Name)

\* In what the resolver yields, no collection comes before one that it needs,
\* not even if only virtual collections, which are never yielded, connect the
\* two.  (Hooks and overlays are applied and configuration is merged in this
\* order.)
OutRespectsNeeds ==
    \A i, j \in 1..Len(out) : i < j => out[j] \notin Needs(meta, wanted, out[i])

Resolved == phase \in {"resolved", "missing", "accepted"}

\* When resolving succeeds, exactly the selected collections that are not
\* virtual were yielded, each one once: none is lost between the passes, and an
\* "after" neither adds a collection nor blocks one that waits for a collection
\* nobody asked for.
OutIsSelection ==
    Resolved =>
        /\ Range(out) = {n \in Selected(meta, wanted) : ~meta[n].virtual}
        /\ \A i, j \in 1..Len(out) : out[i] = out[j] => i = j

\* The resolver gives up because it made no progress only if some of the
\* selected collections really wait for each other, and never succeeds if they do.
FailsOnlyOnCycle == /\ phase = "cycle" => HasCycle(meta, wanted)
                    /\ Resolved => ~HasCycle(meta, wanted)

\* The request is complete and in a valid order already.
WellOrdered ==
    /\ Range(wanted) = Selected(meta, wanted)
    /\ \A i, j \in 1..Len(wanted) : wanted[i] = wanted[j] => i = j
    /\ \A i \in 1..Len(wanted) :
          Requires(meta, wanted, wanted[i]) \subseteq {wanted[j] : j \in 1..(i - 1)}

Precedes(x, y) == \E a, b \in 1..Len(wanted) : a < b /\ x = wanted[a] /\ y = wanted[b]

\* A request that is complete and in a valid order is left as it is, less the virtual
\* collections: what is yielded (see OutIsSelection) is in the order of the request.
ValidRequestKept ==
    Resolved /\ WellOrdered =>
        \A i, j \in 1..Len(out) : i < j => Precedes(out[i], out[j])

\* The resolver implements the abstract placing of collections.
Topo == INSTANCE TopoOrder WITH
            outcome <- IF phase \in {"scan", "resolve"} THEN "running"
                       ELSE IF Resolved THEN "resolved" ELSE phase

ImplementsTopoOrder == Topo!Spec

\* The resolver ends: both loops run out of work or give up.
Termination == <>(phase \in Ended)
=============================================================================
