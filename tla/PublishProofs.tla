--------------------------- MODULE PublishProofs ---------------------------
(***************************************************************************)
(* Proofs about publishing, for every number of slots, runs, images and    *)
(* seconds.                                                                *)
(***************************************************************************)
EXTENDS Publish, TLAPS

-----------------------------------------------------------------------------
(* What an action does, slot by slot.                                      *)

Publishes(s) == job[s].at \in {"next", "copy", "drop", "unlink", "link"}

\* Image i is still to be moved, or to be linked, by the run of s.
Pending(s, i) == i \in job[s].todo \/ job[s].image = i

\* The run of slot s goes on at a, with T left to do and image i in its hands.
JobMoves(s, a, T, i) ==
    job' = [job EXCEPT ![s] = [at |-> a, run |-> job[s].run, todo |-> T, image |-> i]]

JobEnds(s, how) ==
    /\ job' = [job EXCEPT ![s] = Idle]
    /\ outcome' = [outcome EXCEPT ![job[s].run] = how]

\* A file gets its final name, complete or as the beginning of a copy.
FileWritten(s, i, c) == file' = [file EXCEPT ![i] = [file[i] EXCEPT ![Name(s)] = c]]

Dropped(s, i) == staged' = [staged EXCEPT ![s] = [staged[s] EXCEPT ![i] = NoFile]]

BuildEffect(s) ==
    /\ job[s].at = "build"
    /\ JobMoves(s, "stamp", job[s].todo, job[s].image)
    /\ \E new \in SUBSET Image :
          /\ staged' = [staged EXCEPT ![s] = [i \in Image |->
                 IF i \in new THEN [run |-> job[s].run, whole |-> TRUE] ELSE staged[s][i]]]
          /\ made' = [made EXCEPT ![job[s].run] = new]
    /\ UNCHANGED <<clock, started, published, stamp, outcome, beside>>

BuildEndEffect(s) ==
    /\ job[s].at = "build"
    /\ UNCHANGED <<clock, started, published, stamp, made, beside>>
    /\ \/ /\ JobEnds(s, "stopped")
          /\ \E begun \in SUBSET Image : \E complete \in SUBSET begun :
                staged' = [staged EXCEPT ![s] = Left(s, [i \in Image |->
                    IF i \in begun THEN [run |-> job[s].run, whole |-> i \in complete]
                    ELSE staged[s][i]])]
       \/ /\ JobEnds(s, "done")
          /\ staged' = [staged EXCEPT ![s] = Left(s, staged[s])]

StampEffect(s) ==
    /\ job[s].at = "stamp"
    /\ clock' \in clock..MaxTime
    /\ stamp' = [stamp EXCEPT ![job[s].run] = clock']
    /\ beside' = [beside EXCEPT ![job[s].run] = Publishing]
    /\ JobMoves(s, "next", {i \in Image : staged[s][i] # NoFile}, NoImage)
    /\ UNCHANGED <<started, staged, published, outcome, made>>

RenameEffect(s) ==
    /\ job[s].at = "next"
    /\ \E i \in job[s].todo :
          /\ FileWritten(s, i, staged[s][i])
          /\ Dropped(s, i)
          /\ JobMoves(s, "unlink", job[s].todo \ {i}, i)
    /\ UNCHANGED <<clock, started, link, history>>

StartCopyEffect(s) ==
    /\ job[s].at = "next"
    /\ \E i \in job[s].todo :
          /\ FileWritten(s, i, [run |-> staged[s][i].run, whole |-> FALSE])
          /\ JobMoves(s, "copy", job[s].todo \ {i}, i)
    /\ UNCHANGED <<clock, started, staged, link, history>>

FinishCopyEffect(s) ==
    /\ job[s].at = "copy"
    /\ FileWritten(s, job[s].image, staged[s][job[s].image])
    /\ JobMoves(s, "drop", job[s].todo, job[s].image)
    /\ UNCHANGED <<clock, started, staged, link, history>>

DropEffect(s) ==
    /\ job[s].at = "drop"
    /\ Dropped(s, job[s].image)
    /\ JobMoves(s, "unlink", job[s].todo, job[s].image)
    /\ UNCHANGED <<clock, started, published, history>>

UnlinkEffect(s) ==
    /\ job[s].at = "unlink"
    /\ link' = [link EXCEPT ![job[s].image] = 0]
    /\ JobMoves(s, "link", job[s].todo, job[s].image)
    /\ UNCHANGED <<clock, started, staged, file, history>>

LinkEffect(s) ==
    /\ job[s].at = "link" /\ link[job[s].image] = 0
    /\ link' = [link EXCEPT ![job[s].image] = Name(s)]
    /\ JobMoves(s, "next", job[s].todo, NoImage)
    /\ UNCHANGED <<clock, started, staged, file, history>>

\* The run of s is over after its timestamp or before, with what is staged left.
EndEffect(s) ==
    /\ staged' = [staged EXCEPT ![s] = Left(s, staged[s])]
    /\ UNCHANGED <<clock, started, published, stamp>>
    /\ \/ /\ job[s].at = "next" /\ job[s].todo = {}
          /\ JobEnds(s, "done") /\ UNCHANGED <<made, beside>>
       \/ /\ job[s].at = "stamp" \/ Publishes(s)
          /\ JobEnds(s, "stopped")
          /\ made' = [made EXCEPT ![job[s].run] = {}]
          /\ beside' = [beside EXCEPT ![job[s].run] = {}]

\* A job is the record of its fields, which depend on where it is.
LEMMA JobFields ==
  ASSUME TypeOK, NEW s \in Slot
  PROVE  /\ job[s] = [at |-> job[s].at, run |-> job[s].run,
                      todo |-> job[s].todo, image |-> job[s].image]
         /\ job[s].at \in {"idle", "build", "stamp", "next", "copy", "drop", "unlink", "link"}
         /\ job[s].todo \in SUBSET Image
         /\ job[s].at = "idle" => job[s] = Idle
         /\ job[s].at # "idle" => job[s].run \in 1..started
         /\ job[s].at \in {"build", "stamp", "next"} => job[s].image = NoImage
         /\ job[s].at \in {"copy", "drop", "unlink", "link"} => job[s].image \in Image
  <1>1. job[s] \in JobState
    BY DEF TypeOK
  <1> QED
    BY <1>1 DEF JobState, Idle

LEMMA Effects ==
  ASSUME TypeOK, NEW s \in Slot, Step(s) \/ Fault(s)
  PROVE  \/ BuildEffect(s) \/ BuildEndEffect(s) \/ StampEffect(s)
         \/ RenameEffect(s) \/ StartCopyEffect(s) \/ FinishCopyEffect(s)
         \/ DropEffect(s) \/ UnlinkEffect(s) \/ LinkEffect(s) \/ EndEffect(s)
  <1> DEFINE j == job[s]
  <1>j. /\ j = [at |-> j.at, run |-> j.run, todo |-> j.todo, image |-> j.image]
        /\ j.at \in {"idle", "build", "stamp", "next", "copy", "drop", "unlink", "link"}
        /\ j.at = "next" => j.image = NoImage
    BY JobFields
  <1>f. ASSUME NEW a
        PROVE  [j EXCEPT !.at = a] = [at |-> a, run |-> j.run, todo |-> j.todo, image |-> j.image]
    BY <1>j
  <1>t. /\ job \in [Slot -> JobState] /\ staged \in [Slot -> [Image -> Content]]
        /\ file \in [Image -> [Time -> Content]]
    BY DEF TypeOK
  <1>1. CASE Build(s)
    <2>1. JobMoves(s, "stamp", j.todo, j.image)
      BY <1>j, <1>f, <1>1, Zenon DEF Build, JobMoves
    <2> QED
      BY <1>1, <2>1, Zenon DEF Build, BuildEffect
  <1>2. CASE BuildFails(s)
    BY <1>2 DEF BuildFails, BuildEndEffect, JobEnds
  <1>3. CASE DryRun(s)
    BY <1>3 DEF DryRun, BuildEndEffect, JobEnds
  <1>4. CASE Stop(s)
    BY <1>j, <1>4 DEF Stop, EndEffect, JobEnds, Publishes
  <1>5. CASE Stamp(s)
    BY <1>5, Zenon DEF Stamp, StampEffect, JobMoves
  <1>6. CASE Rename(s)
    BY <1>6, Zenon DEF Rename, RenameEffect, Take, JobMoves, FileWritten, Dropped
  <1>7. CASE StartCopy(s)
    BY <1>7, Zenon DEF StartCopy, StartCopyEffect, Take, JobMoves, FileWritten
  <1>8. CASE FinishCopy(s)
    <2>1. JobMoves(s, "drop", j.todo, j.image)
      BY <1>j, <1>f, <1>8, Zenon DEF FinishCopy, JobMoves
    <2> QED
      BY <1>8, <2>1, Zenon DEF FinishCopy, FinishCopyEffect, FileWritten
  <1>9. CASE DropSource(s)
    <2>1. JobMoves(s, "unlink", j.todo, j.image)
      BY <1>j, <1>f, <1>9, Zenon DEF DropSource, JobMoves
    <2> QED
      BY <1>9, <2>1, Zenon DEF DropSource, DropEffect, Dropped
  <1>10. CASE Unlink(s)
    <2>1. JobMoves(s, "link", j.todo, j.image)
      BY <1>j, <1>f, <1>10, Zenon DEF Unlink, JobMoves
    <2> QED
      BY <1>10, <2>1, Zenon DEF Unlink, UnlinkEffect
  <1>11. CASE Link(s)
    BY <1>11, Zenon DEF Link, LinkEffect, JobMoves
  <1>12. CASE Finish(s)
    BY <1>12 DEF Finish, EndEffect, JobEnds
  <1> QED
    BY <1>1, <1>2, <1>3, <1>4, <1>5, <1>6, <1>7, <1>8, <1>9, <1>10, <1>11, <1>12
       DEF Step, Fault

-----------------------------------------------------------------------------
(* The inductive invariant.                                                *)

\* Each run that has not ended is that of one slot, and takes its timestamp
\* once, after its build.
Runs ==
    /\ \A s \in Slot : job[s].at # "idle" => outcome[job[s].run] = "active"
    /\ \A s, t \in Slot : s # t /\ job[s].at # "idle" => job[s].run # job[t].run
    /\ \A s \in Slot : job[s].at \in {"build", "stamp"} => stamp[job[s].run] = 0
    /\ \A s \in Slot : job[s].at = "build" => made[job[s].run] = {}
    /\ \A s \in Slot : Publishes(s) => stamp[job[s].run] # 0
    /\ \A r \in Run : started < r => stamp[r] = 0 /\ made[r] = {}
    /\ \A r \in Run : stamp[r] <= clock
    /\ \A r \in Run : outcome[r] = "stopped" => made[r] = {}

TInv == TypeOK /\ Runs

\* What is staged is what its run is to move, or what stopped runs left; what is
\* not complete was left by a build that failed.
StagedOk(s, i) ==
    staged[s][i] # NoFile =>
        /\ \/ staged[s][i].run = job[s].run
           \/ s \in Persistent /\ outcome[staged[s][i].run] = "stopped"
        /\ staged[s][i].run \in 1..started
        /\ \/ staged[s][i].whole
           \/ outcome[staged[s][i].run] = "stopped" /\ stamp[staged[s][i].run] = 0
        /\ job[s].at = "build" => staged[s][i].run # job[s].run
        /\ Publishes(s) => Pending(s, i)
        /\ job[s].at \in {"unlink", "link"} => i \in job[s].todo

Staged ==
    /\ \A s \in Slot, i \in Image : StagedOk(s, i)
    /\ \A s \in Slot :
          /\ Publishes(s) => \A i \in job[s].todo : staged[s][i] # NoFile /\ i # job[s].image
          /\ job[s].at \in {"copy", "drop"} => staged[s][job[s].image] # NoFile

\* A file that a link may lead to.
Good(i, t) ==
    /\ file[i][t] # NoFile
    /\ file[i][t].whole \/ Tied(t) \/ stamp[file[i][t].run] # t

FileOk(i, t) ==
    file[i][t] # NoFile =>
        /\ file[i][t].run \in 1..started
        /\ \/ file[i][t].whole
           \/ stamp[file[i][t].run] # 0
           \/ outcome[file[i][t].run] = "stopped"

\* A run has made the link of image i, and is done with that image.
Linked(i) ==
    \E q \in Run : /\ stamp[q] = link[i]
                  /\ \A s \in Slot : job[s].run = q => ~ Pending(s, i)

Links ==
    /\ \A i \in Image, t \in Time : FileOk(i, t)
    /\ \A i \in Image : link[i] # 0 => Good(i, link[i]) /\ Linked(i)
    /\ \A s \in Slot : job[s].at \in {"drop", "unlink", "link"} => Good(job[s].image, Name(s))

Kept(r, i) == file[i][stamp[r]] = [run |-> r, whole |-> TRUE] \/ Tied(stamp[r])

\* What a run has built is staged until it is in place, and stays there.
KeepsOne(s, i) ==
    \/ /\ staged[s][i] = [run |-> job[s].run, whole |-> TRUE]
       /\ \/ job[s].at = "stamp" \/ i \in job[s].todo
          \/ job[s].at = "copy" /\ job[s].image = i
    \/ /\ Publishes(s) /\ i \notin job[s].todo /\ Kept(job[s].run, i)
       /\ job[s].at = "copy" => job[s].image # i

Keeps ==
    /\ \A r \in Run : outcome[r] = "done" =>
          \A i \in made[r] : stamp[r] # 0 /\ Kept(r, i)
    /\ \A s \in Slot : job[s].at # "idle" => \A i \in made[job[s].run] : KeepsOne(s, i)

\* Run r has published image i.
Published(r, i) ==
    /\ i \in made[r] /\ stamp[r] # 0
    /\ \A s \in Slot : job[s].run = r => ~ Pending(s, i)

Lost(i) ==
    \/ \E s \in Slot : job[s].at = "link" /\ job[s].image = i
    \/ \E q \in Run : outcome[q] = "stopped" /\ stamp[q] # 0 /\ file[i][stamp[q]] # NoFile

Misses == \A i \in Image, r \in Run : Published(r, i) /\ link[i] = 0 => Lost(i)

\* An older run that is publishing was doing so when a newer one took its timestamp.
Beside ==
    \A s \in Slot, r \in Run :
        Publishes(s) /\ stamp[job[s].run] < stamp[r] /\ outcome[r] # "stopped" =>
            job[s].run \in beside[r]

Newest ==
    \A i \in Image, r \in Run :
        Published(r, i) /\ link[i] # 0 /\ link[i] < stamp[r] =>
            \E q \in beside[r] : stamp[q] = link[i]

IInv == TInv /\ Staged /\ Links /\ Keeps /\ Misses /\ Beside /\ Newest

-----------------------------------------------------------------------------
(* Types, and which run is where.                                          *)

LEMMA Typed ==
  ASSUME TypeOK
  PROVE  /\ clock \in Nat /\ clock # 0 /\ started \in Nat /\ started <= MaxRuns
         /\ job \in [Slot -> JobState]
         /\ staged \in [Slot -> [Image -> Content]]
         /\ file \in [Image -> [Time -> Content]]
         /\ link \in [Image -> Nat] /\ stamp \in [Run -> Nat]
         /\ outcome \in [Run -> {"none", "active", "stopped", "done"}]
         /\ made \in [Run -> SUBSET Image] /\ beside \in [Run -> SUBSET Run]
         /\ MaxRuns \in Nat /\ MaxTime \in Nat
         /\ Run \subseteq Nat /\ Time \subseteq Nat /\ 0 \notin Run /\ 0 \notin Time
         /\ 1..started \subseteq Run
  BY BoundAssumption DEF TypeOK, Run, Time

LEMMA JobTyped ==
  ASSUME TypeOK, NEW s \in Slot, NEW rec \in JobState',
         started' \in Nat, started <= started',
         job' = [job EXCEPT ![s] = rec]
  PROVE  job' \in [Slot -> JobState']
  <1>1. 1..started \subseteq 1..started'
    BY Typed
  <1>2. JobState \subseteq JobState'
    BY <1>1 DEF JobState
  <1> QED
    BY <1>2, Typed, Zenon

LEMMA TypeStep == TypeOK /\ [Next]_vars => TypeOK'
  <1> SUFFICES ASSUME TypeOK, [Next]_vars PROVE TypeOK'
    OBVIOUS
  <1> USE Typed
  <1>0. CASE UNCHANGED vars
    BY <1>0 DEF vars, TypeOK, JobState
  <1>1. ASSUME NEW s \in Slot, Start(s) PROVE TypeOK'
    <2>1. started' \in 0..MaxRuns /\ started <= started' /\ started + 1 \in Run
      BY <1>1 DEF Start, Run
    <2>2. job' \in [Slot -> JobState']
      <3>1. [at |-> "build", run |-> started + 1, todo |-> {}, image |-> NoImage] \in JobState'
        BY <1>1, <2>1 DEF Start, JobState
      <3> QED
        BY <1>1, <2>1, <3>1, JobTyped, Zenon DEF Start
    <2> QED
      BY <1>1, <2>1, <2>2 DEF Start, TypeOK, published
  <1>2. ASSUME NEW s \in Slot, Step(s) \/ Fault(s) PROVE TypeOK'
    <2> DEFINE r == job[s].run
    <2>r. job[s].at # "idle" => r \in Run /\ r \in 1..started
      BY JobFields
    <2>j. ASSUME NEW a, NEW T \in SUBSET Image, NEW i, JobMoves(s, a, T, i), job[s].at # "idle",
                 \/ a \in {"build", "stamp", "next"} /\ i = NoImage
                 \/ a \in {"copy", "drop", "unlink", "link"} /\ i \in Image,
                 started' = started
          PROVE  job' \in [Slot -> JobState']
      <3>1. [at |-> a, run |-> r, todo |-> T, image |-> i] \in JobState'
        BY <2>r, <2>j DEF JobState
      <3>2. started' \in Nat /\ started <= started'
        BY <2>j
      <3> QED
        BY <2>j, <3>1, <3>2, JobTyped, Zenon DEF JobMoves
    <2>e. ASSUME NEW how \in {"stopped", "done"}, JobEnds(s, how), job[s].at # "idle", started' = started
          PROVE  /\ job' \in [Slot -> JobState']
                 /\ outcome' \in [Run -> {"none", "active", "stopped", "done"}]
      <3>1. Idle \in JobState'
        BY DEF JobState
      <3>2. started' \in Nat /\ started <= started'
        BY <2>e
      <3>3. job' \in [Slot -> JobState']
        BY <2>e, <3>1, <3>2, JobTyped, Zenon DEF JobEnds
      <3> QED
        BY <2>e, <2>r, <3>3 DEF JobEnds
    <2>c. /\ NoFile \in Content
          /\ \A f \in [Image -> Content] : Left(s, f) \in [Image -> Content]
          /\ \A w \in BOOLEAN : job[s].at # "idle" => [run |-> r, whole |-> w] \in Content
          /\ \A i \in Image, w \in BOOLEAN : [run |-> staged[s][i].run, whole |-> w] \in Content
      BY <2>r DEF Content, NoFile, Left, Run
    <2>f. ASSUME NEW i \in Image, NEW c \in Content, FileWritten(s, i, c)
          PROVE  file' \in [Image -> [Time -> Content]]
      BY <2>f, Zenon DEF FileWritten
    <2>d. ASSUME NEW i \in Image, Dropped(s, i)
          PROVE  staged' \in [Slot -> [Image -> Content]]
      BY <2>c, <2>d, Zenon DEF Dropped
    <2>1. CASE BuildEffect(s)
      <3>1. job' \in [Slot -> JobState']
        BY <2>1, <2>j, JobFields DEF BuildEffect
      <3>2. PICK new \in SUBSET Image :
          /\ staged' = [staged EXCEPT ![s] = [i \in Image |->
                 IF i \in new THEN [run |-> r, whole |-> TRUE] ELSE staged[s][i]]]
          /\ made' = [made EXCEPT ![r] = new]
        BY <2>1, Zenon DEF BuildEffect
      <3>3. [i \in Image |-> IF i \in new THEN [run |-> r, whole |-> TRUE] ELSE staged[s][i]]
                \in [Image -> Content]
        <4>1. /\ [run |-> r, whole |-> TRUE] \in Content
              /\ \A i \in Image : staged[s][i] \in Content
          <5>1. job[s].at # "idle"
            BY <2>1 DEF BuildEffect
          <5>2. [run |-> r, whole |-> TRUE] \in Content
            BY <5>1, <2>c, Zenon
          <5>3. staged \in [Slot -> [Image -> Content]]
            BY Typed
          <5>4. \A i \in Image : staged[s][i] \in Content
            BY <5>3
          <5> QED
            BY <5>2, <5>4, Zenon
        <4> QED
          BY <4>1
      <3>4. staged' \in [Slot -> [Image -> Content]] /\ made' \in [Run -> SUBSET Image]
        BY <2>1, <2>r, <3>2, <3>3, Zenon DEF BuildEffect
      <3> QED
        BY <2>1, <3>1, <3>4 DEF BuildEffect, TypeOK, published
    <2>2. CASE BuildEndEffect(s)
      <3>1. /\ job' \in [Slot -> JobState']
            /\ outcome' \in [Run -> {"none", "active", "stopped", "done"}]
        BY <2>2, <2>e DEF BuildEndEffect
      <3>2. staged' \in [Slot -> [Image -> Content]]
        <4>1. CASE staged' = [staged EXCEPT ![s] = Left(s, staged[s])]
          BY <4>1, <2>c
        <4>2. ASSUME NEW begun \in SUBSET Image, NEW complete \in SUBSET begun,
                staged' = [staged EXCEPT ![s] = Left(s, [i \in Image |->
                    IF i \in begun THEN [run |-> job[s].run, whole |-> i \in complete]
                    ELSE staged[s][i]])]
              PROVE staged' \in [Slot -> [Image -> Content]]
          <5> DEFINE f == [i \in Image |->
                    IF i \in begun THEN [run |-> job[s].run, whole |-> i \in complete]
                    ELSE staged[s][i]]
          <5>1. f \in [Image -> Content]
            <6>1. ASSUME NEW i \in Image
                  PROVE  /\ [run |-> r, whole |-> i \in complete] \in Content
                         /\ staged[s][i] \in Content
              <7>1. job[s].at # "idle"
                BY <2>2 DEF BuildEndEffect
              <7>2. (i \in complete) = TRUE \/ (i \in complete) = FALSE
                OBVIOUS
              <7>3. \A w \in BOOLEAN : [run |-> r, whole |-> w] \in Content
                BY <7>1, <2>c
              <7>4. [run |-> r, whole |-> i \in complete] \in Content
                BY <7>2, <7>3, Zenon
              <7>5. staged[s][i] \in Content
                BY Typed
              <7> QED
                BY <7>4, <7>5, Zenon
            <6> QED
              BY <6>1
          <5> HIDE DEF f
          <5> QED
            BY <4>2, <5>1, <2>c, Zenon DEF f
        <4> QED
          BY <2>2, <4>1, <4>2 DEF BuildEndEffect
      <3> QED
        BY <2>2, <3>1, <3>2 DEF BuildEndEffect, TypeOK, published
    <2>3. CASE StampEffect(s)
      <3>1. job' \in [Slot -> JobState']
        BY <2>3, <2>j, JobFields DEF StampEffect
      <3>2. clock' \in Time
        BY <2>3 DEF StampEffect, Time
      <3>3. Publishing \subseteq Run
        BY JobFields DEF Publishing
      <3> QED
        BY <2>3, <2>r, <3>1, <3>2, <3>3, SMTT(40) DEF StampEffect, TypeOK, published, Time
    <2>4. CASE RenameEffect(s)
      <3>1. PICK i \in job[s].todo : /\ FileWritten(s, i, staged[s][i]) /\ Dropped(s, i)
                                     /\ JobMoves(s, "unlink", job[s].todo \ {i}, i)
        BY <2>4 DEF RenameEffect
      <3>2. i \in Image
        BY JobFields
      <3>3. job' \in [Slot -> JobState']
        BY <2>4, <2>j, <3>1, <3>2, JobFields DEF RenameEffect
      <3> QED
        BY <2>4, <2>d, <2>f, <3>1, <3>2, <3>3 DEF RenameEffect, TypeOK, history
    <2>5. CASE StartCopyEffect(s)
      <3>1. PICK i \in job[s].todo : /\ FileWritten(s, i, [run |-> staged[s][i].run, whole |-> FALSE])
                                     /\ JobMoves(s, "copy", job[s].todo \ {i}, i)
        BY <2>5 DEF StartCopyEffect
      <3>2. i \in Image
        BY JobFields
      <3>3. job' \in [Slot -> JobState']
        BY <2>5, <2>j, <3>1, <3>2, JobFields DEF StartCopyEffect
      <3> QED
        BY <2>5, <2>c, <2>f, <3>1, <3>2, <3>3 DEF StartCopyEffect, TypeOK, history
    <2>6. CASE FinishCopyEffect(s)
      <3>1. job' \in [Slot -> JobState']
        BY <2>6, <2>j, JobFields DEF FinishCopyEffect
      <3> QED
        BY <2>6, <2>f, <3>1, JobFields DEF FinishCopyEffect, TypeOK, history
    <2>7. CASE DropEffect(s)
      <3>1. job' \in [Slot -> JobState']
        BY <2>7, <2>j, JobFields DEF DropEffect
      <3> QED
        BY <2>7, <2>d, <3>1, JobFields DEF DropEffect, TypeOK, published, history
    <2>8. CASE UnlinkEffect(s)
      <3>1. job' \in [Slot -> JobState']
        BY <2>8, <2>j, JobFields DEF UnlinkEffect
      <3>2. link' \in [Image -> 0..MaxTime]
        <4>1. link \in [Image -> 0..MaxTime] /\ 0 \in 0..MaxTime
          BY DEF TypeOK
        <4> QED
          BY <2>8, <4>1 DEF UnlinkEffect
      <3> QED
        BY <2>8, <3>1, <3>2 DEF UnlinkEffect, TypeOK, history
    <2>9. CASE LinkEffect(s)
      <3>1. job' \in [Slot -> JobState']
        BY <2>9, <2>j, JobFields DEF LinkEffect
      <3>2. Name(s) \in 0..MaxTime
        BY <2>9, <2>r DEF LinkEffect, Name, TypeOK
      <3> QED
        BY <2>9, <3>1, <3>2 DEF LinkEffect, TypeOK, history
    <2>10. CASE EndEffect(s)
      <3>1. /\ job' \in [Slot -> JobState']
            /\ outcome' \in [Run -> {"none", "active", "stopped", "done"}]
        BY <2>10, <2>e DEF EndEffect, Publishes
      <3>2. staged' \in [Slot -> [Image -> Content]]
        BY <2>10, <2>c DEF EndEffect
      <3> QED
        BY <2>10, <3>1, <3>2 DEF EndEffect, TypeOK, published
    <2> QED
      BY <1>2, <2>1, <2>2, <2>3, <2>4, <2>5, <2>6, <2>7, <2>8, <2>9, <2>10, Effects
  <1> QED
    BY <1>0, <1>1, <1>2 DEF Next

\* A step that moves or links an image changes only the job of its slot, and files.
Moves(s) ==
    /\ Publishes(s) /\ Publishes(s)'
    /\ job'[s].run = job[s].run /\ \A t \in Slot \ {s} : job'[t] = job[t]
    /\ UNCHANGED <<clock, started, stamp, outcome, made, beside>>

MoveEffect(s) ==
    \/ RenameEffect(s) \/ StartCopyEffect(s) \/ FinishCopyEffect(s)
    \/ DropEffect(s) \/ UnlinkEffect(s) \/ LinkEffect(s)

LEMMA MovesOnly ==
  ASSUME TypeOK, NEW s \in Slot, MoveEffect(s)
  PROVE  Moves(s)
  <1> USE Typed DEF Publishes, JobMoves, Moves, history
  <1>1. CASE RenameEffect(s)
    BY <1>1 DEF RenameEffect
  <1>2. CASE StartCopyEffect(s)
    BY <1>2 DEF StartCopyEffect
  <1>3. CASE FinishCopyEffect(s)
    BY <1>3 DEF FinishCopyEffect
  <1>4. CASE DropEffect(s)
    BY <1>4 DEF DropEffect, published
  <1>5. CASE UnlinkEffect(s)
    BY <1>5 DEF UnlinkEffect
  <1>6. CASE LinkEffect(s)
    BY <1>6 DEF LinkEffect
  <1> QED
    BY <1>1, <1>2, <1>3, <1>4, <1>5, <1>6 DEF MoveEffect

StartEffect(s) ==
    /\ job[s].at = "idle" /\ started + 1 \in Run
    /\ started' = started + 1
    /\ job' = [job EXCEPT ![s] = [at |-> "build", run |-> started + 1,
                                   todo |-> {}, image |-> NoImage]]
    /\ outcome' = [outcome EXCEPT ![started + 1] = "active"]
    /\ UNCHANGED <<clock, staged, published, stamp, made, beside>>

LEMMA StepShape ==
  ASSUME TypeOK, Next
  PROVE  \E s \in Slot : \/ StartEffect(s) \/ BuildEffect(s) \/ BuildEndEffect(s)
                         \/ StampEffect(s) \/ MoveEffect(s) \/ EndEffect(s)
  <1>1. PICK s \in Slot : Start(s) \/ Step(s) \/ Fault(s)
    BY DEF Next
  <1>2. CASE Start(s)
    <2>1. started + 1 \in Run
      BY <1>2, Typed DEF Start, Run
    <2> QED
      BY <1>2, <2>1 DEF Start, StartEffect
  <1>3. CASE Step(s) \/ Fault(s)
    BY <1>3, Effects DEF MoveEffect
  <1> QED
    BY <1>1, <1>2, <1>3

LEMMA RunsStep == TInv /\ [Next]_vars => TInv'
  <1> SUFFICES ASSUME TypeOK, Runs, [Next]_vars PROVE Runs'
    BY TypeStep DEF TInv
  <1> USE Typed, JobFields
  <1>0. CASE UNCHANGED vars
    BY <1>0 DEF vars, Runs, Publishes
  <1>1. ASSUME NEW s \in Slot, StartEffect(s) PROVE Runs'
    <2>1. /\ job'[s].at = "build" /\ job'[s].run = started + 1
          /\ \A t \in Slot \ {s} : job'[t] = job[t]
          /\ started' = started + 1 /\ started + 1 \in Run
          /\ \A r \in Run : outcome'[r] = IF r = started + 1 THEN "active" ELSE outcome[r]
          /\ UNCHANGED <<stamp, made, clock>>
      BY <1>1 DEF StartEffect
    <2>2. \A t \in Slot : job[t].at # "idle" => job[t].run # started + 1 /\ job[t].run \in Run
      BY DEF Run
    <2>3. stamp[started + 1] = 0 /\ made[started + 1] = {}
      BY <2>1 DEF Runs
    <2>4. \A r \in Run : started' < r => stamp'[r] = 0 /\ made'[r] = {}
      BY <2>1 DEF Runs
    <2>5. \A r \in Run : stamp'[r] <= clock' /\ (outcome'[r] = "stopped" => made'[r] = {})
      BY <2>1 DEF Runs
    <2>6. \A t, u \in Slot : t # u /\ job'[t].at # "idle" => job'[t].run # job'[u].run
      <3>1. \A t \in Slot \ {s} : job[t].run # started + 1
        BY <2>2 DEF Idle
      <3>2. \A t, u \in Slot \ {s} : t # u /\ job'[t].at # "idle" => job'[t].run # job'[u].run
        BY <2>1 DEF Runs
      <3> QED
        BY <2>1, <3>1, <3>2
    <2>7. \A t \in Slot \ {s} :
             /\ job'[t].at # "idle" => outcome'[job'[t].run] = "active"
             /\ job'[t].at \in {"build", "stamp"} => stamp'[job'[t].run] = 0
             /\ job'[t].at = "build" => made'[job'[t].run] = {}
             /\ Publishes(t)' => stamp'[job'[t].run] # 0
      BY <2>1, <2>2 DEF Runs, Publishes
    <2>8. /\ outcome'[job'[s].run] = "active" /\ stamp'[job'[s].run] = 0
          /\ made'[job'[s].run] = {} /\ ~ Publishes(s)'
      BY <2>1, <2>3 DEF Publishes
    <2> QED
      BY <2>1, <2>4, <2>5, <2>6, <2>7, <2>8, Zenon DEF Runs
  <1>2. ASSUME NEW s \in Slot, BuildEffect(s) PROVE Runs'
    BY <1>2 DEF Runs, Publishes, BuildEffect, JobMoves
  <1>3. ASSUME NEW s \in Slot, BuildEndEffect(s) PROVE Runs'
    <2>1. /\ job'[s].at = "idle" /\ job'[s].run = 0
          /\ \A t \in Slot \ {s} : job'[t] = job[t]
          /\ job[s].at # "idle" /\ job[s].run \in Run
          /\ \A r \in Run \ {job[s].run} : outcome'[r] = outcome[r] /\ made'[r] = made[r]
          /\ outcome'[job[s].run] = "stopped" => made'[job[s].run] = {}
          /\ made'[job[s].run] \in {{}, made[job[s].run]}
          /\ UNCHANGED <<started, stamp, clock>>
      BY <1>3 DEF BuildEndEffect, JobEnds, Idle, Runs, Publishes
    <2>2. \A t \in Slot \ {s} : job[t].at # "idle" =>
             job[t].run # job[s].run /\ job[t].run \in Run
      BY <2>1 DEF Runs
    <2>3. \A r \in Run : /\ started' < r => stamp'[r] = 0 /\ made'[r] = {}
                         /\ stamp'[r] <= clock' /\ (outcome'[r] = "stopped" => made'[r] = {})
      BY <2>1 DEF Runs
    <2>4. \A t, u \in Slot : t # u /\ job'[t].at # "idle" => job'[t].run # job'[u].run
      BY <2>1, SMTT(40) DEF Runs
    <2>5. \A t \in Slot \ {s} :
             /\ job'[t].at # "idle" => outcome'[job'[t].run] = "active"
             /\ job'[t].at \in {"build", "stamp"} => stamp'[job'[t].run] = 0
             /\ job'[t].at = "build" => made'[job'[t].run] = {}
             /\ Publishes(t)' => stamp'[job'[t].run] # 0
      BY <2>1, <2>2 DEF Runs, Publishes
    <2>6. job'[s].at \notin {"build", "stamp"} /\ ~ Publishes(s)'
      BY <2>1 DEF Publishes
    <2> QED
      BY <2>1, <2>3, <2>4, <2>5, <2>6, Zenon DEF Runs
  <1>4. ASSUME NEW s \in Slot, StampEffect(s) PROVE Runs'
    BY <1>4 DEF Runs, Publishes, StampEffect, JobMoves
  <1>5. ASSUME NEW s \in Slot, MoveEffect(s) PROVE Runs'
    <2>1. Moves(s)
      BY <1>5, MovesOnly
    <2>2. /\ \A t \in Slot : job'[t].run = job[t].run
          /\ \A t \in Slot : job'[t].at = "idle" <=> job[t].at = "idle"
          /\ \A t \in Slot : job'[t].at = "build" <=> job[t].at = "build"
          /\ \A t \in Slot : job'[t].at = "stamp" <=> job[t].at = "stamp"
          /\ \A t \in Slot : Publishes(t)' <=> Publishes(t)
      BY <2>1 DEF Moves, Publishes
    <2> QED
      BY <2>1, <2>2 DEF Runs, Moves
  <1>6. ASSUME NEW s \in Slot, EndEffect(s) PROVE Runs'
    <2>1. /\ job'[s].at = "idle" /\ job'[s].run = 0
          /\ \A t \in Slot \ {s} : job'[t] = job[t]
          /\ job[s].at # "idle" /\ job[s].run \in Run
          /\ \A r \in Run \ {job[s].run} : outcome'[r] = outcome[r] /\ made'[r] = made[r]
          /\ outcome'[job[s].run] = "stopped" => made'[job[s].run] = {}
          /\ made'[job[s].run] \in {{}, made[job[s].run]}
          /\ UNCHANGED <<started, stamp, clock>>
      BY <1>6 DEF EndEffect, JobEnds, Idle, Runs, Publishes
    <2>2. \A t \in Slot \ {s} : job[t].at # "idle" =>
             job[t].run # job[s].run /\ job[t].run \in Run
      BY <2>1 DEF Runs
    <2>3. \A r \in Run : /\ started' < r => stamp'[r] = 0 /\ made'[r] = {}
                         /\ stamp'[r] <= clock' /\ (outcome'[r] = "stopped" => made'[r] = {})
      BY <2>1 DEF Runs
    <2>4. \A t, u \in Slot : t # u /\ job'[t].at # "idle" => job'[t].run # job'[u].run
      BY <2>1, SMTT(40) DEF Runs
    <2>5. \A t \in Slot \ {s} :
             /\ job'[t].at # "idle" => outcome'[job'[t].run] = "active"
             /\ job'[t].at \in {"build", "stamp"} => stamp'[job'[t].run] = 0
             /\ job'[t].at = "build" => made'[job'[t].run] = {}
             /\ Publishes(t)' => stamp'[job'[t].run] # 0
      BY <2>1, <2>2 DEF Runs, Publishes
    <2>6. job'[s].at \notin {"build", "stamp"} /\ ~ Publishes(s)'
      BY <2>1 DEF Publishes
    <2> QED
      BY <2>1, <2>3, <2>4, <2>5, <2>6, Zenon DEF Runs
  <1> QED
    BY StepShape, <1>0, <1>1, <1>2, <1>3, <1>4, <1>5, <1>6

-----------------------------------------------------------------------------
(* What each step does to single slots, images, files and runs.            *)

JobIs(s, a, r, T, i) ==
    /\ job'[s].at = a /\ job'[s].run = r /\ job'[s].todo = T /\ job'[s].image = i
    /\ \A t \in Slot \ {s} : job'[t] = job[t]

OtherStaged(s) == \A t \in Slot \ {s} : staged'[t] = staged[t]

FileIs(i, t, c) ==
    \A k \in Image, u \in Time : file'[k][u] = IF k = i /\ u = t THEN c ELSE file[k][u]

StagedWithout(s, i) ==
    \A k \in Image : staged'[s][k] = IF k = i THEN NoFile ELSE staged[s][k]

StartDoes(s) ==
    /\ job[s] = Idle /\ JobIs(s, "build", started + 1, {}, NoImage)
    /\ started' = started + 1 /\ started' \in Run
    /\ \A r \in Run : outcome'[r] = IF r = started' THEN "active" ELSE outcome[r]
    /\ UNCHANGED <<clock, staged, file, link, stamp, made, beside>>

BuildDoes(s) ==
    /\ job[s].at = "build" /\ JobIs(s, "stamp", job[s].run, job[s].todo, NoImage)
    /\ \A i \in Image : staged'[s][i] = IF i \in made'[job[s].run]
                                        THEN [run |-> job[s].run, whole |-> TRUE] ELSE staged[s][i]
    /\ OtherStaged(s)
    /\ \A r \in Run \ {job[s].run} : made'[r] = made[r]
    /\ UNCHANGED <<clock, started, file, link, stamp, outcome, beside>>

BuildEndDoes(s) ==
    /\ job[s].at = "build" /\ JobIs(s, "idle", 0, {}, NoImage)
    /\ \A i \in Image : \/ staged'[s][i] = NoFile
                        \/ /\ s \in Persistent
                           /\ \/ staged'[s][i] = staged[s][i]
                              \/ /\ staged'[s][i].run = job[s].run
                                 /\ outcome'[job[s].run] = "stopped"
    /\ OtherStaged(s)
    /\ outcome'[job[s].run] \in {"stopped", "done"}
    /\ \A r \in Run \ {job[s].run} : outcome'[r] = outcome[r]
    /\ UNCHANGED <<clock, started, file, link, stamp, made, beside>>

StampDoes(s) ==
    /\ job[s].at = "stamp"
    /\ JobIs(s, "next", job[s].run, {i \in Image : staged[s][i] # NoFile}, NoImage)
    /\ clock' \in Time /\ clock <= clock'
    /\ \A r \in Run : /\ stamp'[r] = IF r = job[s].run THEN clock' ELSE stamp[r]
                      /\ beside'[r] = IF r = job[s].run THEN Publishing ELSE beside[r]
    /\ UNCHANGED <<started, staged, file, link, outcome, made>>

RenameDoes(s, i) ==
    /\ job[s].at = "next" /\ i \in job[s].todo
    /\ JobIs(s, "unlink", job[s].run, job[s].todo \ {i}, i)
    /\ FileIs(i, Name(s), staged[s][i])
    /\ StagedWithout(s, i) /\ OtherStaged(s)
    /\ UNCHANGED <<clock, started, link, stamp, outcome, made, beside>>

StartCopyDoes(s, i) ==
    /\ job[s].at = "next" /\ i \in job[s].todo
    /\ JobIs(s, "copy", job[s].run, job[s].todo \ {i}, i)
    /\ FileIs(i, Name(s), [run |-> staged[s][i].run, whole |-> FALSE])
    /\ UNCHANGED <<clock, started, staged, link, stamp, outcome, made, beside>>

FinishCopyDoes(s, i) ==
    /\ job[s].at = "copy" /\ i = job[s].image
    /\ JobIs(s, "drop", job[s].run, job[s].todo, i)
    /\ FileIs(i, Name(s), staged[s][i])
    /\ UNCHANGED <<clock, started, staged, link, stamp, outcome, made, beside>>

DropDoes(s, i) ==
    /\ job[s].at = "drop" /\ i = job[s].image
    /\ JobIs(s, "unlink", job[s].run, job[s].todo, i)
    /\ StagedWithout(s, i) /\ OtherStaged(s)
    /\ UNCHANGED <<clock, started, file, link, stamp, outcome, made, beside>>

UnlinkDoes(s, i) ==
    /\ job[s].at = "unlink" /\ i = job[s].image
    /\ JobIs(s, "link", job[s].run, job[s].todo, i)
    /\ \A k \in Image : link'[k] = IF k = i THEN 0 ELSE link[k]
    /\ UNCHANGED <<clock, started, staged, file, stamp, outcome, made, beside>>

LinkDoes(s, i) ==
    /\ job[s].at = "link" /\ i = job[s].image /\ link[i] = 0
    /\ JobIs(s, "next", job[s].run, job[s].todo, NoImage)
    /\ \A k \in Image : link'[k] = IF k = i THEN Name(s) ELSE link[k]
    /\ UNCHANGED <<clock, started, staged, file, stamp, outcome, made, beside>>

FinishDoes(s) ==
    /\ job[s].at = "next" /\ job[s].todo = {} /\ JobIs(s, "idle", 0, {}, NoImage)
    /\ \A i \in Image : staged'[s][i] = NoFile \/ (s \in Persistent /\ staged'[s][i] = staged[s][i])
    /\ OtherStaged(s)
    /\ \A r \in Run : outcome'[r] = IF r = job[s].run THEN "done" ELSE outcome[r]
    /\ UNCHANGED <<clock, started, file, link, stamp, made, beside>>

StopDoes(s) ==
    /\ job[s].at = "stamp" \/ Publishes(s)
    /\ JobIs(s, "idle", 0, {}, NoImage)
    /\ \A i \in Image : staged'[s][i] = NoFile \/ (s \in Persistent /\ staged'[s][i] = staged[s][i])
    /\ OtherStaged(s)
    /\ \A r \in Run : /\ outcome'[r] = IF r = job[s].run THEN "stopped" ELSE outcome[r]
                      /\ made'[r] = IF r = job[s].run THEN {} ELSE made[r]
                      /\ beside'[r] = IF r = job[s].run THEN {} ELSE beside[r]
    /\ UNCHANGED <<clock, started, file, link, stamp>>

StepDoes(s) ==
    \/ StartDoes(s) \/ BuildDoes(s) \/ BuildEndDoes(s) \/ StampDoes(s)
    \/ \E i \in Image : \/ RenameDoes(s, i) \/ StartCopyDoes(s, i) \/ FinishCopyDoes(s, i)
                        \/ DropDoes(s, i) \/ UnlinkDoes(s, i) \/ LinkDoes(s, i)
    \/ FinishDoes(s) \/ StopDoes(s)

LEMMA LeftOver ==
  ASSUME NEW s, NEW f, NEW i \in Image
  PROVE  Left(s, f)[i] = NoFile \/ (s \in Persistent /\ Left(s, f)[i] = f[i])
  <1>1. CASE s \in Persistent
    BY <1>1 DEF Left
  <1>2. CASE s \notin Persistent
    <2>1. Left(s, f) = [k \in Image |-> NoFile]
      BY <1>2 DEF Left
    <2>2. Left(s, f)[i] = NoFile
      BY <2>1
    <2> QED
      BY <2>2
  <1> QED
    BY <1>1, <1>2

LEMMA StepPoints ==
  ASSUME TInv, Next
  PROVE  \E s \in Slot : StepDoes(s)
  <1>1. PICK s \in Slot : \/ StartEffect(s) \/ BuildEffect(s) \/ BuildEndEffect(s)
                         \/ StampEffect(s) \/ MoveEffect(s) \/ EndEffect(s)
    BY StepShape DEF TInv
  <1> USE Typed, JobFields DEF TInv
  <1>r. job[s].at # "idle" => job[s].run \in Run
    OBVIOUS
  <1>n. Publishes(s) => Name(s) \in Time
    BY <1>r DEF Publishes, Name, Runs, Time, TypeOK
  <1>m. ASSUME NEW a, NEW T, NEW i, JobMoves(s, a, T, i) PROVE JobIs(s, a, job[s].run, T, i)
    BY <1>m DEF JobMoves, JobIs
  <1>e. ASSUME NEW how, JobEnds(s, how), job[s].at # "idle"
        PROVE  /\ JobIs(s, "idle", 0, {}, NoImage)
               /\ \A r \in Run : outcome'[r] = IF r = job[s].run THEN how ELSE outcome[r]
    BY <1>e, <1>r DEF JobEnds, JobIs, Idle
  <1>f. ASSUME NEW i \in Image, NEW c, FileWritten(s, i, c), Publishes(s) PROVE FileIs(i, Name(s), c)
    BY <1>f, <1>n DEF FileWritten, FileIs
  <1>d. ASSUME NEW i \in Image, Dropped(s, i) PROVE StagedWithout(s, i) /\ OtherStaged(s)
    BY <1>d DEF Dropped, StagedWithout, OtherStaged
  <1>2. CASE StartEffect(s)
    BY <1>2 DEF StartEffect, StepDoes, StartDoes, JobIs, published
  <1>3. CASE BuildEffect(s)
    <2>1. BuildDoes(s)
      BY <1>3, <1>r, <1>m DEF BuildEffect, BuildDoes, OtherStaged, published
    <2> QED
      BY <2>1 DEF StepDoes
  <1>4. CASE BuildEndEffect(s)
    <2>1. \A i \in Image : \/ staged'[s][i] = NoFile
                          \/ /\ s \in Persistent
                             /\ \/ staged'[s][i] = staged[s][i]
                                \/ /\ staged'[s][i].run = job[s].run
                                   /\ outcome'[job[s].run] = "stopped"
      BY <1>4, <1>r, <1>e DEF BuildEndEffect, Left
    <2>2. OtherStaged(s)
      <3>1. \E f : staged' = [staged EXCEPT ![s] = f]
        BY <1>4, Zenon DEF BuildEndEffect
      <3> QED
        BY <3>1 DEF OtherStaged
    <2>3. job[s].at = "build" /\ \E how \in {"stopped", "done"} : JobEnds(s, how)
      BY <1>4, Zenon DEF BuildEndEffect
    <2>4. /\ JobIs(s, "idle", 0, {}, NoImage)
          /\ outcome'[job[s].run] \in {"stopped", "done"}
          /\ \A r \in Run \ {job[s].run} : outcome'[r] = outcome[r]
      BY <1>e, <1>r, <2>3
    <2>5. UNCHANGED <<clock, started, file, link, stamp, made, beside>>
      BY <1>4 DEF BuildEndEffect, published
    <2>6. BuildEndDoes(s)
      BY <2>1, <2>2, <2>3, <2>4, <2>5, Zenon DEF BuildEndDoes
    <2> QED
      BY <2>6 DEF StepDoes
  <1>5. CASE StampEffect(s)
    <2>1. StampDoes(s)
      BY <1>5, <1>r, <1>m DEF StampEffect, StampDoes, published, Time
    <2> QED
      BY <2>1 DEF StepDoes
  <1>6. CASE RenameEffect(s)
    <2>1. PICK i \in job[s].todo : /\ FileWritten(s, i, staged[s][i]) /\ Dropped(s, i)
                                   /\ JobMoves(s, "unlink", job[s].todo \ {i}, i)
      BY <1>6 DEF RenameEffect
    <2>2. RenameDoes(s, i)
      BY <1>6, <1>m, <1>f, <1>d, <2>1 DEF RenameEffect, RenameDoes, history, Publishes
    <2> QED
      BY <2>1, <2>2 DEF StepDoes
  <1>7. CASE StartCopyEffect(s)
    <2>1. PICK i \in job[s].todo : /\ FileWritten(s, i, [run |-> staged[s][i].run, whole |-> FALSE])
                                   /\ JobMoves(s, "copy", job[s].todo \ {i}, i)
      BY <1>7 DEF StartCopyEffect
    <2>2. StartCopyDoes(s, i)
      BY <1>7, <1>m, <1>f, <2>1 DEF StartCopyEffect, StartCopyDoes, history, Publishes
    <2> QED
      BY <2>1, <2>2 DEF StepDoes
  <1>8. CASE FinishCopyEffect(s)
    <2>1. FinishCopyDoes(s, job[s].image)
      BY <1>8, <1>m, <1>f DEF FinishCopyEffect, FinishCopyDoes, history, Publishes
    <2> QED
      BY <1>8, <2>1 DEF StepDoes, FinishCopyEffect
  <1>9. CASE DropEffect(s)
    <2>1. DropDoes(s, job[s].image)
      BY <1>9, <1>m, <1>d DEF DropEffect, DropDoes, history, published
    <2> QED
      BY <1>9, <2>1 DEF StepDoes, DropEffect
  <1>10. CASE UnlinkEffect(s)
    <2>1. UnlinkDoes(s, job[s].image)
      BY <1>10, <1>m DEF UnlinkEffect, UnlinkDoes, history
    <2> QED
      BY <1>10, <2>1 DEF StepDoes, UnlinkEffect
  <1>11. CASE LinkEffect(s)
    <2>1. LinkDoes(s, job[s].image)
      BY <1>11, <1>m DEF LinkEffect, LinkDoes, history
    <2> QED
      BY <1>11, <2>1 DEF StepDoes, LinkEffect
  <1>12. CASE EndEffect(s)
    <2>1. /\ \A i \in Image : staged'[s][i] = NoFile \/ (s \in Persistent /\ staged'[s][i] = staged[s][i])
          /\ OtherStaged(s)
      <3>1. staged' = [staged EXCEPT ![s] = Left(s, staged[s])]
        BY <1>12 DEF EndEffect
      <3>2. /\ staged'[s] = Left(s, staged[s])
            /\ \A t \in Slot \ {s} : staged'[t] = staged[t]
        BY <3>1
      <3>3. \A i \in Image : \/ Left(s, staged[s])[i] = NoFile
                            \/ (s \in Persistent /\ Left(s, staged[s])[i] = staged[s][i])
        BY LeftOver
      <3> QED
        BY <3>2, <3>3 DEF OtherStaged
    <2>2. UNCHANGED <<clock, started, file, link, stamp>>
      BY <1>12 DEF EndEffect, published
    <2>3. CASE /\ job[s].at = "next" /\ job[s].todo = {}
               /\ JobEnds(s, "done") /\ UNCHANGED <<made, beside>>
      <3>1. FinishDoes(s)
        BY <1>e, <2>1, <2>2, <2>3 DEF FinishDoes
      <3> QED
        BY <3>1 DEF StepDoes
    <2>4. CASE /\ job[s].at = "stamp" \/ Publishes(s)
               /\ JobEnds(s, "stopped")
               /\ made' = [made EXCEPT ![job[s].run] = {}]
               /\ beside' = [beside EXCEPT ![job[s].run] = {}]
      <3>1. job[s].at # "idle"
        BY <2>4 DEF Publishes
      <3>2. \A r \in Run : /\ made'[r] = IF r = job[s].run THEN {} ELSE made[r]
                          /\ beside'[r] = IF r = job[s].run THEN {} ELSE beside[r]
        BY <2>4
      <3>3. StopDoes(s)
        BY <1>e, <2>1, <2>2, <2>4, <3>1, <3>2 DEF StopDoes
      <3> QED
        BY <3>3 DEF StepDoes
    <2> QED
      BY <1>12, <2>3, <2>4 DEF EndEffect
  <1> QED
    BY <1>1, <1>2, <1>3, <1>4, <1>5, <1>6, <1>7, <1>8, <1>9, <1>10, <1>11, <1>12 DEF MoveEffect

-----------------------------------------------------------------------------
(* The staging directories.                                                *)

\* The content of a file is a run and whether it is complete; NoFile is of no run.
LEMMA FileFields ==
  ASSUME NEW c \in Content
  PROVE  /\ c = [run |-> c.run, whole |-> c.whole] /\ c.whole \in BOOLEAN
         /\ c.run # 0 => c # NoFile
  BY DEF Content, NoFile

\* A run that was stopped stays so, and takes no timestamp any more.
LEMMA StoppedStays ==
  ASSUME TInv, NEW s \in Slot, StepDoes(s)
  PROVE  /\ \A r \in Run : outcome[r] = "stopped" /\ r \in 1..started =>
                             outcome'[r] = "stopped" /\ stamp'[r] = stamp[r]
         /\ \A r \in Run : stamp[r] # 0 => stamp'[r] = stamp[r]
         /\ 1..started \subseteq 1..started'
  <1> USE Typed, JobFields DEF TInv, Runs, Publishes
  <1>1. CASE StartDoes(s)
    BY <1>1 DEF StartDoes, Run
  <1>2. CASE BuildDoes(s)
    BY <1>2 DEF BuildDoes
  <1>3. CASE BuildEndDoes(s)
    BY <1>3 DEF BuildEndDoes
  <1>4. CASE StampDoes(s)
    BY <1>4 DEF StampDoes
  <1>5. CASE \E i \in Image : \/ RenameDoes(s, i) \/ StartCopyDoes(s, i) \/ FinishCopyDoes(s, i)
                             \/ DropDoes(s, i) \/ UnlinkDoes(s, i) \/ LinkDoes(s, i)
    BY <1>5 DEF RenameDoes, StartCopyDoes, FinishCopyDoes, DropDoes, UnlinkDoes, LinkDoes
  <1>6. CASE FinishDoes(s)
    BY <1>6 DEF FinishDoes
  <1>7. CASE StopDoes(s)
    BY <1>7 DEF StopDoes
  <1> QED
    BY <1>1, <1>2, <1>3, <1>4, <1>5, <1>6, <1>7 DEF StepDoes

LEMMA StagedStep == TInv /\ Staged /\ [Next]_vars => Staged'
  <1> SUFFICES ASSUME TInv, Staged, [Next]_vars PROVE Staged'
    OBVIOUS
  <1>0. CASE UNCHANGED vars
    BY <1>0 DEF vars, Staged, StagedOk, Publishes, Pending
  <1>1. ASSUME NEW s \in Slot, StepDoes(s) PROVE Staged'
    <2> USE Typed, JobFields DEF TInv
    <2>k. /\ \A r \in Run : outcome[r] = "stopped" /\ r \in 1..started =>
                              outcome'[r] = "stopped" /\ stamp'[r] = stamp[r]
          /\ 1..started \subseteq 1..started'
      BY <1>1, StoppedStays
    <2>o. ASSUME NEW t \in Slot, job'[t] = job[t], staged'[t] = staged[t]
          PROVE  /\ \A i \in Image : StagedOk(t, i)'
                 /\ Publishes(t)' => \A i \in job'[t].todo : staged'[t][i] # NoFile /\ i # job'[t].image
                 /\ job'[t].at \in {"copy", "drop"} => staged'[t][job'[t].image] # NoFile
      BY <2>k, <2>o DEF Staged, StagedOk, Publishes, Pending
    <2>p. ASSUME \A t \in Slot \ {s} : job'[t] = job[t] /\ staged'[t] = staged[t],
                 \A i \in Image : StagedOk(s, i)',
                 Publishes(s)' => \A i \in job'[s].todo : staged'[s][i] # NoFile /\ i # job'[s].image,
                 job'[s].at \in {"copy", "drop"} => staged'[s][job'[s].image] # NoFile
          PROVE  Staged'
      <3>1. ASSUME NEW t \in Slot
            PROVE  /\ \A i \in Image : StagedOk(t, i)'
                   /\ Publishes(t)' => \A i \in job'[t].todo : staged'[t][i] # NoFile /\ i # job'[t].image
                   /\ job'[t].at \in {"copy", "drop"} => staged'[t][job'[t].image] # NoFile
        <4>1. CASE t = s
          BY <2>p, <4>1, Zenon
        <4>2. CASE t # s
          BY <2>p, <2>o, <4>2, Zenon
        <4> QED
          BY <4>1, <4>2
      <3> QED
        BY <3>1, Zenon DEF Staged
    <2>r. job[s].at # "idle" => job[s].run \in Run /\ job[s].run \in 1..started
      OBVIOUS
    <2>c. staged[s] \in [Image -> Content]
      OBVIOUS
    <2>1. CASE StartDoes(s)
      <3>1. job'[s].at = "build" /\ job'[s].run = started + 1 /\ started' = started + 1
        BY <2>1 DEF StartDoes, JobIs
      <3>2. \A i \in Image : StagedOk(s, i)'
        BY <2>1, <2>k, <3>1 DEF StartDoes, Staged, StagedOk, Publishes, Idle
      <3> QED
        BY <2>1, <2>p, <3>1, <3>2 DEF StartDoes, JobIs, Publishes
    <2>2. CASE BuildDoes(s)
      <3>1. job'[s].at = "stamp" /\ job'[s].run = job[s].run /\ job[s].at = "build"
        BY <2>2 DEF BuildDoes, JobIs
      <3>2. ASSUME NEW i \in Image PROVE StagedOk(s, i)'
        <4>1. CASE i \in made'[job[s].run]
          BY <2>2, <2>r, <3>1, <4>1 DEF BuildDoes, StagedOk, Publishes
        <4>2. CASE staged'[s][i] = staged[s][i]
          BY <2>k, <2>r, <3>1, <4>2 DEF Staged, StagedOk, Publishes
        <4> QED
          BY <2>2, <4>1, <4>2 DEF BuildDoes
      <3> QED
        BY <2>2, <2>p, <3>1, <3>2 DEF BuildDoes, JobIs, Publishes, OtherStaged
    <2>3. CASE BuildEndDoes(s)
      <3>1. job'[s].at = "idle" /\ job'[s].run = 0 /\ job[s].at = "build"
        BY <2>3 DEF BuildEndDoes, JobIs
      <3>s. stamp[job[s].run] = 0
        BY <3>1 DEF Runs
      <3>2. ASSUME NEW i \in Image PROVE StagedOk(s, i)'
        <4>1. CASE s \in Persistent /\ staged'[s][i] = staged[s][i]
          BY <2>k, <2>r, <3>1, <4>1 DEF Staged, StagedOk, Publishes
        <4>2. CASE /\ s \in Persistent /\ staged'[s][i].run = job[s].run
                   /\ outcome'[job[s].run] = "stopped"
          BY <2>3, <2>r, <2>k, <3>1, <3>s, <4>2 DEF BuildEndDoes, StagedOk, Publishes
        <4> QED
          BY <2>3, <4>1, <4>2 DEF BuildEndDoes, StagedOk
      <3> QED
        BY <2>3, <2>p, <3>1, <3>2 DEF BuildEndDoes, JobIs, Publishes, OtherStaged
    <2>4. CASE StampDoes(s)
      <3>1. /\ job'[s].at = "next" /\ job'[s].run = job[s].run /\ job[s].at = "stamp"
            /\ job'[s].todo = {i \in Image : staged[s][i] # NoFile} /\ job'[s].image = NoImage
        BY <2>4 DEF StampDoes, JobIs
      <3>2. ASSUME NEW i \in Image PROVE StagedOk(s, i)'
        BY <2>4, <2>k, <2>r, <3>1 DEF StampDoes, Staged, StagedOk, Publishes, Pending
      <3> QED
        BY <2>4, <2>p, <3>1, <3>2, ImageAssumption DEF StampDoes, JobIs, Publishes
    <2>5. ASSUME NEW i \in Image, RenameDoes(s, i) PROVE Staged'
      <3>1. /\ job[s].at = "next" /\ job'[s].at = "unlink" /\ i \in job[s].todo
            /\ job'[s].todo = job[s].todo \ {i} /\ job'[s].image = i /\ job'[s].run = job[s].run
            /\ \A k \in Image : staged'[s][k] \in {staged[s][k], NoFile}
            /\ staged'[s][i] = NoFile
            /\ \A t \in Slot \ {s} : job'[t] = job[t] /\ staged'[t] = staged[t]
        BY <2>5 DEF RenameDoes, JobIs, StagedWithout, OtherStaged
      <3>2. ASSUME NEW k \in Image PROVE StagedOk(s, k)'
        BY <2>k, <2>r, <3>1, ImageAssumption DEF Staged, StagedOk, Publishes, Pending
      <3>3. Publishes(s)' => \A k \in job'[s].todo : staged'[s][k] # NoFile /\ k # job'[s].image
        BY <2>5, <3>1 DEF Staged, Publishes, RenameDoes, StagedWithout, OtherStaged
      <3>4. job'[s].at \in {"copy", "drop"} => staged'[s][job'[s].image] # NoFile
        BY <3>1 DEF Staged, Publishes
      <3> QED
        BY <2>p, <3>1, <3>2, <3>3, <3>4
    <2>6. ASSUME NEW i \in Image, StartCopyDoes(s, i) PROVE Staged'
      <3>1. /\ job[s].at = "next" /\ job'[s].at = "copy" /\ i \in job[s].todo
            /\ job'[s].todo = job[s].todo \ {i} /\ job'[s].image = i /\ job'[s].run = job[s].run
            /\ \A k \in Image : staged'[s][k] \in {staged[s][k], NoFile}
            /\ staged'[s] = staged[s]
            /\ \A t \in Slot \ {s} : job'[t] = job[t] /\ staged'[t] = staged[t]
        BY <2>6 DEF StartCopyDoes, JobIs
      <3>2. ASSUME NEW k \in Image PROVE StagedOk(s, k)'
        BY <2>k, <2>r, <3>1, ImageAssumption DEF Staged, StagedOk, Publishes, Pending
      <3>3. Publishes(s)' => \A k \in job'[s].todo : staged'[s][k] # NoFile /\ k # job'[s].image
        BY <2>6, <3>1 DEF Staged, Publishes, StartCopyDoes
      <3>4. job'[s].at \in {"copy", "drop"} => staged'[s][job'[s].image] # NoFile
        BY <3>1 DEF Staged, Publishes
      <3> QED
        BY <2>p, <3>1, <3>2, <3>3, <3>4
    <2>7. ASSUME NEW i \in Image, FinishCopyDoes(s, i) PROVE Staged'
      BY <2>7, <2>k, <2>p, <2>r DEF FinishCopyDoes, JobIs, Staged, StagedOk, Publishes, Pending
    <2>8. ASSUME NEW i \in Image, DropDoes(s, i) PROVE Staged'
      BY <2>8, <2>k, <2>p, <2>r DEF DropDoes, JobIs, StagedWithout, OtherStaged,
           Staged, StagedOk, Publishes, Pending
    <2>9. ASSUME NEW i \in Image, UnlinkDoes(s, i) PROVE Staged'
      BY <2>9, <2>k, <2>p, <2>r DEF UnlinkDoes, JobIs, Staged, StagedOk, Publishes, Pending
    <2>10. ASSUME NEW i \in Image, LinkDoes(s, i) PROVE Staged'
      BY <2>10, <2>k, <2>p, <2>r, ImageAssumption
         DEF LinkDoes, JobIs, Staged, StagedOk, Publishes, Pending
    <2>11. CASE FinishDoes(s)
      <3>1. \A i \in Image : staged'[s][i] = NoFile
        BY <2>11, ImageAssumption DEF FinishDoes, Staged, StagedOk, Publishes, Pending
      <3> QED
        BY <2>11, <2>p, <3>1 DEF FinishDoes, JobIs, OtherStaged, StagedOk, Publishes
    <2>12. CASE StopDoes(s)
      <3>1. job'[s].at = "idle" /\ job[s].at # "idle"
        BY <2>12 DEF StopDoes, JobIs, Publishes
      <3>2. ASSUME NEW i \in Image PROVE StagedOk(s, i)'
        BY <2>12, <2>k, <2>r, <3>1 DEF StopDoes, JobIs, Staged, StagedOk, Publishes
      <3> QED
        BY <2>12, <2>p, <3>1, <3>2 DEF StopDoes, JobIs, OtherStaged, Publishes
    <2> QED
      BY <1>1, <2>1, <2>2, <2>3, <2>4, <2>5, <2>6, <2>7, <2>8, <2>9, <2>10, <2>11, <2>12 DEF StepDoes
  <1> QED
    BY <1>0, <1>1, StepPoints

-----------------------------------------------------------------------------
(* Links lead to images.                                                   *)

\* A run that is at work in a slot is that of no other slot, and has no
\* timestamp before its images are built.
LEMMA NameTime ==
  ASSUME TInv, NEW s \in Slot, Publishes(s)
  PROVE  /\ Name(s) \in Time /\ job[s].run \in Run /\ job[s].run \in 1..started
         /\ stamp[job[s].run] = Name(s) /\ outcome[job[s].run] = "active"
         /\ \A t \in Slot \ {s} : job[t].run # job[s].run
  <1>1. job[s].at # "idle" /\ job[s].run \in Run /\ job[s].run \in 1..started
    BY Typed, JobFields DEF TInv, Publishes
  <1>2. \A t \in Slot \ {s} : job[t].run # job[s].run
    BY <1>1 DEF TInv, Runs
  <1> QED
    BY <1>1, <1>2 DEF TInv, TypeOK, Runs, Name, Time

LEMMA GoodStays ==
  ASSUME TInv, NEW s \in Slot, StepDoes(s), NEW i \in Image, NEW t \in Time,
         Good(i, t), FileOk(i, t), file'[i][t] = file[i][t]
  PROVE  Good(i, t)' /\ FileOk(i, t)'
  <1>1. /\ \A r \in Run : outcome[r] = "stopped" /\ r \in 1..started =>
                            outcome'[r] = "stopped" /\ stamp'[r] = stamp[r]
        /\ \A r \in Run : stamp[r] # 0 => stamp'[r] = stamp[r]
        /\ 1..started \subseteq 1..started'
    BY StoppedStays
  <1>2. t # 0 /\ 1..started \subseteq Run
    BY Typed DEF TInv
  <1>3. Tied(t) => Tied(t)'
    BY <1>1, <1>2 DEF Tied
  <1>4. file[i][t] # NoFile /\ file[i][t].run \in 1..started /\ file[i][t].run \in Run
    BY <1>2 DEF Good, FileOk
  <1>5. CASE file[i][t].whole
    BY <1>1, <1>4, <1>5 DEF Good, FileOk
  <1>6. CASE stamp[file[i][t].run] # 0 \/ outcome[file[i][t].run] = "stopped"
    BY <1>1, <1>2, <1>3, <1>4, <1>6 DEF Good, FileOk
  <1> QED
    BY <1>4, <1>5, <1>6 DEF FileOk

LEMMA FileOkStays ==
  ASSUME TInv, NEW s \in Slot, StepDoes(s), NEW i \in Image, NEW t \in Time,
         FileOk(i, t), file'[i][t] = file[i][t]
  PROVE  FileOk(i, t)'
  <1>1. /\ \A r \in Run : outcome[r] = "stopped" /\ r \in 1..started =>
                            outcome'[r] = "stopped" /\ stamp'[r] = stamp[r]
        /\ \A r \in Run : stamp[r] # 0 => stamp'[r] = stamp[r]
        /\ 1..started \subseteq 1..started'
    BY StoppedStays
  <1>2. 1..started \subseteq Run
    BY Typed DEF TInv
  <1> QED
    BY <1>1, <1>2 DEF FileOk

\* Only a run that has image i in its hands, or is to take it, is not done with it.
LEMMA LinkedStays ==
  ASSUME TInv, Staged, NEW s \in Slot, StepDoes(s), NEW i \in Image,
         link[i] # 0, link'[i] = link[i], Linked(i)
  PROVE  Linked(i)'
  <1> USE Typed, JobFields DEF TInv
  <1>1. PICK q \in Run : /\ stamp[q] = link[i]
                        /\ \A t \in Slot : job[t].run = q => ~ Pending(t, i)
    BY DEF Linked
  <1>2. stamp'[q] = link'[i]
    BY <1>1, StoppedStays
  <1>3. \A t \in Slot \ {s} : job'[t] = job[t]
    BY DEF StepDoes, JobIs, StartDoes, BuildDoes, BuildEndDoes, StampDoes, RenameDoes, StartCopyDoes,
           FinishCopyDoes, DropDoes, UnlinkDoes, LinkDoes, FinishDoes, StopDoes
  <1>4. ASSUME job'[s].run = q, Pending(s, i)' PROVE FALSE
    <2>1. q # started + 1 /\ (job[s].at \in {"build", "stamp"} => q # job[s].run) /\ q # 0
      BY <1>1 DEF Runs, Run
    <2>2. CASE StartDoes(s)
      BY <1>4, <2>1, <2>2 DEF StartDoes, JobIs
    <2>3. CASE BuildDoes(s) \/ StampDoes(s)
      BY <1>4, <2>1, <2>3 DEF BuildDoes, StampDoes, JobIs
    <2>4. CASE BuildEndDoes(s) \/ FinishDoes(s) \/ StopDoes(s)
      BY <1>4, <2>1, <2>4 DEF BuildEndDoes, FinishDoes, StopDoes, JobIs
    <2>5. ASSUME NEW k \in Image, \/ RenameDoes(s, k) \/ StartCopyDoes(s, k) \/ FinishCopyDoes(s, k)
                                  \/ DropDoes(s, k) \/ UnlinkDoes(s, k) \/ LinkDoes(s, k)
          PROVE  FALSE
      <3>1. job'[s].run = job[s].run /\ (Pending(s, i)' => Pending(s, i))
        BY <2>5, ImageAssumption
           DEF RenameDoes, StartCopyDoes, FinishCopyDoes, DropDoes, UnlinkDoes, LinkDoes, JobIs, Pending
      <3> QED
        BY <1>1, <1>4, <3>1
    <2> QED
      BY <2>2, <2>3, <2>4, <2>5 DEF StepDoes
  <1>5. ASSUME NEW t \in Slot, job'[t].run = q PROVE ~ Pending(t, i)'
    <2>1. CASE t = s
      BY <1>4, <1>5, <2>1
    <2>2. CASE t # s
      BY <1>1, <1>3, <1>5, <2>2 DEF Pending
    <2> QED
      BY <2>1, <2>2
  <1> QED
    BY <1>2, <1>5, Zenon DEF Linked

LEMMA LinksStep == TInv /\ Staged /\ Links /\ [Next]_vars => Links'
  <1> SUFFICES ASSUME TInv, Staged, Links, [Next]_vars PROVE Links'
    OBVIOUS
  <1>0. CASE UNCHANGED vars
    BY <1>0, SMTT(40) DEF vars, Links, Linked, FileOk, Good, Tied, Pending, Name
  <1>1. ASSUME NEW s \in Slot, StepDoes(s) PROVE Links'
    <2> USE Typed, JobFields DEF TInv
    <2>t. \A i \in Image : link[i] # 0 => link[i] \in Time
      BY DEF TypeOK, Time
    \* Steps that leave the files alone.
    <2>1. ASSUME file' = file,
                 \A i \in Image : link'[i] # 0 => link'[i] = link[i] \/ (Good(i, link'[i]) /\ Linked(i)'),
                 \A t \in Slot \ {s} : job'[t] = job[t],
                 job'[s].at \in {"drop", "unlink", "link"} =>
                     /\ job[s].at \in {"drop", "unlink", "link"}
                     /\ job'[s].image = job[s].image /\ job'[s].run = job[s].run,
                 \A i \in Image : link'[i] \in Time \cup {0}
          PROVE  Links'
      <3>1. \A i \in Image, t \in Time : FileOk(i, t)'
        BY <1>1, <2>1, FileOkStays DEF Links
      <3>2. ASSUME NEW i \in Image, link'[i] # 0 PROVE Good(i, link[i])' /\ Linked(i)'
        <4>1. CASE link'[i] = link[i]
          <5>1. Good(i, link[i]) /\ Linked(i) /\ FileOk(i, link[i]) /\ link[i] \in Time
            BY <2>t, <3>2, <4>1 DEF Links
          <5>2. \A t \in Time : Good(i, t) => Good(i, t)'
            BY <1>1, <2>1, GoodStays DEF Links
          <5>3. Linked(i)'
            BY <1>1, <3>2, <4>1, <5>1, LinkedStays
          <5> QED
            BY <4>1, <5>1, <5>2, <5>3 DEF Good, Tied
        <4>2. CASE Good(i, link'[i]) /\ Linked(i)'
          <5>2. \A t \in Time : Good(i, t) => Good(i, t)'
            BY <1>1, <2>1, GoodStays DEF Links
          <5>3. link'[i] \in Time
            BY <2>1, <3>2
          <5> QED
            BY <4>2, <5>2, <5>3 DEF Good, Tied
        <4> QED
          BY <2>1, <3>2, <4>1, <4>2
      <3>3. ASSUME NEW t \in Slot, job'[t].at \in {"drop", "unlink", "link"}
            PROVE  Good(job[t].image, Name(t))'
        <4>1. /\ job[t].at \in {"drop", "unlink", "link"}
              /\ job'[t].image = job[t].image /\ job'[t].run = job[t].run
          BY <2>1, <3>3
        <4>2. Name(t) \in Time /\ Name(t)' = Name(t)
          BY <1>1, <4>1, NameTime, StoppedStays, Typed DEF Publishes, Name
        <4>3. job[t].image \in Image /\ Good(job[t].image, Name(t))
          BY <4>1 DEF Links
        <4>4. \A i \in Image, u \in Time : Good(i, u) => Good(i, u)'
          BY <1>1, <2>1, GoodStays DEF Links
        <4> QED
          BY <4>1, <4>2, <4>3, <4>4 DEF Good, Tied
      <3> QED
        BY <3>1, <3>2, <3>3, Zenon DEF Links
    \* Steps that give image i its final name, with the content c.
    <2>2. ASSUME NEW i \in Image, NEW c, Publishes(s), Pending(s, i), FileIs(i, Name(s), c),
                 \A t \in Slot \ {s} : job'[t] = job[t],
                 job'[s].run = job[s].run, job'[s].image = i,
                 UNCHANGED <<link, stamp, outcome, started>>,
                 c # NoFile, c.run \in 1..started,
                 c.whole \/ outcome[c.run] = "stopped" \/ stamp[c.run] # 0,
                 job'[s].at \in {"drop", "unlink", "link"} => c.whole \/ stamp[c.run] = 0
          PROVE  Links'
      <3>n. /\ Name(s) \in Time /\ Name(s)' = Name(s) /\ file'[i][Name(s)] = c
            /\ Name(s) # 0 /\ stamp[job[s].run] = Name(s) /\ job[s].run \in Run
            /\ \A t \in Slot \ {s} : job[t].run # job[s].run
        BY <2>2, NameTime DEF FileIs, Name
      <3>o. \A k \in Image, u \in Time : k # i \/ u # Name(s) => file'[k][u] = file[k][u]
        BY <2>2 DEF FileIs
      <3>1. ASSUME NEW k \in Image, NEW u \in Time PROVE FileOk(k, u)'
        <4>1. CASE k = i /\ u = Name(s)
          BY <2>2, <3>n, <4>1 DEF FileOk
        <4>2. CASE k # i \/ u # Name(s)
          BY <1>1, <3>o, <4>2, FileOkStays DEF Links
        <4> QED
          BY <4>1, <4>2
      <3>g. ASSUME NEW k \in Image, NEW u \in Time, Good(k, u), (k = i /\ u = Name(s)) => Tied(u)
            PROVE  Good(k, u)'
        <4>1. CASE k = i /\ u = Name(s)
          BY <2>2, <3>n, <3>g, <4>1 DEF Good, Tied
        <4>2. CASE k # i \/ u # Name(s)
          BY <1>1, <3>g, <3>o, <4>2, GoodStays DEF Links
        <4> QED
          BY <4>1, <4>2
      <3>2. ASSUME NEW k \in Image, link'[k] # 0 PROVE Good(k, link[k])' /\ Linked(k)'
        <4>1. Good(k, link[k]) /\ Linked(k) /\ link[k] \in Time
          BY <2>2, <2>t, <3>2 DEF Links
        <4>2. Linked(k)'
          BY <1>1, <2>2, <3>2, <4>1, LinkedStays
        <4>3. (k = i /\ link[k] = Name(s)) => Tied(link[k])
          BY <2>2, <3>n, <4>1 DEF Linked, Tied
        <4> QED
          BY <2>2, <3>g, <4>1, <4>2, <4>3 DEF Good, Tied
      <3>3. ASSUME NEW t \in Slot, job'[t].at \in {"drop", "unlink", "link"}
            PROVE  Good(job[t].image, Name(t))'
        <4>1. CASE t = s
          <5>1. Good(i, Name(s))'
            BY <2>2, <3>3, <3>n, <4>1 DEF Good
          <5> QED
            BY <2>2, <4>1, <5>1 DEF Good, Tied
        <4>2. CASE t # s
          <5>1. job'[t] = job[t] /\ job[t].image \in Image /\ Publishes(t)
            BY <2>2, <3>3, <4>2 DEF Publishes
          <5>2. /\ Name(t) \in Time /\ Name(t)' = Name(t)
                /\ job[t].run \in Run /\ stamp[job[t].run] = Name(t)
            BY <2>2, <5>1, NameTime DEF Name
          <5>3. Good(job[t].image, Name(t))
            BY <3>3, <5>1 DEF Links
          <5>4. Name(t) = Name(s) => Tied(Name(t))
            BY <3>n, <4>2, <5>2 DEF Tied
          <5> QED
            BY <3>g, <5>1, <5>2, <5>3, <5>4 DEF Good, Tied
        <4> QED
          BY <4>1, <4>2
      <3> QED
        BY <3>1, <3>2, <3>3, Zenon DEF Links
    <2>3. CASE StartDoes(s)
      BY <2>1, <2>3, <2>t DEF StartDoes, JobIs
    <2>4. CASE BuildDoes(s)
      BY <2>1, <2>4, <2>t DEF BuildDoes, JobIs
    <2>5. CASE BuildEndDoes(s)
      BY <2>1, <2>5, <2>t DEF BuildEndDoes, JobIs
    <2>6. CASE StampDoes(s)
      BY <2>1, <2>6, <2>t DEF StampDoes, JobIs
    <2>c. ASSUME NEW i \in Image, Publishes(s), staged[s][i] # NoFile
          PROVE  /\ staged[s][i].run \in 1..started
                 /\ staged[s][i].whole \/ stamp[staged[s][i].run] = 0
                 /\ \/ staged[s][i].whole \/ outcome[staged[s][i].run] = "stopped"
                 /\ \/ staged[s][i].run = job[s].run \/ outcome[staged[s][i].run] = "stopped"
                 /\ stamp[job[s].run] # 0
      BY <2>c DEF Staged, StagedOk, Runs
    <2>7. ASSUME NEW i \in Image, RenameDoes(s, i) PROVE Links'
      <3>1. Publishes(s) /\ staged[s][i] # NoFile /\ Pending(s, i)
        BY <2>7 DEF RenameDoes, Publishes, Pending, Staged
      <3> QED
        BY <2>2, <2>7, <2>c, <3>1 DEF RenameDoes, JobIs
    <2>8. ASSUME NEW i \in Image, StartCopyDoes(s, i) PROVE Links'
      <3>1. Publishes(s) /\ staged[s][i] # NoFile /\ Pending(s, i)
        BY <2>8 DEF StartCopyDoes, Publishes, Pending, Staged
      <3> DEFINE c == [run |-> staged[s][i].run, whole |-> FALSE]
      <3>2. /\ c # NoFile /\ c.run \in 1..started
            /\ outcome[c.run] = "stopped" \/ stamp[c.run] # 0
        BY <2>c, <3>1 DEF NoFile
      <3>3. FileIs(i, Name(s), c)
        BY <2>8 DEF StartCopyDoes
      <3> HIDE DEF c
      <3> QED
        BY <2>2, <2>8, <3>1, <3>2, <3>3 DEF StartCopyDoes, JobIs
    <2>9. ASSUME NEW i \in Image, FinishCopyDoes(s, i) PROVE Links'
      <3>1. Publishes(s) /\ staged[s][i] # NoFile /\ Pending(s, i)
        BY <2>9 DEF FinishCopyDoes, Publishes, Pending, Staged
      <3> QED
        BY <2>2, <2>9, <2>c, <3>1 DEF FinishCopyDoes, JobIs
    <2>10. ASSUME NEW i \in Image, DropDoes(s, i) PROVE Links'
      BY <2>1, <2>10, <2>t DEF DropDoes, JobIs
    <2>11. ASSUME NEW i \in Image, UnlinkDoes(s, i) PROVE Links'
      BY <2>1, <2>11, <2>t DEF UnlinkDoes, JobIs
    <2>12. ASSUME NEW i \in Image, LinkDoes(s, i) PROVE Links'
      <3>1. Publishes(s) /\ Good(i, Name(s)) /\ i \notin job[s].todo
        BY <2>12 DEF LinkDoes, Publishes, Links, Staged
      <3>2. /\ stamp'[job[s].run] = link'[i] /\ link'[i] = Name(s) /\ Name(s) \in Time
            /\ job[s].run \in Run /\ \A t \in Slot \ {s} : job[t].run # job[s].run
        BY <2>12, <3>1, NameTime DEF LinkDoes
      <3>3. /\ ~ Pending(s, i)' /\ \A t \in Slot \ {s} : job'[t] = job[t]
        BY <2>12, <3>1, ImageAssumption DEF LinkDoes, JobIs, Pending
      <3>4. \A t \in Slot : job'[t].run = job[s].run => t = s
        BY <3>2, <3>3
      <3>5. Linked(i)'
        BY <3>2, <3>3, <3>4, Zenon DEF Linked
      <3>6. \A k \in Image \ {i} : link'[k] = link[k]
        BY <2>12 DEF LinkDoes
      <3>7. \A k \in Image : link'[k] # 0 => link'[k] = link[k] \/ (Good(k, link'[k]) /\ Linked(k)')
        <4> SUFFICES ASSUME NEW k \in Image
                     PROVE link'[k] = link[k] \/ (Good(k, link'[k]) /\ Linked(k)')
          OBVIOUS
        <4>1. CASE k = i
          BY <3>1, <3>2, <3>5, <4>1, Zenon
        <4>2. CASE k # i
          BY <3>6, <4>2
        <4> QED
          BY <4>1, <4>2
      <3>8. \A k \in Image : link'[k] \in Time \cup {0}
        BY <2>t, <3>2, <3>6
      <3> QED
        BY <2>1, <2>12, <3>7, <3>8 DEF LinkDoes, JobIs
    <2>13. CASE FinishDoes(s)
      BY <2>1, <2>13, <2>t DEF FinishDoes, JobIs
    <2>14. CASE StopDoes(s)
      BY <2>1, <2>14, <2>t DEF StopDoes, JobIs
    <2> QED
      BY <1>1, <2>3, <2>4, <2>5, <2>6, <2>7, <2>8, <2>9, <2>10, <2>11, <2>12, <2>13, <2>14 DEF StepDoes
  <1> QED
    BY <1>0, <1>1, StepPoints

-----------------------------------------------------------------------------
(* Images stay.                                                            *)

\* A step changes no other file than the one that its run has in its hands.
LEMMA OnlyPendingChanges ==
  ASSUME TInv, NEW s \in Slot, StepDoes(s), NEW i \in Image, NEW t \in Time,
         file'[i][t] # file[i][t]
  PROVE  Publishes(s) /\ Pending(s, i) /\ t = Name(s)
  BY Typed DEF TInv, StepDoes, StartDoes, BuildDoes, BuildEndDoes, StampDoes, RenameDoes, StartCopyDoes,
     FinishCopyDoes, DropDoes, UnlinkDoes, LinkDoes, FinishDoes, StopDoes, FileIs, Publishes, Pending

LEMMA KeptStays ==
  ASSUME TInv, NEW s \in Slot, StepDoes(s), NEW i \in Image, NEW r \in Run,
         stamp[r] # 0, Kept(r, i),
         file'[i][stamp[r]] = file[i][stamp[r]] \/ Tied(stamp[r])
  PROVE  Kept(r, i)'
  <1>1. stamp'[r] = stamp[r]
    BY StoppedStays
  <1>2. Tied(stamp[r]) => Tied(stamp[r])'
    BY StoppedStays, <1>1 DEF Tied
  <1> QED
    BY <1>1, <1>2 DEF Kept

\* What another run does to a file of the same name shows that the names are tied.
LEMMA OthersKeep ==
  ASSUME TInv, NEW s \in Slot, StepDoes(s), NEW i \in Image, NEW r \in Run,
         stamp[r] # 0, Kept(r, i), job[s].run = r => ~ Pending(s, i)
  PROVE  Kept(r, i)'
  <1>1. stamp[r] \in Time
    BY DEF TInv, TypeOK, Time
  <1>2. CASE file'[i][stamp[r]] # file[i][stamp[r]]
    <2>1. Publishes(s) /\ Pending(s, i) /\ stamp[r] = Name(s)
      BY <1>1, <1>2, OnlyPendingChanges
    <2>2. Tied(stamp[r])
      BY <2>1, NameTime DEF Tied
    <2> QED
      BY <2>2, KeptStays
  <1> QED
    BY <1>2, KeptStays

LEMMA KeepsStep == TInv /\ Staged /\ Keeps /\ [Next]_vars => Keeps'
  <1> SUFFICES ASSUME TInv, Staged, Keeps, [Next]_vars PROVE Keeps'
    OBVIOUS
  <1>0. CASE UNCHANGED vars
    BY <1>0 DEF vars, Keeps, KeepsOne, Kept, Tied, Publishes
  <1>1. ASSUME NEW s \in Slot, StepDoes(s) PROVE Keeps'
    <2> USE Typed, JobFields DEF TInv
    <2>r. job[s].at # "idle" => job[s].run \in Run /\ outcome[job[s].run] = "active"
      BY DEF Runs
    \* It is enough to look at the run of s, and at runs that end.
    <2>p. ASSUME \A t \in Slot \ {s} : job'[t] = job[t] /\ staged'[t] = staged[t],
                 \A q \in Run : made'[q] = made[q] \/ q = job[s].run,
                 \A q \in Run : outcome'[q] = "done" => outcome[q] = "done" \/ made'[q] = {},
                 job'[s].at # "idle" => \A i \in made'[job'[s].run] : KeepsOne(s, i)'
          PROVE  Keeps'
      <3>1. ASSUME NEW q \in Run, outcome'[q] = "done", NEW i \in made'[q]
            PROVE  stamp'[q] # 0 /\ Kept(q, i)'
        <4>1. outcome[q] = "done"
          BY <2>p, <3>1
        <4>2. q # job[s].run
          BY <2>r, <4>1 DEF Idle
        <4>3. i \in made[q] /\ i \in Image /\ stamp[q] # 0 /\ Kept(q, i)
          BY <2>p, <3>1, <4>1, <4>2 DEF Keeps
        <4> QED
          BY <1>1, <4>2, <4>3, OthersKeep, StoppedStays
      <3>2. ASSUME NEW t \in Slot, job'[t].at # "idle", NEW i \in made'[job'[t].run]
            PROVE  KeepsOne(t, i)'
        <4>1. CASE t = s
          BY <2>p, <3>2, <4>1
        <4>2. CASE t # s
          <5>1. /\ job'[t] = job[t] /\ staged'[t] = staged[t]
                /\ job[t].run \in Run /\ job[t].run # job[s].run
            BY <2>p, <3>2, <4>2 DEF Runs
          <5>2. i \in made[job[t].run] /\ i \in Image /\ KeepsOne(t, i)
            BY <2>p, <3>2, <5>1 DEF Keeps
          <5>3. Publishes(t) /\ Kept(job[t].run, i) => Kept(job[t].run, i)'
            BY <1>1, <5>1, <5>2, OthersKeep DEF Runs
          <5> QED
            BY <5>1, <5>2, <5>3 DEF KeepsOne, Publishes, Kept, Tied
        <4> QED
          BY <4>1, <4>2
      <3> QED
        BY <3>1, <3>2, Zenon DEF Keeps
    <2>1. CASE StartDoes(s)
      <3>1. made'[job'[s].run] = {}
        BY <2>1 DEF StartDoes, JobIs, Runs
      <3> QED
        BY <2>1, <2>p, <3>1 DEF StartDoes, JobIs
    <2>2. CASE BuildDoes(s)
      <3>1. \A i \in made'[job'[s].run] : KeepsOne(s, i)'
        <4>1. job[s].at = "build" /\ job'[s].at = "stamp" /\ job'[s].run = job[s].run
          BY <2>2 DEF BuildDoes, JobIs
        <4>2. made' \in [Run -> SUBSET Image]
          BY TypeStep, Typed DEF TypeOK
        <4>3. \A i \in made'[job[s].run] :
                 staged'[s][i] = [run |-> job[s].run, whole |-> TRUE] /\ i \in Image
          BY <2>2, <2>r, <4>1, <4>2 DEF BuildDoes
        <4> QED
          BY <4>1, <4>3 DEF KeepsOne
      <3> QED
        BY <2>2, <2>p, <2>r, <3>1 DEF BuildDoes, JobIs, OtherStaged
    <2>3. CASE BuildEndDoes(s)
      <3>1. made'[job[s].run] = {}
        BY <2>3 DEF BuildEndDoes, Runs
      <3> QED
        BY <2>3, <2>p, <3>1 DEF BuildEndDoes, JobIs, OtherStaged
    <2>4. CASE StampDoes(s)
      <3>1. ASSUME NEW i \in made'[job'[s].run] PROVE KeepsOne(s, i)'
        <4>1. i \in made[job[s].run] /\ job[s].at = "stamp"
          BY <2>4, <3>1 DEF StampDoes, JobIs
        <4>2. staged[s][i] = [run |-> job[s].run, whole |-> TRUE] /\ i \in Image
          BY <2>r, <4>1 DEF Keeps, KeepsOne, Publishes
        <4>3. staged[s][i] # NoFile
          BY <2>r, <4>1, <4>2 DEF NoFile
        <4> QED
          BY <2>4, <4>2, <4>3 DEF StampDoes, JobIs, KeepsOne
      <3> QED
        BY <2>4, <2>p, <3>1 DEF StampDoes, JobIs
    \* A step that moves or links an image.
    <2>m. ASSUME Publishes(s), Publishes(s)', job'[s].run = job[s].run,
                 \A t \in Slot \ {s} : job'[t] = job[t] /\ staged'[t] = staged[t],
                 UNCHANGED <<made, outcome, stamp>>,
                 \A i \in made[job[s].run] : KeepsOne(s, i) => KeepsOne(s, i)'
          PROVE  Keeps'
      BY <2>m, <2>p DEF Keeps, Publishes
    <2>k. ASSUME NEW i \in Image, NEW r \in Run, r = job[s].run, Publishes(s), Kept(r, i), ~ Pending(s, i)
          PROVE  Kept(r, i)'
      BY <1>1, <2>k, OthersKeep DEF Runs
    <2>f. Publishes(s) => /\ Name(s) \in Time /\ stamp[job[s].run] = Name(s)
                          /\ job[s].run \in Run /\ made[job[s].run] \subseteq Image
      BY NameTime
    <2>l. ASSUME NEW i \in Image, Publishes(s), Kept(job[s].run, i), ~ Pending(s, i),
                 stamp' = stamp, job'[s].run = job[s].run
          PROVE  Kept(job[s].run, i)'
      BY <2>f, <2>k, <2>l DEF Kept, Tied
    <2>5. ASSUME NEW k \in Image, RenameDoes(s, k) PROVE Keeps'
      <3>1. /\ Publishes(s) /\ Publishes(s)' /\ job[s].at = "next" /\ job'[s].at = "unlink"
            /\ job'[s].run = job[s].run /\ job'[s].todo = job[s].todo \ {k} /\ k \in job[s].todo
            /\ job[s].image \notin Image /\ stamp' = stamp
            /\ \A i \in Image \ {k} : staged'[s][i] = staged[s][i]
        BY <2>5, ImageAssumption DEF RenameDoes, JobIs, Publishes, StagedWithout
      <3>2. file'[k][Name(s)] = staged[s][k]
        BY <2>5, <2>f, <3>1 DEF RenameDoes, FileIs
      <3>3. ASSUME NEW i \in made[job[s].run], KeepsOne(s, i) PROVE KeepsOne(s, i)'
        <4>i. i \in Image
          BY <2>f, <3>1
        <4>1. CASE i = k
          <5>1. staged[s][k] = [run |-> job[s].run, whole |-> TRUE]
            BY <3>1, <3>3, <4>1 DEF KeepsOne
          <5> QED
            BY <2>f, <3>1, <3>2, <4>1, <5>1 DEF KeepsOne, Kept
        <4>2. CASE i # k /\ i \in job[s].todo
          BY <3>1, <3>3, <4>2, <4>i DEF KeepsOne
        <4>3. CASE i \notin job[s].todo
          <5>1. Kept(job[s].run, i) /\ ~ Pending(s, i)
            BY <3>1, <3>3, <4>3, <4>i DEF KeepsOne, Pending
          <5>2. Kept(job[s].run, i)'
            BY <2>l, <3>1, <4>i, <5>1
          <5> QED
            BY <3>1, <4>3, <5>2 DEF KeepsOne
        <4> QED
          BY <4>1, <4>2, <4>3
      <3> QED
        BY <2>5, <2>m, <3>1, <3>3 DEF RenameDoes, JobIs, OtherStaged
    <2>6. ASSUME NEW k \in Image, StartCopyDoes(s, k) PROVE Keeps'
      <3>1. /\ Publishes(s) /\ Publishes(s)' /\ job[s].at = "next" /\ job'[s].at = "copy"
            /\ job'[s].run = job[s].run /\ job'[s].todo = job[s].todo \ {k} /\ k \in job[s].todo
            /\ job'[s].image = k /\ job[s].image \notin Image /\ UNCHANGED <<stamp, staged>>
        BY <2>6, ImageAssumption DEF StartCopyDoes, JobIs, Publishes
      <3>3. ASSUME NEW i \in made[job[s].run], KeepsOne(s, i) PROVE KeepsOne(s, i)'
        <4>i. i \in Image
          BY <2>f, <3>1
        <4>1. CASE i \in job[s].todo
          BY <3>1, <3>3, <4>1, <4>i DEF KeepsOne
        <4>2. CASE i \notin job[s].todo
          <5>1. Kept(job[s].run, i) /\ ~ Pending(s, i)
            BY <3>1, <3>3, <4>2, <4>i DEF KeepsOne, Pending
          <5>2. Kept(job[s].run, i)'
            BY <2>l, <3>1, <4>i, <5>1
          <5> QED
            BY <3>1, <4>2, <5>2 DEF KeepsOne
        <4> QED
          BY <4>1, <4>2
      <3> QED
        BY <2>6, <2>m, <3>1, <3>3 DEF StartCopyDoes, JobIs
    <2>7. ASSUME NEW k \in Image, FinishCopyDoes(s, k) PROVE Keeps'
      <3>1. /\ Publishes(s) /\ Publishes(s)' /\ job[s].at = "copy" /\ job'[s].at = "drop"
            /\ job'[s].run = job[s].run /\ job'[s].todo = job[s].todo /\ k = job[s].image
            /\ job'[s].image = k /\ UNCHANGED <<stamp, staged>> /\ k \notin job[s].todo
        BY <2>7 DEF FinishCopyDoes, JobIs, Publishes, Staged
      <3>2. file'[k][Name(s)] = staged[s][k]
        BY <2>7, <2>f, <3>1 DEF FinishCopyDoes, FileIs
      <3>3. ASSUME NEW i \in made[job[s].run], KeepsOne(s, i) PROVE KeepsOne(s, i)'
        <4>i. i \in Image
          BY <2>f, <3>1
        <4>1. CASE i = k
          <5>1. staged[s][k] = [run |-> job[s].run, whole |-> TRUE]
            BY <3>1, <3>3, <4>1 DEF KeepsOne
          <5> QED
            BY <2>f, <3>1, <3>2, <4>1, <5>1 DEF KeepsOne, Kept
        <4>2. CASE i \in job[s].todo
          BY <3>1, <3>3, <4>2, <4>i DEF KeepsOne
        <4>3. CASE i # k /\ i \notin job[s].todo
          <5>1. Kept(job[s].run, i) /\ ~ Pending(s, i)
            BY <3>1, <3>3, <4>3, <4>i DEF KeepsOne, Pending
          <5>2. Kept(job[s].run, i)'
            BY <2>l, <3>1, <4>i, <5>1
          <5> QED
            BY <3>1, <4>3, <5>2 DEF KeepsOne
        <4> QED
          BY <4>1, <4>2, <4>3
      <3> QED
        BY <2>7, <2>m, <3>1, <3>3 DEF FinishCopyDoes, JobIs
    <2>8. ASSUME NEW k \in Image, DropDoes(s, k) \/ UnlinkDoes(s, k) \/ LinkDoes(s, k) PROVE Keeps'
      <3>1. /\ Publishes(s) /\ Publishes(s)' /\ job[s].at # "copy" /\ job'[s].at # "copy"
            /\ job[s].at # "stamp" /\ job'[s].at # "stamp"
            /\ job'[s].run = job[s].run /\ job'[s].todo = job[s].todo /\ k = job[s].image
            /\ UNCHANGED <<stamp, file, made, outcome>> /\ k \notin job[s].todo
            /\ \A i \in Image \ {k} : staged'[s][i] = staged[s][i]
            /\ \A t \in Slot \ {s} : job'[t] = job[t] /\ staged'[t] = staged[t]
        BY <2>8 DEF DropDoes, UnlinkDoes, LinkDoes, JobIs, Publishes, Staged, StagedWithout, OtherStaged
      <3>3. ASSUME NEW i \in made[job[s].run], KeepsOne(s, i) PROVE KeepsOne(s, i)'
        <4>i. i \in Image
          BY <2>f, <3>1
        <4>1. CASE i \in job[s].todo
          BY <3>1, <3>3, <4>1, <4>i DEF KeepsOne
        <4>2. CASE i \notin job[s].todo
          BY <3>1, <3>3, <4>2 DEF KeepsOne, Kept, Tied
        <4> QED
          BY <4>1, <4>2
      <3> QED
        BY <2>m, <3>1, <3>3
    <2>9. CASE FinishDoes(s)
      <3>1. /\ Publishes(s) /\ job[s].todo = {} /\ job[s].at = "next" /\ job[s].image \notin Image
            /\ job'[s].at = "idle" /\ UNCHANGED <<made, stamp, file>> /\ job[s].run \in Run
        BY <2>9, <2>f, ImageAssumption DEF FinishDoes, JobIs, Publishes
      <3>2. ASSUME NEW q \in Run, outcome'[q] = "done", NEW i \in made'[q]
            PROVE  stamp'[q] # 0 /\ Kept(q, i)'
        <4>1. CASE q = job[s].run
          <5>1. i \in made[job[s].run] /\ i \notin job[s].todo /\ job[s].at \notin {"stamp", "copy", "idle"}
            BY <3>1, <3>2, <4>1
          <5>2. Kept(q, i)
            BY <4>1, <5>1 DEF Keeps, KeepsOne
          <5> QED
            BY <2>f, <2>k, <3>1, <4>1, <5>2 DEF Kept, Tied, Runs
        <4>2. CASE q # job[s].run
          BY <2>9, <3>1, <3>2, <4>2 DEF FinishDoes, Keeps, Kept, Tied
        <4> QED
          BY <4>1, <4>2
      <3>3. ASSUME NEW t \in Slot, job'[t].at # "idle", NEW i \in made'[job'[t].run]
            PROVE  KeepsOne(t, i)'
        <4>1. t # s /\ job'[t] = job[t] /\ staged'[t] = staged[t]
          BY <2>9, <3>1, <3>3 DEF FinishDoes, JobIs, OtherStaged
        <4> QED
          BY <3>1, <3>3, <4>1 DEF Keeps, KeepsOne, Kept, Tied, Publishes
      <3> QED
        BY <3>2, <3>3, Zenon DEF Keeps
    <2>10. CASE StopDoes(s)
      BY <2>10, <2>p DEF StopDoes, JobIs, OtherStaged
    <2> QED
      BY <1>1, <2>1, <2>2, <2>3, <2>4, <2>5, <2>6, <2>7, <2>8, <2>9, <2>10 DEF StepDoes
  <1> QED
    BY <1>0, <1>1, StepPoints

-----------------------------------------------------------------------------
(* What a run has published.                                               *)

\* A run has published an image only by making its link.
LEMMA PublishedBefore ==
  ASSUME TInv, Staged, Keeps, NEW s \in Slot, StepDoes(s),
         NEW i \in Image, NEW r \in Run, Published(r, i)'
  PROVE  /\ made'[r] = made[r] /\ stamp'[r] = stamp[r] /\ stamp[r] # 0
         /\ outcome[r] # "stopped" /\ i \in made[r]
         /\ \/ Published(r, i)
            \/ LinkDoes(s, i) /\ job[s].run = r
  <1> USE Typed, JobFields DEF TInv
  <1>1. /\ i \in made'[r] /\ stamp'[r] # 0
        /\ \A t \in Slot : job'[t].run = r => ~ (i \in job'[t].todo \/ job'[t].image = i)
    BY DEF Published, Pending
  <1>2. /\ job[s].at # "idle" => job[s].run \in Run
        /\ job[s].at \in {"build", "stamp"} => stamp[job[s].run] = 0
        /\ \A q \in Run : outcome[q] = "stopped" => made[q] = {}
        /\ \A q \in Run : started < q => stamp[q] = 0
    BY DEF Runs
  <1>t. \A t \in Slot \ {s} : job'[t] = job[t]
    BY DEF StepDoes, JobIs, StartDoes, BuildDoes, BuildEndDoes, StampDoes, RenameDoes, StartCopyDoes,
           FinishCopyDoes, DropDoes, UnlinkDoes, LinkDoes, FinishDoes, StopDoes
  \* It is enough to look at slot s.
  <1>p. ASSUME made'[r] = made[r], stamp'[r] = stamp[r], job[s].run = r => ~ Pending(s, i)
        PROVE  /\ outcome[r] # "stopped" /\ i \in made[r] /\ stamp[r] # 0 /\ Published(r, i)
    BY <1>1, <1>2, <1>t, <1>p DEF Published, Pending
  <1>3. CASE StartDoes(s)
    BY <1>p, <1>3 DEF StartDoes, Idle
  <1>4. CASE BuildDoes(s)
    <2>1. r # job[s].run
      BY <1>1, <1>2, <1>4 DEF BuildDoes
    <2> QED
      BY <1>p, <1>4, <2>1 DEF BuildDoes
  <1>5. CASE BuildEndDoes(s)
    <2>1. r # job[s].run
      BY <1>1, <1>2, <1>5 DEF BuildEndDoes
    <2> QED
      BY <1>p, <1>5, <2>1 DEF BuildEndDoes
  <1>6. CASE StampDoes(s)
    <2>1. CASE r = job[s].run
      <3>1. i \in made[r] /\ job[s].at = "stamp" /\ job[s].at # "idle"
        BY <1>1, <1>6 DEF StampDoes
      <3>2. staged[s][i] = [run |-> r, whole |-> TRUE]
        BY <2>1, <3>1 DEF Keeps, KeepsOne, Publishes
      <3>3. staged[s][i] # NoFile
        BY <3>2 DEF NoFile, Run
      <3> QED
        BY <1>1, <1>6, <2>1, <3>3 DEF StampDoes, JobIs
    <2>2. CASE r # job[s].run
      BY <1>p, <1>6, <2>2 DEF StampDoes
    <2> QED
      BY <2>1, <2>2
  <1>7. ASSUME NEW k \in Image, \/ RenameDoes(s, k) \/ StartCopyDoes(s, k) \/ FinishCopyDoes(s, k)
                                \/ DropDoes(s, k) \/ UnlinkDoes(s, k) \/ (LinkDoes(s, k) /\ k # i)
        PROVE  made'[r] = made[r] /\ stamp'[r] = stamp[r] /\ (job[s].run = r => ~ Pending(s, i))
    BY <1>1, <1>7, ImageAssumption
       DEF RenameDoes, StartCopyDoes, FinishCopyDoes, DropDoes, UnlinkDoes, LinkDoes, JobIs, Pending
  <1>8. CASE LinkDoes(s, i)
    <2>1. CASE job[s].run = r
      BY <1>1, <1>2, <1>8, <2>1 DEF LinkDoes
    <2>2. CASE job[s].run # r
      BY <1>p, <1>8, <2>2 DEF LinkDoes
    <2> QED
      BY <2>1, <2>2
  <1>9. CASE FinishDoes(s)
    BY <1>p, <1>9, ImageAssumption DEF FinishDoes, Pending
  <1>10. CASE StopDoes(s)
    <2>1. r # job[s].run
      BY <1>1, <1>10 DEF StopDoes
    <2> QED
      BY <1>p, <1>10, <2>1 DEF StopDoes
  <1> QED
    BY <1>p, <1>3, <1>4, <1>5, <1>6, <1>7, <1>8, <1>9, <1>10 DEF StepDoes

\* A link that is missing has a run that is to make it, or that was stopped.
LEMMA LostStays ==
  ASSUME TInv, Staged, Links, NEW s \in Slot, StepDoes(s), NEW i \in Image,
         Lost(i), link'[i] = 0
  PROVE  Lost(i)'
  <1>4. StepDoes(s)
    OBVIOUS
  <1> USE Typed, JobFields DEF TInv
  <1>1. \A k \in Image, t \in Time : file[k][t] # NoFile => file'[k][t] # NoFile
    <2> SUFFICES ASSUME NEW k \in Image, NEW t \in Time, file'[k][t] # file[k][t]
                 PROVE  file'[k][t] # NoFile
      OBVIOUS
    <2>1. Publishes(s)
      BY OnlyPendingChanges
    <2>2. ASSUME NEW j \in Image, staged[s][j] # NoFile
          PROVE  [run |-> staged[s][j].run, whole |-> FALSE] # NoFile
      <3>1. staged[s][j].run \in 1..started
        BY <2>2 DEF Staged, StagedOk
      <3> QED
        BY <3>1 DEF NoFile
    <2>3. ASSUME NEW j \in Image, RenameDoes(s, j) PROVE file'[k][t] # NoFile
      <3>1. staged[s][j] # NoFile
        BY <2>1, <2>3 DEF RenameDoes, Staged
      <3> QED
        BY <2>3, <3>1 DEF RenameDoes, FileIs
    <2>4. ASSUME NEW j \in Image, StartCopyDoes(s, j) PROVE file'[k][t] # NoFile
      <3>1. staged[s][j] # NoFile
        BY <2>1, <2>4 DEF StartCopyDoes, Staged
      <3> QED
        BY <2>2, <2>4, <3>1 DEF StartCopyDoes, FileIs
    <2>5. ASSUME NEW j \in Image, FinishCopyDoes(s, j) PROVE file'[k][t] # NoFile
      <3>1. staged[s][j] # NoFile
        BY <2>5 DEF FinishCopyDoes, Staged
      <3> QED
        BY <2>5, <3>1 DEF FinishCopyDoes, FileIs
    <2> QED
      BY <1>4, <2>3, <2>4, <2>5 DEF StepDoes, StartDoes, BuildDoes, BuildEndDoes, StampDoes,
         DropDoes, UnlinkDoes, LinkDoes, FinishDoes, StopDoes
  <1>2. ASSUME NEW q \in Run, outcome[q] = "stopped", stamp[q] # 0, file[i][stamp[q]] # NoFile
        PROVE  Lost(i)'
    <2>1. q \in 1..started /\ stamp[q] \in Time
      BY <1>2 DEF Runs, TypeOK, Time, Run
    <2>2. outcome'[q] = "stopped" /\ stamp'[q] = stamp[q]
      BY <1>2, <2>1, StoppedStays
    <2> QED
      BY <1>1, <1>2, <2>1, <2>2, SMTT(40) DEF Lost
  <1>3. ASSUME NEW t \in Slot, job[t].at = "link", job[t].image = i PROVE Lost(i)'
    <2>1. CASE job'[t] = job[t]
      BY <1>3, <2>1 DEF Lost
    <2>2. CASE job'[t] # job[t]
      <3>1. t = s
        BY <2>2 DEF StepDoes, JobIs, StartDoes, BuildDoes, BuildEndDoes, StampDoes, RenameDoes,
           StartCopyDoes, FinishCopyDoes, DropDoes, UnlinkDoes, LinkDoes, FinishDoes, StopDoes
      <3>2. Publishes(s) /\ Good(i, Name(s))
        BY <1>3, <3>1 DEF Publishes, Links
      <3>3. Name(s) \in Time /\ stamp[job[s].run] = Name(s) /\ job[s].run \in Run /\ Name(s) # 0
        BY <3>2, NameTime
      <3>4. StopDoes(s) \/ LinkDoes(s, i)
        <4>1. job[s].at = "link" /\ job[s].image = i
          BY <1>3, <3>1
        <4>2. ~ (StartDoes(s) \/ BuildDoes(s) \/ BuildEndDoes(s) \/ StampDoes(s) \/ FinishDoes(s))
          BY <4>1 DEF StartDoes, BuildDoes, BuildEndDoes, StampDoes, FinishDoes, Idle
        <4>3. ASSUME NEW k \in Image
              PROVE  /\ ~ (\/ RenameDoes(s, k) \/ StartCopyDoes(s, k) \/ FinishCopyDoes(s, k)
                           \/ DropDoes(s, k) \/ UnlinkDoes(s, k))
                     /\ LinkDoes(s, k) => k = i
          BY <4>1 DEF RenameDoes, StartCopyDoes, FinishCopyDoes, DropDoes, UnlinkDoes, LinkDoes
        <4> QED
          BY <1>4, <4>2, <4>3 DEF StepDoes
      <3>5. ~ LinkDoes(s, i)
        BY <3>3 DEF LinkDoes
      <3>6. outcome'[job[s].run] = "stopped" /\ stamp' = stamp /\ file' = file
        BY <3>3, <3>4, <3>5 DEF StopDoes
      <3> QED
        BY <3>2, <3>3, <3>6 DEF Lost, Good
    <2> QED
      BY <2>1, <2>2
  <1> QED
    BY <1>2, <1>3 DEF Lost

LEMMA MissesStep == TInv /\ Staged /\ Links /\ Keeps /\ Misses /\ [Next]_vars => Misses'
  <1> SUFFICES ASSUME TInv, Staged, Links, Keeps, Misses, [Next]_vars PROVE Misses'
    OBVIOUS
  <1>0. CASE UNCHANGED vars
    BY <1>0 DEF vars, Misses, Published, Pending, Lost
  <1>1. ASSUME NEW s \in Slot, StepDoes(s) PROVE Misses'
    <2> SUFFICES ASSUME NEW i \in Image, NEW r \in Run, Published(r, i)', link'[i] = 0
                 PROVE  Lost(i)'
      BY DEF Misses
    <2>1. Published(r, i) \/ (LinkDoes(s, i) /\ job[s].run = r)
      BY <1>1, PublishedBefore
    <2>2. ~ LinkDoes(s, i)
      <3>1. LinkDoes(s, i) => Publishes(s) /\ link'[i] = Name(s)
        BY DEF LinkDoes, Publishes
      <3>2. Publishes(s) => Name(s) # 0
        BY NameTime, Typed DEF TInv
      <3> QED
        BY <3>1, <3>2
    <2>3. CASE link[i] = 0
      <3>1. Lost(i)
        BY <2>1, <2>2, <2>3 DEF Misses
      <3> QED
        BY <1>1, <3>1, LostStays
    <2>4. CASE link[i] # 0
      <3>1. UnlinkDoes(s, i)
        BY <1>1, <2>2, <2>4 DEF StepDoes, StartDoes, BuildDoes, BuildEndDoes, StampDoes, RenameDoes,
           StartCopyDoes, FinishCopyDoes, DropDoes, UnlinkDoes, LinkDoes, FinishDoes, StopDoes
      <3> QED
        BY <3>1 DEF UnlinkDoes, JobIs, Lost
    <2> QED
      BY <2>3, <2>4
  <1> QED
    BY <1>0, <1>1, StepPoints DEF TInv

LEMMA BesideStep == TInv /\ Beside /\ [Next]_vars => Beside'
  <1> SUFFICES ASSUME TInv, Beside, [Next]_vars PROVE Beside'
    OBVIOUS
  <1> USE Typed, JobFields DEF TInv
  <1>0. CASE UNCHANGED vars
    BY <1>0 DEF vars, Beside, Publishes
  <1>1. ASSUME NEW s \in Slot, StepDoes(s) PROVE Beside'
    <2> SUFFICES ASSUME NEW t \in Slot, NEW r \in Run, Publishes(t)',
                        stamp'[job'[t].run] < stamp'[r], outcome'[r] # "stopped"
                 PROVE  job'[t].run \in beside'[r]
      BY DEF Beside
    <2>r. /\ job[s].at # "idle" => job[s].run \in Run
          /\ job[t].at # "idle" => job[t].run \in Run
          /\ \A q \in Run : stamp[q] <= clock /\ stamp[q] \in Nat
          /\ \A q \in Run : outcome[q] = "stopped" /\ stamp[q] # 0 => outcome'[q] = "stopped"
      <3>1. \A q \in Run : stamp[q] # 0 => q \in 1..started
        BY DEF Runs, Run
      <3> QED
        BY <1>1, <3>1, StoppedStays DEF Runs, Run
    <2>p. ASSUME Publishes(t), job'[t].run = job[t].run, stamp'[job[t].run] = stamp[job[t].run],
                 stamp'[r] = stamp[r], beside'[r] = beside[r]
          PROVE  job'[t].run \in beside'[r]
      <3>1. stamp'[r] # 0
        BY <2>r, <2>p DEF Publishes
      <3> QED
        BY <2>r, <2>p, <3>1 DEF Beside
    <2>1. CASE StartDoes(s)
      BY <2>1, <2>p DEF StartDoes, JobIs, Publishes
    <2>2. CASE BuildDoes(s) \/ BuildEndDoes(s)
      BY <2>2, <2>p DEF BuildDoes, BuildEndDoes, JobIs, Publishes
    <2>3. CASE StampDoes(s)
      <3>1. CASE t = s
        BY <2>3, <2>r, <3>1 DEF StampDoes, JobIs
      <3>2. CASE t # s
        <4>1. Publishes(t) /\ job'[t] = job[t] /\ job[t].run # job[s].run
          BY <2>3, <3>2 DEF StampDoes, JobIs, Publishes, Runs
        <4>2. CASE r = job[s].run
          <5>1. job[t].run \in Publishing
            BY <4>1 DEF Publishing, Publishes
          <5> QED
            BY <2>3, <4>1, <4>2, <5>1 DEF StampDoes
        <4>3. CASE r # job[s].run
          BY <2>3, <2>p, <2>r, <4>1, <4>3 DEF StampDoes, Publishes
        <4> QED
          BY <4>2, <4>3
      <3> QED
        BY <3>1, <3>2
    <2>4. CASE \E i \in Image : \/ RenameDoes(s, i) \/ StartCopyDoes(s, i) \/ FinishCopyDoes(s, i)
                               \/ DropDoes(s, i) \/ UnlinkDoes(s, i) \/ LinkDoes(s, i)
      <3>1. /\ Publishes(s) /\ job'[s].run = job[s].run /\ UNCHANGED <<stamp, beside>>
            /\ \A u \in Slot \ {s} : job'[u] = job[u]
        BY <2>4 DEF RenameDoes, StartCopyDoes, FinishCopyDoes, DropDoes, UnlinkDoes, LinkDoes,
                    JobIs, Publishes
      <3> QED
        BY <2>p, <3>1 DEF Publishes
    <2>5. CASE FinishDoes(s)
      BY <2>5, <2>p DEF FinishDoes, JobIs, Publishes
    <2>6. CASE StopDoes(s)
      <3>1. r # job[s].run
        BY <2>6 DEF StopDoes
      <3> QED
        BY <2>6, <2>p, <3>1 DEF StopDoes, JobIs, Publishes
    <2> QED
      BY <1>1, <2>1, <2>2, <2>3, <2>4, <2>5, <2>6 DEF StepDoes
  <1> QED
    BY <1>0, <1>1, StepPoints

LEMMA NewestStep ==
    TInv /\ Staged /\ Keeps /\ Beside /\ Newest /\ [Next]_vars => Newest'
  <1> SUFFICES ASSUME TInv, Staged, Keeps, Beside, Newest, [Next]_vars PROVE Newest'
    OBVIOUS
  <1>0. CASE UNCHANGED vars
    BY <1>0 DEF vars, Newest, Published, Pending
  <1>1. ASSUME NEW s \in Slot, StepDoes(s) PROVE Newest'
    <2> SUFFICES ASSUME NEW i \in Image, NEW r \in Run, Published(r, i)',
                        link'[i] # 0, link'[i] < stamp'[r]
                 PROVE  \E q \in beside'[r] : stamp'[q] = link'[i]
      BY DEF Newest
    <2>1. /\ made'[r] = made[r] /\ stamp'[r] = stamp[r] /\ stamp[r] # 0
          /\ outcome[r] # "stopped" /\ i \in made[r]
          /\ Published(r, i) \/ (LinkDoes(s, i) /\ job[s].run = r)
      BY <1>1, PublishedBefore
    <2>2. /\ beside'[r] = beside[r] /\ beside[r] \subseteq Run
      <3>1. job[s].at = "stamp" => job[s].run # r
        BY <2>1 DEF TInv, Runs
      <3>2. StopDoes(s) => job[s].run # r
        BY <2>1 DEF StopDoes
      <3>3. beside'[r] = beside[r]
        BY <1>1, <3>1, <3>2 DEF StepDoes, StartDoes, BuildDoes, BuildEndDoes, StampDoes, RenameDoes,
           StartCopyDoes, FinishCopyDoes, DropDoes, UnlinkDoes, LinkDoes, FinishDoes, StopDoes
      <3> QED
        BY <3>3, Typed DEF TInv
    <2>3. CASE link'[i] = link[i]
      <3>1. Published(r, i)
        <4>1. ~ LinkDoes(s, i)
          <5>1. LinkDoes(s, i) => link[i] = 0
            BY DEF LinkDoes
          <5> QED
            BY <2>3, <5>1
        <4> QED
          BY <2>1, <4>1
      <3>2. PICK q \in beside[r] : stamp[q] = link[i]
        BY <2>1, <2>3, <3>1 DEF Newest
      <3>3. stamp'[q] = stamp[q]
        BY <1>1, <2>2, <2>3, <3>2, StoppedStays
      <3> QED
        BY <2>2, <2>3, <3>2, <3>3
    <2>4. CASE link'[i] # link[i]
      <3>1. LinkDoes(s, i)
        BY <1>1, <2>4 DEF StepDoes, StartDoes, BuildDoes, BuildEndDoes, StampDoes, RenameDoes,
           StartCopyDoes, FinishCopyDoes, DropDoes, UnlinkDoes, LinkDoes, FinishDoes, StopDoes
      <3>2. Publishes(s) /\ link'[i] = Name(s) /\ stamp' = stamp
        BY <3>1 DEF LinkDoes, Publishes
      <3>3. stamp[job[s].run] = Name(s)
        BY <3>2, NameTime
      <3>4. job[s].run \in beside[r]
        BY <2>1, <3>2, <3>3 DEF Beside
      <3> QED
        BY <2>2, <3>2, <3>3, <3>4
    <2> QED
      BY <2>3, <2>4
  <1> QED
    BY <1>0, <1>1, StepPoints DEF TInv

-----------------------------------------------------------------------------
(* The theorems.                                                           *)

LEMMA InitInv == Init => IInv
  <1> SUFFICES ASSUME Init PROVE IInv
    OBVIOUS
  <1> USE BoundAssumption DEF Init
  <1>1. TypeOK
    <2>1. NoFile \in Content /\ Idle \in JobState /\ 1 \in Time /\ 0 \in 0..MaxTime /\ 0 \in 0..MaxRuns
      BY DEF NoFile, Content, JobState, Time
    <2> QED
      BY <2>1 DEF TypeOK
  <1>2. Runs
    BY DEF Runs, Idle, Publishes
  <1>3. Staged /\ Keeps /\ Beside
    BY DEF Staged, StagedOk, Keeps, Beside, Idle, Publishes
  <1>4. Links
    BY DEF Links, FileOk, Idle
  <1>5. Misses /\ Newest
    BY DEF Misses, Newest, Published
  <1> QED
    BY <1>1, <1>2, <1>3, <1>4, <1>5 DEF IInv, TInv

\* All parts of the invariant hold in every state of publishing, whatever fails
\* and however runs overlap.
THEOREM Invariance == Spec => []IInv
  <1>1. IInv /\ [Next]_vars => IInv'
    BY RunsStep, StagedStep, LinksStep, KeepsStep, MissesStep, BesideStep, NewestStep DEF IInv
  <1> QED
    BY InitInv, <1>1, PTL DEF Spec

\* A run that ended well has published all that it built.
LEMMA DoneHasPublished ==
  ASSUME IInv, NEW i \in Image, NEW r \in Run, outcome[r] = "done", i \in made[r]
  PROVE  Published(r, i)
  <1>1. ASSUME NEW s \in Slot PROVE job[s].run # r
    <2>1. CASE job[s].at = "idle"
      <3>1. job[s] = Idle
        BY <2>1, JobFields DEF IInv, TInv
      <3> QED
        BY <3>1 DEF Idle, Run
    <2>2. CASE job[s].at # "idle"
      BY <2>2 DEF IInv, TInv, Runs
    <2> QED
      BY <2>1, <2>2
  <1> QED
    BY <1>1 DEF IInv, Keeps, Published

\* The variables have their types: each run that has not ended is that of one slot.
THEOREM TypeCorrect == Spec => []TypeOK
  <1>1. IInv => TypeOK
    BY DEF IInv, TInv
  <1> QED
    BY Invariance, <1>1, PTL

\* A link that main_run_publish() made leads to a complete image, whatever fails
\* and however runs overlap, unless two runs took one timestamp or a file was
\* left incomplete in a persistent staging directory.
THEOREM LinkedImages == Spec => []LinkLeadsToImage
  <1>1. IInv => LinkLeadsToImage
    BY DEF IInv, Links, Good, LinkLeadsToImage
  <1> QED
    BY Invariance, <1>1, PTL

\* The images of a run of mkimage.py that ended well stay in the directory of the
\* profile, complete: no later run and no failure replaces them.
THEOREM ImagesKept == Spec => []CompletedRunsKeepTheirImages
  <1>1. IInv => CompletedRunsKeepTheirImages
    BY DEF IInv, Keeps, Kept, CompletedRunsKeepTheirImages
  <1> QED
    BY Invariance, <1>1, PTL

\* What is in a staging directory belongs to the run at work there or to runs
\* that were stopped: main_run_publish() leaves nothing behind.
THEOREM StagingExplained == Spec => []StagedImagesExplained
  <1>1. IInv => StagedImagesExplained
    BY DEF IInv, Staged, StagedOk, StagedImagesExplained
  <1> QED
    BY Invariance, <1>1, PTL

\* The link of a published image is missing only while a run is between unlink()
\* and symlink(), or since one was stopped after it moved its image into place.
THEOREM MissingExplained == Spec => []MissingLinkExplained
  <1>1. IInv => MissingLinkExplained
    BY DoneHasPublished DEF IInv, Misses, Lost, MissingLinkExplained
  <1> QED
    BY Invariance, <1>1, PTL

\* A link leads to the newest image of the runs of mkimage.py that ended well,
\* unless the run that made the link was publishing beside that run.
THEOREM NewestLinked == Spec => []NewestLinkUnlessOverlap
  <1>1. IInv => NewestLinkUnlessOverlap
    BY DoneHasPublished DEF IInv, Newest, NewestLinkUnlessOverlap
  <1> QED
    BY Invariance, <1>1, PTL
=============================================================================
