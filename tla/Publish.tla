------------------------------ MODULE Publish ------------------------------
(***************************************************************************)
(* mkimage.py from the staging directory on: main() prepares it,           *)
(* main_run_build() has the images built in it and main_run_publish()      *)
(* moves each one to a name with a timestamp in the directory of the       *)
(* profile and lets a link without timestamp lead to it.                   *)
(*                                                                         *)
(* A slot is a terminal or a job of a scheduler from which one run after   *)
(* another is started; runs of several slots overlap.  All are runs of one *)
(* profile.  A slot uses its own persistent staging directory (-S) or a    *)
(* new temporary one for each run.  Any step may be the last of its run:   *)
(* an error, an interrupt or a crash.                                      *)
(***************************************************************************)
EXTENDS Naturals, FiniteSets

CONSTANTS Slot,
          Persistent,   \* the slots with a persistent staging directory
          CrossDevice,  \* the slots whose staging directory is on another filesystem
          Image,        \* names of images (with their suffixes)
          NoImage,
          Guarded,      \* images whose tool refuses to replace a file (zstd without -f)
          MaxRuns,      \* bound on the number of runs
          MaxTime       \* bound on the clock

ASSUME SlotAssumption == Persistent \subseteq Slot /\ CrossDevice \subseteq Slot
ASSUME ImageAssumption == Guarded \subseteq Image /\ NoImage \notin Image
ASSUME BoundAssumption == MaxRuns \in Nat /\ MaxTime \in Nat \ {0}

Run == 1..MaxRuns
Time == 1..MaxTime    \* the timestamp has a resolution of one second

\* A file: the run that built it, and whether it is complete.
Content == [run : 0..MaxRuns, whole : BOOLEAN]
NoFile == [run |-> 0, whole |-> FALSE]

Idle == [at |-> "idle", run |-> 0, todo |-> {}, image |-> NoImage]

VARIABLES
    clock,    \* the last timestamp
    started,  \* how many runs have been started: the last one has this number
    job,      \* job[s]: the run of slot s: where it is, what scandir() has left
    staged,   \* staged[s][i]: image i in <staging>/images
    file,     \* file[i][t]: image i in the directory of the profile, with timestamp t
    link,     \* link[i]: the timestamp of the file that the link leads to, or 0
    \* History: what became of each run, the last two of runs not stopped.
    stamp,    \* stamp[r]: the timestamp it took, or 0
    outcome,  \* outcome[r]
    made,     \* made[r]: the images that its build completed
    beside    \* beside[r]: the runs that were publishing when r took its timestamp

vars == <<clock, started, job, staged, file, link, stamp, outcome, made, beside>>
published == <<file, link>>
history == <<stamp, outcome, made, beside>>

-----------------------------------------------------------------------------
Init ==
    /\ clock = 1
    /\ started = 0
    /\ job = [s \in Slot |-> Idle]
    /\ staged = [s \in Slot |-> [i \in Image |-> NoFile]]
    /\ file = [i \in Image |-> [t \in Time |-> NoFile]]
    /\ link = [i \in Image |-> 0]
    /\ stamp = [r \in Run |-> 0]
    /\ outcome = [r \in Run |-> "none"]
    /\ made = [r \in Run |-> {}]
    /\ beside = [r \in Run |-> {}]

\* The staging directory: made if it is missing, or a new temporary one.
Start(s) ==
    /\ job[s].at = "idle" /\ started < MaxRuns
    /\ started' = started + 1
    /\ job' = [job EXCEPT ![s] = [at |-> "build", run |-> started + 1,
                                   todo |-> {}, image |-> NoImage]]
    /\ outcome' = [outcome EXCEPT ![started + 1] = "active"]
    /\ UNCHANGED <<clock, staged, published, stamp, made, beside>>

\* What the "with" leaves of a staging directory when the run ends.
Left(s, images) == IF s \in Persistent THEN images ELSE [i \in Image |-> NoFile]

\* build-image.py succeeds: some images are there anew, others as they were.
Build(s) ==
    /\ job[s].at = "build"
    /\ \E new \in SUBSET Image \ {{}} :
          /\ \A i \in new \cap Guarded : staged[s][i] = NoFile
          /\ staged' = [staged EXCEPT ![s] = [i \in Image |->
                            IF i \in new THEN [run |-> job[s].run, whole |-> TRUE] ELSE @[i]]]
          /\ made' = [made EXCEPT ![job[s].run] = new]
    /\ job' = [job EXCEPT ![s].at = "stamp"]
    /\ UNCHANGED <<clock, started, published, stamp, outcome, beside>>

\* build-image.py fails, for one image or for all, or is killed: what it had
\* begun to write stays behind, complete or not.
BuildFails(s) ==
    /\ job[s].at = "build"
    /\ \E begun \in SUBSET Image : \E complete \in SUBSET begun :
          /\ \A i \in begun \cap Guarded : staged[s][i] = NoFile
          /\ staged' = [staged EXCEPT ![s] = Left(s, [i \in Image |->
                            IF i \in begun THEN [run |-> job[s].run, whole |-> i \in complete]
                            ELSE @[i]])]
    /\ outcome' = [outcome EXCEPT ![job[s].run] = "stopped"]
    /\ job' = [job EXCEPT ![s] = Idle]
    /\ UNCHANGED <<clock, started, published, stamp, made, beside>>

\* --dry-run: no image is built, and nothing is published.
DryRun(s) ==
    /\ job[s].at = "build"
    /\ staged' = [staged EXCEPT ![s] = Left(s, @)]
    /\ outcome' = [outcome EXCEPT ![job[s].run] = "done"]
    /\ job' = [job EXCEPT ![s] = Idle]
    /\ UNCHANGED <<clock, started, published, stamp, made, beside>>

\* Any other step fails: what is in a temporary staging directory is lost.
Stop(s) ==
    /\ job[s].at \notin {"idle", "build"}
    /\ staged' = [staged EXCEPT ![s] = Left(s, @)]
    /\ outcome' = [outcome EXCEPT ![job[s].run] = "stopped"]
    /\ made' = [made EXCEPT ![job[s].run] = {}]
    /\ beside' = [beside EXCEPT ![job[s].run] = {}]
    /\ job' = [job EXCEPT ![s] = Idle]
    /\ UNCHANGED <<clock, started, published, stamp>>

-----------------------------------------------------------------------------
(* main_run_publish()                                                      *)

Publishing == {job[s].run : s \in {x \in Slot : job[x].at \notin {"idle", "build", "stamp"}}}

\* A fault that the checks detect: all links to be replaced are removed up front.
StampAndUnlink(s) ==
    /\ job[s].at = "stamp"
    /\ clock' \in clock..MaxTime
    /\ stamp' = [stamp EXCEPT ![job[s].run] = clock']
    /\ beside' = [beside EXCEPT ![job[s].run] = Publishing]
    /\ job' = [job EXCEPT ![s] = [at |-> "next", run |-> @.run, image |-> NoImage,
                                   todo |-> {i \in Image : staged[s][i] # NoFile}]]
    /\ link' = [i \in Image |-> IF staged[s][i] # NoFile THEN 0 ELSE link[i]]
    /\ UNCHANGED <<started, staged, file, outcome, made>>

\* The timestamp, some time after the last one, and the directory listing of a
\* handful of entries.
Stamp(s) ==
    /\ job[s].at = "stamp"
    /\ clock' \in clock..MaxTime
    /\ stamp' = [stamp EXCEPT ![job[s].run] = clock']
    /\ beside' = [beside EXCEPT ![job[s].run] = Publishing]
    /\ job' = [job EXCEPT ![s] = [at |-> "next", run |-> @.run, image |-> NoImage,
                                   todo |-> {i \in Image : staged[s][i] # NoFile}]]
    /\ UNCHANGED <<started, staged, published, outcome, made>>

Name(s) == stamp[job[s].run]

\* The run goes on at a with image i in its hands.
Take(s, a, i) ==
    job' = [job EXCEPT ![s] = [at |-> a, run |-> @.run, todo |-> @.todo \ {i}, image |-> i]]

\* shutil.move() on one filesystem: one rename(), which replaces a file of that name.
Rename(s) ==
    /\ job[s].at = "next" /\ s \notin CrossDevice
    /\ \E i \in job[s].todo :
          /\ file' = [file EXCEPT ![i][Name(s)] = staged[s][i]]
          /\ staged' = [staged EXCEPT ![s][i] = NoFile]
          /\ Take(s, "unlink", i)
    /\ UNCHANGED <<clock, started, link, history>>

\* A fault that the checks detect: nothing waits for the end of the copy.
StartCopyOnly(s) ==
    /\ job[s].at = "next" /\ s \in CrossDevice
    /\ \E i \in job[s].todo :
          /\ file' = [file EXCEPT ![i][Name(s)] = [run |-> staged[s][i].run, whole |-> FALSE]]
          /\ Take(s, "drop", i)
    /\ UNCHANGED <<clock, started, staged, link, history>>

\* shutil.move() between filesystems: copy, then remove the source.
StartCopy(s) ==
    /\ job[s].at = "next" /\ s \in CrossDevice
    /\ \E i \in job[s].todo :
          /\ file' = [file EXCEPT ![i][Name(s)] = [run |-> staged[s][i].run, whole |-> FALSE]]
          /\ Take(s, "copy", i)
    /\ UNCHANGED <<clock, started, staged, link, history>>

FinishCopy(s) ==
    /\ job[s].at = "copy"
    /\ file' = [file EXCEPT ![job[s].image][Name(s)] = staged[s][job[s].image]]
    /\ job' = [job EXCEPT ![s].at = "drop"]
    /\ UNCHANGED <<clock, started, staged, link, history>>

\* A fault that the checks detect: the image is copied, not moved.
KeepSource(s) ==
    /\ job[s].at = "drop"
    /\ job' = [job EXCEPT ![s].at = "unlink"]
    /\ UNCHANGED <<clock, started, staged, published, history>>

DropSource(s) ==
    /\ job[s].at = "drop"
    /\ staged' = [staged EXCEPT ![s][job[s].image] = NoFile]
    /\ job' = [job EXCEPT ![s].at = "unlink"]
    /\ UNCHANGED <<clock, started, published, history>>

\* A fault that the checks detect: a link that exists is left as it is.
UnlinkNothing(s) ==
    /\ job[s].at = "unlink"
    /\ job' = [job EXCEPT ![s] =
                  IF link[job[s].image] = 0 THEN [@ EXCEPT !.at = "link"]
                  ELSE [@ EXCEPT !.at = "next", !.image = NoImage]]
    /\ UNCHANGED <<clock, started, staged, published, history>>

\* A link that is missing is no error.
Unlink(s) ==
    /\ job[s].at = "unlink"
    /\ link' = [link EXCEPT ![job[s].image] = 0]
    /\ job' = [job EXCEPT ![s].at = "link"]
    /\ UNCHANGED <<clock, started, staged, file, history>>

\* symlink() fails if another run has made the link: then only Stop(s) is possible.
Link(s) ==
    /\ job[s].at = "link" /\ link[job[s].image] = 0
    /\ link' = [link EXCEPT ![job[s].image] = Name(s)]
    /\ job' = [job EXCEPT ![s] = [at |-> "next", run |-> @.run, todo |-> @.todo, image |-> NoImage]]
    /\ UNCHANGED <<clock, started, staged, file, history>>

\* A fault that the checks detect: only one image is published.
FinishEarly(s) ==
    /\ job[s].at = "next" /\ Cardinality(job[s].todo) <= 1
    /\ staged' = [staged EXCEPT ![s] = Left(s, @)]
    /\ outcome' = [outcome EXCEPT ![job[s].run] = "done"]
    /\ job' = [job EXCEPT ![s] = Idle]
    /\ UNCHANGED <<clock, started, published, stamp, made, beside>>

Finish(s) ==
    /\ job[s].at = "next" /\ job[s].todo = {}
    /\ staged' = [staged EXCEPT ![s] = Left(s, @)]
    /\ outcome' = [outcome EXCEPT ![job[s].run] = "done"]
    /\ job' = [job EXCEPT ![s] = Idle]
    /\ UNCHANGED <<clock, started, published, stamp, made, beside>>

-----------------------------------------------------------------------------
Fault(s) == BuildFails(s) \/ Stop(s)

Step(s) ==
    \/ Build(s) \/ DryRun(s) \/ Stamp(s) \/ Rename(s)
    \/ StartCopy(s) \/ FinishCopy(s) \/ DropSource(s)
    \/ Unlink(s) \/ Link(s) \/ Finish(s)

Next == \E s \in Slot : Start(s) \/ Step(s) \/ Fault(s)

Spec == Init /\ [][Next]_vars

-----------------------------------------------------------------------------
(* Properties                                                              *)

JobState ==
    {Idle} \cup [at : {"build", "stamp", "next"}, run : 1..started, todo : SUBSET Image,
                 image : {NoImage}]
           \cup [at : {"copy", "drop", "unlink", "link"}, run : 1..started, todo : SUBSET Image,
                 image : Image]

\* The variables have their types; every run that has not ended is that of one slot.
TypeOK ==
    /\ clock \in Time /\ started \in 0..MaxRuns
    /\ job \in [Slot -> JobState]
    /\ staged \in [Slot -> [Image -> Content]]
    /\ file \in [Image -> [Time -> Content]]
    /\ link \in [Image -> 0..MaxTime]
    /\ stamp \in [Run -> 0..MaxTime]
    /\ outcome \in [Run -> {"none", "active", "stopped", "done"}]
    /\ made \in [Run -> SUBSET Image]
    /\ beside \in [Run -> SUBSET Run]

\* Two runs took one timestamp: they publish to the same names.
Tied(t) == \E q, r \in Run : q # r /\ stamp[q] = t /\ stamp[r] = t

\* A link leads to a complete image, whatever fails and however runs overlap.
\* Two exceptions: two runs within one second, the second of which is copying
\* over the file, and a file that an earlier run left incomplete in a
\* persistent staging directory, which a later run publishes with its own.
LinkLeadsToImage ==
    \A i \in Image : link[i] # 0 =>
        LET f == file[i][link[i]] IN
        /\ f # NoFile
        /\ f.whole \/ Tied(link[i]) \/ stamp[f.run] # link[i]

\* What a run that ended well had built is in the directory of the profile,
\* complete, and stays there: no later run replaces it, within a second apart.
CompletedRunsKeepTheirImages ==
    \A r \in Run : outcome[r] = "done" =>
        \A i \in made[r] : \/ file[i][stamp[r]] = [run |-> r, whole |-> TRUE]
                           \/ Tied(stamp[r])

\* An image in a staging directory belongs to the run that is at work there or
\* to one that was stopped: a run that ended well leaves none of its own, and
\* none of an earlier one unless it was a dry run.
StagedImagesExplained ==
    \A s \in Slot, i \in Image : staged[s][i] # NoFile =>
        \/ staged[s][i].run = job[s].run
        \/ s \in Persistent /\ outcome[staged[s][i].run] = "stopped"

\* Once an image has been published, its link is missing only while a run is
\* about to make it, or since one was stopped there: that run had already moved
\* its image into place.
MissingLinkExplained ==
    \A i \in Image, r \in Run : outcome[r] = "done" /\ i \in made[r] /\ link[i] = 0 =>
        \/ \E s \in Slot : job[s].at = "link" /\ job[s].image = i
        \/ \E q \in Run : outcome[q] = "stopped" /\ stamp[q] # 0 /\ file[i][stamp[q]] # NoFile

\* A link leads to the newest image of the runs that ended well, unless the
\* older one was being published when the newer one took its timestamp.
NewestLinkUnlessOverlap ==
    \A i \in Image, r \in Run :
        outcome[r] = "done" /\ i \in made[r] /\ link[i] # 0 /\ link[i] < stamp[r] =>
            \E q \in beside[r] : stamp[q] = link[i]
=============================================================================
