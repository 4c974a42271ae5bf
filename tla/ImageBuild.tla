----------------------------- MODULE ImageBuild -----------------------------
(***************************************************************************)
(* A build from the request to the image: mkimage.py resolves the          *)
(* collections (BuildCollections), their configuration is merged           *)
(* (MergeConfig), and build-image.py writes one script per phase that      *)
(* mmdebstrap runs.  A script first copies the overlays of the collections *)
(* and then runs their hooks; hooks hand files to later hooks through the  *)
(* staging directory, which may be left from an earlier build.             *)
(*                                                                         *)
(* A hook is what it does to the files that other hooks, the initramfs or  *)
(* the image take up.  A file is the set of the collections that put       *)
(* something into it.                                                      *)
(***************************************************************************)
EXTENDS BuildCollections, SequencesExt, TLC

CONSTANTS
    Variable, Word, Alias, MergeVars,   \* for MergeConfig
    Off,            \* the values that do not switch anything on
    Config,         \* the definitions in the config file of each collection
    Profiles(_),    \* the profiles considered for a set of collections
    Hooks,          \* sequence of [by, phase, number, rank, ops]: rank is by the name
    Overlays,       \* sequence of [by, phase, ops]
    ShellFunction,  \* set of [by, file]: what the functions.sh of a collection defines
    RootFile,       \* files of the root filesystem that are in the image as they are
    InitramfsFile,  \* files that matter for the initramfs only
    PublishFile,    \* files in the images directory
    LeftSpace,      \* the files that an earlier build may have left in the staging directory
    Kernel, Tar     \* the switches for a kernel, and for an image that mmdebstrap packs

VARIABLES
    defs, pos, vmap, merge,   \* the variables of MergeConfig
    schedule,   \* the operations of all scripts that are left, in order
    store,      \* the files that exist, with what is in them
    given,      \* pairs of a file and a collection that put something into it
    taken,      \* what was in a file when it was used last
    build       \* "resolve", "config", "hooks", "done", "failed"

config == <<defs, pos, vmap, merge>>
files == <<store, given, taken>>
buildVars == <<vars, config, schedule, files, build>>

Merge == INSTANCE MergeConfig WITH
             Name <- Variable, Password <- {}, Hashed <- {"$"}, Inputs <- {},
             Sinkhole <- "OFEAT_NET_SINKHOLE", RouteList <- "OCONF_NET_SINKHOLE_ROUTES_IP4",
             RouteCustom <- "OCONF_NET_SINKHOLE_ROUTES_IP4_CUSTOM", RouteSwitch <- <<>>,
             Network <- Word

EarlierBuild == "an earlier build"
Tool == "mmdebstrap"    \* and mkimage.py, which publishes what is there in the end

-----------------------------------------------------------------------------
(* The scripts.  An operation is done if all variables in "when" are on    *)
(* and something was put into all files in "asked".                        *)

Phases == <<"setup", "extract", "essential", "customize">>

Index(bcol) == CHOOSE i \in DOMAIN out : out[i] = bcol

\* A fault that the checks detect: a tie goes to the collection that comes later.
BeforeLaterFirst(g, h) ==
    \/ g.number < h.number
    \/ g.number = h.number /\ Index(g.by) > Index(h.by)
    \/ g.number = h.number /\ g.by = h.by /\ g.rank < h.rank

\* The sort key of main_build_hooks().
Before(g, h) ==
    \/ g.number < h.number
    \/ g.number = h.number /\ Index(g.by) < Index(h.by)
    \/ g.number = h.number /\ g.by = h.by /\ g.rank < h.rank

\* The operations of entries with overlays or hooks, in the order of the entries.
Operations(entries) ==
    FlattenSeq([i \in DOMAIN entries |->
        [k \in DOMAIN entries[i].ops |-> [by |-> entries[i].by] @@ entries[i].ops[k]]])

Script(p) ==
    LET overlaysOf(bcol) == SelectSeq(Overlays, LAMBDA o : o.phase = p /\ o.by = bcol)
        hooks == SelectSeq(Hooks, LAMBDA h : h.phase = p /\ h.by \in Range(out))
    IN  Operations(FlattenSeq([i \in DOMAIN out |-> overlaysOf(out[i])])
                     \o SortSeq(hooks, Before))

\* What follows a script: packages are installed between the last two, among them
\* a kernel with its initramfs; then the image is packed, and published.
Use(fs, when) == [by |-> Tool, kind |-> "snapshot", files |-> fs, when |-> when, asked |-> {}]

Following(p) ==
    CASE p = "essential" -> <<Use(InitramfsFile, {Kernel})>>
      [] p = "customize" -> <<Use(RootFile, {Tar}), Use(PublishFile, {})>>
      [] OTHER -> <<>>

Schedule == FlattenSeq([i \in DOMAIN Phases |-> Script(Phases[i]) \o Following(Phases[i])])

-----------------------------------------------------------------------------
BuildInit ==
    /\ Init
    /\ defs = <<>> /\ pos = 0 /\ vmap = <<>> /\ merge = "merge"
    /\ schedule = <<>>
    /\ store = <<>> /\ given = {} /\ taken = <<>>
    /\ build = "resolve"

Resolve == Step /\ UNCHANGED <<config, schedule, files, build>>

\* A fault that the checks detect: the profile is read first.
DefinitionsProfileFirst(profile) ==
    profile \o FlattenSeq([i \in DOMAIN out |-> Config[out[i]]])

\* The files that merge-config.py is given, in their order.
Definitions(profile) ==
    FlattenSeq([i \in DOMAIN out |-> Config[out[i]]]) \o profile

StartConfig ==
    /\ phase = "accepted" /\ build = "resolve"
    /\ \E profile \in Profiles(Range(out)) :
          LET start == Merge!Start(Definitions(profile)) IN
          /\ defs' = start.defs /\ pos' = start.pos
          /\ vmap' = start.vmap /\ merge' = start.merge
    /\ build' = "config"
    /\ UNCHANGED <<vars, schedule, files>>

MergeStep == /\ build = "config"
             /\ Merge!Next
             /\ UNCHANGED <<vars, schedule, files, build>>

ConfigFails == /\ build = "config"
               /\ merge \notin {"merge", "expand", "done"}
               /\ build' = "failed"
               /\ UNCHANGED <<vars, config, schedule, files>>

\* build-image.py writes the scripts; what a build before left is still there.
StartHooks ==
    /\ build = "config" /\ merge = "done"
    /\ schedule' = Schedule
    /\ \E left \in LeftSpace :
          store' = [f \in left |-> {EarlierBuild}]
                     @@ [f \in {s.file : s \in {t \in ShellFunction : t.by \in Range(out)}} |->
                            {s.by : s \in {t \in ShellFunction : t.file = f}}]
    /\ build' = "hooks"
    /\ UNCHANGED <<vars, config, given, taken>>

On(v) == v \in DOMAIN vmap /\ vmap[v] \notin Off
Content(f) == IF f \in DOMAIN store THEN store[f] ELSE {}

Due(o) == (\A v \in o.when : On(v)) /\ \A f \in o.asked : Content(f) # {}

\* What the operation needs to exist, or not to exist, is not as it has to be.
Impossible(o) ==
    \/ o.kind \in {"take", "extend", "remove"} /\ ~ o.files \subseteq DOMAIN store
    \/ o.kind = "create" /\ o.files \cap DOMAIN store # {}

\* A fault that the checks detect: a reset leaves a file that exists as it is.
AfterIfAbsent(o, f) == CASE o.kind = "reset" -> Content(f)
                         [] o.kind \in {"write", "create"} -> {o.by}
                         [] o.kind \in {"append", "extend"} -> Content(f) \cup {o.by}

\* A file after it was written.
After(o, f) == CASE o.kind = "reset" -> {}
                 [] o.kind \in {"write", "create"} -> {o.by}
                 [] o.kind \in {"append", "extend"} -> Content(f) \cup {o.by}

Writing == {"reset", "write", "create", "append", "extend"}
Taking == {"take", "snapshot"}

Perform(o) ==
    /\ store' = CASE o.kind \in Writing -> [f \in o.files |-> After(o, f)] @@ store
                  [] o.kind = "remove" -> Restrict(store, DOMAIN store \ o.files)
                  [] OTHER -> store
    /\ given' = CASE o.kind \in Writing \ {"reset"} -> given \cup (o.files \X {o.by})
                  [] o.kind = "remove" -> {g \in given : g[1] \notin o.files}
                  [] OTHER -> given
    /\ taken' = IF o.kind \in Taking
                THEN Restrict(store, o.files \cap DOMAIN store) @@ taken
                ELSE taken

Operate == /\ build = "hooks" /\ schedule # <<>>
           /\ Due(Head(schedule)) /\ ~ Impossible(Head(schedule))
           /\ Perform(Head(schedule))
           /\ schedule' = Tail(schedule)
           /\ UNCHANGED <<vars, config, build>>

Skip == /\ build = "hooks" /\ schedule # <<>>
        /\ ~ Due(Head(schedule))
        /\ schedule' = Tail(schedule)
        /\ UNCHANGED <<vars, config, files, build>>

\* "|| exit" after the hook: the script, mmdebstrap and the build fail.
HookFails == /\ build = "hooks" /\ schedule # <<>>
             /\ Due(Head(schedule)) /\ Impossible(Head(schedule))
             /\ build' = "failed"
             /\ UNCHANGED <<vars, config, schedule, files>>

Complete == /\ build = "hooks" /\ schedule = <<>>
            /\ build' = "done"
            /\ UNCHANGED <<vars, config, schedule, files>>

Ending == build \in {"done", "failed"} \/ phase \in Ended \ {"accepted"}

BuildNext == \/ Resolve \/ StartConfig \/ MergeStep \/ ConfigFails \/ StartHooks
             \/ Operate \/ Skip \/ HookFails \/ Complete
             \/ Ending /\ UNCHANGED buildVars

BuildSpec == BuildInit /\ [][BuildNext]_buildVars
=============================================================================
