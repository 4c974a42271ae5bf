------------------------------ MODULE DiskJob ------------------------------
(***************************************************************************)
(* convert-tar-to-disk.py: main_create_disk_image() opens a stack of       *)
(* storage resources of the build host (loop device, arrays, LUKS mapping, *)
(* volume group, mounts), registers each one in a DJ object, fills the     *)
(* image, and DJ.__exit__() closes what is registered.  Only then is the   *)
(* image packed.                                                           *)
(*                                                                         *)
(* A job is one run of the program.  Jobs share the host: its device names *)
(* (all jobs use the same ones, as the default config makes them) and the  *)
(* default mount root.  Any command may fail, and the user may interrupt   *)
(* the program at any point, which ends the command that runs.             *)
(***************************************************************************)
EXTENDS DiskConfig

CONSTANTS Job,
          ChrootDirs,    \* what is mounted for the chroot, in order
          MaxFaults      \* bound on commands that fail and on interrupts

NoConfig == <<>>
NoId == [kind |-> "none", name |-> "none"]
Kind == {"loop", "md", "luks", "vg", "mount"}

ASSUME ChrootAssumption == ChrootDirs \in Seq(Dir \ {"/"})
ASSUME MaxFaultsAssumption == MaxFaults \in Nat

VARIABLES
    doc,      \* doc[j]: the document that describes the disk of job j
    cfg,      \* cfg[j]: the disk config made of it
    phase,    \* phase[j]: "parse", "setup", "cleanup", "pack", "done" or "failed"
    pos,      \* pos[j]: the step of its plan that the job is at
    reg,      \* reg[j][kind]: what the DJ object has registered, oldest first
    closing,  \* closing[j]: what __exit__ has left to visit
    errors,   \* errors[j]: why closing something failed
    hit,      \* hit[j]: how the body of the "with" ended
    unseen,   \* history: unseen[j]: a umount failed, and mount_close() went on
    dev,      \* active block devices of the host
    vgs,      \* volume groups the host can see
    mounts,   \* mounts below the mount root, oldest first
    faults    \* failures and interrupts so far

vars == <<doc, cfg, phase, pos, reg, closing, errors, hit, unseen, dev, vgs, mounts, faults>>
host == <<dev, vgs, mounts>>

-----------------------------------------------------------------------------
(* The body of the "with" as a sequence of commands.                       *)

Loop(j) == [kind |-> "loop", name |-> j]
Array(part) == [kind |-> "md", name |-> part]
Crypt == [kind |-> "luks", name |-> "root_pv_crypt"]
RootVg == [kind |-> "vg", name |-> "vg0"]
MountAt(d) == [kind |-> "mount", name |-> d]

BootDev(c, j) == IF c.bootRaid THEN Array("boot") ELSE Loop(j)
RaidDev(c, j) == IF c.rootRaid THEN Array("root") ELSE Loop(j)
RootPv(c, j) == IF c.luks THEN Crypt ELSE RaidDev(c, j)

\* A command: what it does, the resource it makes, what it works on.
Cmd(op, id, on) == <<[op |-> op, id |-> id, on |-> on]>>
When(cond, steps) == IF cond THEN steps ELSE <<>>

\* init_fs(): a btrfs is mounted once to create its subvolumes; one that has
\* no mount directory is refused before mkfs.  A swap is never mounted.
InitFs(v, on) ==
    LET btrfs == v.fstype = "btrfs" IN
      IF btrfs /\ v.dir = NoDir THEN Cmd("refuse", NoId, on)
      ELSE Cmd("run", NoId, on)
             \o When(btrfs, Cmd("mount", MountAt(v.dir), on) \o Cmd("run", NoId, on)
                              \o Cmd("umount", MountAt(v.dir), on))
             \o When(v.dir # NoDir /\ v.fstype # "swap", Cmd("mount", MountAt(v.dir), on))

InitEach(volumes, on) == FlattenSeq([i \in DOMAIN volumes |-> InitFs(volumes[i], on)])

ExtraVolumes(c) ==
    FlattenSeq([i \in DOMAIN c.volumes |->
                   Cmd("lvcreate", RootVg, NoId) \o InitFs(c.volumes[i], RootVg)])

ChrootMounts == [i \in DOMAIN ChrootDirs |->
                    [op |-> "mount", id |-> MountAt(ChrootDirs[i]), on |-> NoId]]

\* "run" is any command that only fills the image.  Here truncate and sfdisk.
PartitionImage == Cmd("run", NoId, NoId) \o Cmd("run", NoId, NoId)

OpenRootPv(c, j) ==
    When(c.rootRaid, Cmd("create", Array("root"), Loop(j)))
      \o When(c.luks, Cmd("run", NoId, RaidDev(c, j)) \o Cmd("open", Crypt, RaidDev(c, j)))

\* A fault that the checks detect: /boot is mounted before there is a volume group.
OpenRootVgAfterBoot(c, j) == InitEach(c.boot, BootDev(c, j))
                               \o Cmd("run", NoId, RootPv(c, j))
                               \o Cmd("vgcreate", RootVg, RootPv(c, j))
                               \o Cmd("vgchange", RootVg, NoId)

OpenRootVg(c, j) == Cmd("run", NoId, RootPv(c, j))
                      \o Cmd("vgcreate", RootVg, RootPv(c, j))
                      \o Cmd("vgchange", RootVg, NoId)

MakeFilesystems(c, j) ==
    Cmd("lvcreate", RootVg, NoId)
      \o InitEach(c.root, RootVg)
      \o InitEach(c.boot, BootDev(c, j))
      \o InitEach(c.esp \o c.swap, Loop(j))
      \o ExtraVolumes(c)

\* mdadm.conf (which needs the arrays), crypttab, fstab, the UUIDs in the boot
\* files, the initramfs, grub and snapper.  The shell of --exec-chroot, whose
\* result nobody looks at, is left out.
ConfigureRootfs(c, j) ==
    When(c.bootRaid, Cmd("run", NoId, Array("boot")))
      \o When(c.rootRaid, Cmd("run", NoId, Array("root")))
      \o When(c.luks, Cmd("run", NoId, NoId))
      \o Cmd("run", NoId, NoId)
      \o Cmd("run", NoId, NoId)
      \o Cmd("run", NoId, NoId)
      \o When(~c.uefi, Cmd("run", NoId, Loop(j)))
      \o When(c.snapper /\ c.root[1].fstype = "btrfs", Cmd("run", NoId, NoId))

Plan(c, j) ==
    PartitionImage
      \o Cmd("open", Loop(j), NoId)
      \o When(c.bootRaid, Cmd("create", Array("boot"), Loop(j)))
      \o OpenRootPv(c, j)
      \o OpenRootVg(c, j)
      \o MakeFilesystems(c, j)
      \o Cmd("unpack", NoId, NoId)
      \o ChrootMounts
      \o ConfigureRootfs(c, j)

Step(j) == Plan(cfg[j], j)[pos[j]]

-----------------------------------------------------------------------------
(* The host.                                                               *)

Active(id) == id = NoId \/ \E d \in dev : d.id = id
Busy(id) == \/ \E d \in dev : d.on = id
            \/ \E i \in DOMAIN mounts : mounts[i].on = id

\* The mount that a path leads to: the newest at the directory or above it.
Covers(i, d) == mounts[i].dir \in {d} \cup Above[d]
Visible(i, d) == /\ i \in DOMAIN mounts
                 /\ Covers(i, d)
                 /\ \A k \in DOMAIN mounts : Covers(k, d) => k <= i

MountPoint(d) == \E i \in DOMAIN mounts : Visible(i, d) /\ mounts[i].dir = d

\* A mount cannot go while another one is mounted inside it.
Inside(d) == \E i, k \in DOMAIN mounts :
                 i < k /\ Visible(i, d) /\ d \in Above[mounts[k].dir]

\* The command succeeds unless something is wrong that the model does not show.
Possible(s) ==
    CASE s.op = "refuse" -> FALSE
      [] s.op \in {"open", "create"} -> Active(s.on) /\ \A d \in dev : d.id # s.id
      [] s.op = "vgcreate" -> Active(s.on) /\ vgs = {}
      [] s.op \in {"vgchange", "lvcreate"} -> vgs # {}
      [] s.op = "umount" -> MountPoint(s.id.name) /\ ~Inside(s.id.name)
      [] OTHER -> Active(s.on)

\* A volume group holds the device below it once a logical volume is active,
\* and lvcreate makes the new one active.
OpenOnHost(j, s) ==
    /\ dev' = CASE s.op \in {"open", "create"} -> dev \cup {[id |-> s.id, on |-> s.on, job |-> j]}
                [] s.op = "lvcreate" ->
                       dev \cup {[id |-> RootVg, on |-> v.on, job |-> v.job] : v \in vgs}
                [] OTHER -> dev
    /\ vgs' = IF s.op = "vgcreate" THEN {[on |-> s.on, job |-> j]} ELSE vgs
    /\ mounts' = CASE s.op = "mount" -> Append(mounts, [dir |-> s.id.name, on |-> s.on, job |-> j])
                   [] s.op = "umount" ->
                          RemoveAt(mounts, CHOOSE i \in DOMAIN mounts : Visible(i, s.id.name))
                   [] OTHER -> mounts

\* Closing a device takes the volume group that is on it away.
CloseOnHost(id) ==
    IF id.kind = "mount"
    THEN /\ mounts' = RemoveAt(mounts, CHOOSE i \in DOMAIN mounts : Visible(i, id.name))
         /\ UNCHANGED <<dev, vgs>>
    ELSE /\ dev' = {d \in dev : d.id # id}
         /\ vgs' = {v \in vgs : v.on # id}
         /\ UNCHANGED mounts

-----------------------------------------------------------------------------
(* The DJ object: a register for each kind of resource.                    *)

NoneRegistered == [kind \in Kind |-> <<>>]

Drop(r, id) == [r EXCEPT ![id.kind] = RemoveFirst(@, id)]

\* A fault that the checks detect: the volume group is not registered.
RegisterWithoutVg(r, s) ==
    CASE s.op = "umount" -> Drop(r, s.id)
      [] s.op \in {"open", "create", "mount"} /\ s.id \notin Range(r[s.id.kind]) ->
             [r EXCEPT ![s.id.kind] = Append(@, s.id)]
      [] OTHER -> r

\* The registers are ordered dictionaries: an old key keeps its place.
Register(r, s) ==
    CASE s.op = "umount" -> Drop(r, s.id)
      [] s.op \in {"open", "create", "vgchange", "mount"} /\ s.id \notin Range(r[s.id.kind]) ->
             [r EXCEPT ![s.id.kind] = Append(@, s.id)]
      [] OTHER -> r

\* mdadm_dev_register() is called before mdadm --create, all others after.
RegisterEarly(r, s) == IF s.op = "create" THEN Register(r, s) ELSE r

\* Faults that the checks detect: oldest first; the arrays are forgotten.
CloseOldestFirst(r) == r["mount"] \o r["vg"] \o r["luks"] \o r["md"] \o r["loop"]

CloseNoArrays(r) == Reverse(r["mount"]) \o Reverse(r["vg"]) \o Reverse(r["luks"])
                      \o Reverse(r["loop"])

\* __exit__: mounts, volume groups, LUKS, arrays, loop devices, newest first.
CloseOrder(r) == Reverse(r["mount"]) \o Reverse(r["vg"]) \o Reverse(r["luks"])
                   \o Reverse(r["md"]) \o Reverse(r["loop"])

-----------------------------------------------------------------------------
Init == /\ doc \in [Job -> DocSpace]
        /\ cfg = [j \in Job |-> NoConfig]
        /\ phase = [j \in Job |-> "parse"]
        /\ pos = [j \in Job |-> 1]
        /\ reg = [j \in Job |-> NoneRegistered]
        /\ closing = [j \in Job |-> <<>>]
        /\ errors = [j \in Job |-> {}]
        /\ hit = [j \in Job |-> [how |-> "completed", id |-> NoId]]
        /\ unseen = [j \in Job |-> FALSE]
        /\ dev = {}
        /\ vgs = {}
        /\ mounts = <<>>
        /\ faults = 0

\* load_disk_config(): a document that is refused ends the program.
LoadConfig(j) ==
    /\ phase[j] = "parse" /\ Accepted(doc[j])
    /\ cfg' = [cfg EXCEPT ![j] = Parse(doc[j])]
    /\ phase' = [phase EXCEPT ![j] = "setup"]
    /\ UNCHANGED <<doc, pos, reg, closing, errors, hit, unseen, host, faults>>

RefuseConfig(j) ==
    /\ phase[j] = "parse" /\ ~ Accepted(doc[j])
    /\ phase' = [phase EXCEPT ![j] = "failed"]
    /\ UNCHANGED <<doc, cfg, pos, reg, closing, errors, hit, unseen, host, faults>>

InSetup(j) == phase[j] = "setup" /\ pos[j] <= Len(Plan(cfg[j], j))

\* The body ends and __exit__ begins, with what is in r registered.
Leave(j, r, how, id) == /\ phase' = [phase EXCEPT ![j] = "cleanup"]
                        /\ reg' = [reg EXCEPT ![j] = r]
                        /\ closing' = [closing EXCEPT ![j] = CloseOrder(r)]
                        /\ hit' = [hit EXCEPT ![j] = [how |-> how, id |-> id]]
                        /\ UNCHANGED <<doc, cfg, pos, errors, unseen>>

RunStep(j) ==
    /\ InSetup(j)
    /\ Possible(Step(j))
    /\ OpenOnHost(j, Step(j))
    /\ reg' = [reg EXCEPT ![j] = Register(@, Step(j))]
    /\ pos' = [pos EXCEPT ![j] = @ + 1]
    /\ UNCHANGED <<doc, cfg, phase, closing, errors, hit, unseen, faults>>

\* The state of the host makes the command fail: CalledProcessError, or
\* RuntimeError for a umount.
RefuseStep(j) ==
    /\ InSetup(j)
    /\ ~Possible(Step(j))
    /\ Leave(j, RegisterEarly(reg[j], Step(j)), "refused", Step(j).id)
    /\ UNCHANGED <<host, faults>>

\* It fails for a reason of its own, with no effect.
FailStep(j) ==
    /\ InSetup(j)
    /\ faults < MaxFaults
    /\ Leave(j, RegisterEarly(reg[j], Step(j)), "failed", Step(j).id)
    /\ faults' = faults + 1
    /\ UNCHANGED host

\* KeyboardInterrupt while the command runs or before its result is registered.
InterruptStep(j) ==
    /\ InSetup(j)
    /\ faults < MaxFaults
    /\ Leave(j, RegisterEarly(reg[j], Step(j)), "interrupted", Step(j).id)
    /\ faults' = faults + 1
    /\ \/ Possible(Step(j)) /\ OpenOnHost(j, Step(j))
       \/ UNCHANGED host

\* mount_close(): umount fails, and so does mountpoint(1), which then does not find
\* what is mounted: "assume already unmounted".  Whatever keeps both from working
\* counts as one fault.
PassUnmount(j) ==
    /\ InSetup(j)
    /\ Step(j).op = "umount"
    /\ faults < MaxFaults
    /\ faults' = faults + 1
    /\ unseen' = [unseen EXCEPT ![j] = TRUE]
    /\ reg' = [reg EXCEPT ![j] = Register(@, Step(j))]
    /\ pos' = [pos EXCEPT ![j] = @ + 1]
    /\ UNCHANGED <<doc, cfg, phase, closing, errors, hit, host>>

SetupDone(j) == /\ phase[j] = "setup"
                /\ pos[j] > Len(Plan(cfg[j], j))
                /\ Leave(j, reg[j], "completed", NoId)
                /\ UNCHANGED <<host, faults>>

-----------------------------------------------------------------------------
InCleanup(j) == phase[j] = "cleanup" /\ closing[j] # <<>>
Closing(j) == Head(closing[j])

\* Present: there is something to close.  A volume group needs no active volume.
Present(id) == CASE id.kind = "mount" -> MountPoint(id.name)
                 [] id.kind = "vg" -> vgs # {}
                 [] OTHER -> Active(id)

Held(id) == IF id.kind = "mount" THEN Inside(id.name) ELSE Busy(id)

Visit(j) == /\ closing' = [closing EXCEPT ![j] = Tail(@)]
            /\ UNCHANGED <<doc, cfg, phase, pos, hit>>

CloseNext(j) ==
    /\ InCleanup(j)
    /\ Present(Closing(j)) /\ ~Held(Closing(j))
    /\ CloseOnHost(Closing(j))
    /\ reg' = [reg EXCEPT ![j] = Drop(@, Closing(j))]
    /\ Visit(j)
    /\ UNCHANGED <<errors, unseen, faults>>

\* mount_close(): umount fails, but the directory is no mountpoint: "assume
\* already unmounted".
CloseGoneMount(j) ==
    /\ InCleanup(j)
    /\ Closing(j).kind = "mount" /\ ~Present(Closing(j))
    /\ reg' = [reg EXCEPT ![j] = Drop(@, Closing(j))]
    /\ Visit(j)
    /\ UNCHANGED <<errors, unseen, host, faults>>

\* A fault that the checks detect: what cannot be closed is tried again.
CloseRefusedRetry(j) ==
    /\ InCleanup(j)
    /\ Present(Closing(j)) /\ Held(Closing(j))
    /\ errors' = [errors EXCEPT ![j] = @ \cup {"held"}]
    /\ UNCHANGED <<doc, cfg, phase, pos, reg, closing, hit, unseen, host, faults>>

CloseRefused(j) ==
    /\ InCleanup(j)
    /\ \/ Present(Closing(j)) /\ Held(Closing(j))
       \/ ~Present(Closing(j)) /\ Closing(j).kind # "mount"
    /\ errors' = [errors EXCEPT ![j] =
                     @ \cup {IF Present(Closing(j)) THEN "held" ELSE "absent"}]
    /\ Visit(j)
    /\ UNCHANGED <<reg, unseen, host, faults>>

\* losetup --detach of a device in use succeeds and leaves the rest to the kernel.
CloseDeferred(j) ==
    /\ InCleanup(j)
    /\ Closing(j).kind = "loop" /\ Held(Closing(j))
    /\ reg' = [reg EXCEPT ![j] = Drop(@, Closing(j))]
    /\ Visit(j)
    /\ UNCHANGED <<errors, unseen, host, faults>>

\* The command fails or is interrupted, before or after it took effect; the
\* bare "except" of __exit__ goes on with the next.
CloseFails(j) ==
    /\ InCleanup(j)
    /\ faults < MaxFaults
    /\ faults' = faults + 1
    /\ errors' = [errors EXCEPT ![j] = @ \cup {"failed"}]
    /\ Visit(j)
    /\ \/ Present(Closing(j)) /\ ~Held(Closing(j)) /\ CloseOnHost(Closing(j))
       \/ UNCHANGED host
    /\ UNCHANGED <<reg, unseen>>

\* As PassUnmount, in the cleanup.
CloseUnseen(j) ==
    /\ InCleanup(j)
    /\ Closing(j).kind = "mount" /\ Present(Closing(j))
    /\ faults < MaxFaults
    /\ faults' = faults + 1
    /\ unseen' = [unseen EXCEPT ![j] = TRUE]
    /\ reg' = [reg EXCEPT ![j] = Drop(@, Closing(j))]
    /\ Visit(j)
    /\ UNCHANGED <<errors, host>>

\* A fault that the checks detect: the collected errors are not raised.
CleanupDoneQuietly(j) ==
    /\ phase[j] = "cleanup"
    /\ closing[j] = <<>>
    /\ phase' = [phase EXCEPT ![j] = IF hit[j].how = "completed" THEN "pack" ELSE "failed"]
    /\ UNCHANGED <<doc, cfg, pos, reg, closing, errors, hit, unseen, host, faults>>

CleanupDone(j) ==
    /\ phase[j] = "cleanup"
    /\ closing[j] = <<>>
    /\ phase' = [phase EXCEPT ![j] =
                    IF hit[j].how = "completed" /\ errors[j] = {} THEN "pack" ELSE "failed"]
    /\ UNCHANGED <<doc, cfg, pos, reg, closing, errors, hit, unseen, host, faults>>

\* tar the image, then unlink it.
Pack(j) == /\ phase[j] = "pack"
           /\ phase' = [phase EXCEPT ![j] = "done"]
           /\ UNCHANGED <<doc, cfg, pos, reg, closing, errors, hit, unseen, host, faults>>

PackFails(j) == /\ phase[j] = "pack"
                /\ faults < MaxFaults
                /\ faults' = faults + 1
                /\ phase' = [phase EXCEPT ![j] = "failed"]
                /\ UNCHANGED <<doc, cfg, pos, reg, closing, errors, hit, unseen, host>>

AllEnded == (\A j \in Job : phase[j] \in {"done", "failed"}) /\ UNCHANGED vars

Progress(j) == \/ LoadConfig(j) \/ RefuseConfig(j) \/ RunStep(j) \/ RefuseStep(j) \/ SetupDone(j)
               \/ CloseNext(j) \/ CloseGoneMount(j) \/ CloseRefused(j) \/ CloseDeferred(j)
               \/ CleanupDone(j) \/ Pack(j)

Fault(j) == \/ FailStep(j) \/ InterruptStep(j) \/ PassUnmount(j)
            \/ CloseFails(j) \/ CloseUnseen(j) \/ PackFails(j)

Next == (\E j \in Job : Progress(j) \/ Fault(j)) \/ AllEnded

Spec == Init /\ [][Next]_vars

\* Every command returns in the end; none has to fail.
FairSpec == Spec /\ \A j \in Job : WF_vars(Progress(j))

-----------------------------------------------------------------------------
(* Properties.                                                             *)

Id == {Loop(j) : j \in Job} \cup {Array("boot"), Array("root"), Crypt, RootVg}
        \cup {MountAt(d) : d \in Dir}

OwnDevices(j) == {d \in dev : d.job = j}
OwnMounts(j) == {i \in DOMAIN mounts : mounts[i].job = j}
Clean(j) == OwnDevices(j) = {} /\ OwnMounts(j) = {}

\* The image is packed only after everything the job opened is closed: no
\* filesystem inside it can still change or be half written.
PackedImageIsClosed == \A j \in Job : phase[j] \in {"pack", "done"} => Clean(j)

VolumesOf(c) == c.root \o c.boot \o (c.esp \o c.swap) \o c.volumes
IsMounted(v) == v.fstype # "swap" /\ v.dir # NoDir
AtOnePlace(v, w) == IsMounted(v) /\ IsMounted(w) /\ v.dir = w.dir

\* Two mounts with one key in opened_mount (a volume at a chroot directory).
SharedKey(c) ==
    /\ c # NoConfig
    /\ \/ ~IsInjective(ChrootDirs)
       \/ \E i, k \in DOMAIN VolumesOf(c) : i # k /\ AtOnePlace(VolumesOf(c)[i], VolumesOf(c)[k])
       \/ \E i \in DOMAIN VolumesOf(c) : /\ IsMounted(VolumesOf(c)[i])
                                        /\ VolumesOf(c)[i].dir \in Range(ChrootDirs)

\* A command that closes something failed, whether the program noticed it or not.
CloseFailed(j) == "failed" \in errors[j] \/ unseen[j]

\* A command that fails, whichever it is, leaves nothing behind on the host: the
\* registers hold all that is open, and are closed in an order that works.
FailureLeavesNothing ==
    \A j \in Job : (/\ phase[j] = "failed"
                    /\ hit[j].how # "interrupted"
                    /\ ~CloseFailed(j)
                    /\ ~SharedKey(cfg[j])) => Clean(j)

\* Closing something is refused only for a reason: what is open is held by
\* something that an interrupt or an earlier failure left, and what is missing
\* is an array that mdadm did not create.
RefusalsExplained ==
    \A j \in Job :
        /\ "held" \in errors[j] =>
               hit[j].how = "interrupted" \/ CloseFailed(j) \/ SharedKey(cfg[j])
        /\ "absent" \in errors[j] => hit[j].how # "completed" /\ hit[j].id.kind = "md"

\* After an interrupt alone, what is left on the host is the resource whose
\* command was interrupted and what is held or hidden because of it, nothing else.
LeakIsInterruptedStack ==
    \A j \in Job : (/\ phase[j] = "failed"
                    /\ ~CloseFailed(j)
                    /\ ~SharedKey(cfg[j])) =>
        /\ \A d \in OwnDevices(j) : d.id = hit[j].id \/ Busy(d.id)
        /\ \A i \in OwnMounts(j) :
               \/ MountAt(mounts[i].dir) = hit[j].id
               \/ Inside(mounts[i].dir)
               \/ ~Visible(i, mounts[i].dir)

\* No volume is mounted at this directory or above it after the one that belongs there.
StaysVisible(c, d) ==
    \A i, k \in DOMAIN VolumesOf(c) :
        LET v == VolumesOf(c)[i]  w == VolumesOf(c)[k] IN
        i < k /\ IsMounted(v) /\ v.dir = d /\ IsMounted(w) => w.dir # d /\ w.dir \notin Above[d]

\* What the document asks for: no later entry takes the place of this one.  The
\* entry of an ESP says nothing about a disk that boots in the old way.
AskedFor(d, i) ==
    LET e == d.volumes[i] IN
    /\ e.enabled # "off" /\ e.fstype # "swap"
    /\ \A k \in DOMAIN d.volumes : k > i => ~ SameKey(e, d.volumes[k])
    /\ e.name = "esp" => d.boot_type = "uefi"

\* When the tarball is unpacked, each volume that the document asks for is where
\* it asks for it, unless a later one is mounted over it: its directory leads to
\* a filesystem of that job.
UnpackReachesVolumes ==
    \A j \in Job : (InSetup(j) /\ Step(j).op = "unpack") =>
        \A i \in DOMAIN doc[j].volumes :
            LET d == MntDir(doc[j].volumes[i]) IN
            AskedFor(doc[j], i) /\ d # NoDir /\ StaysVisible(cfg[j], d) =>
                \E m \in OwnMounts(j) : mounts[m].dir = d /\ Visible(m, d)

\* No two jobs have an array below the volume group: all such arrays have one name.
OneRootArray ==
    \A j, k \in Job : IsOn(doc[j].root_vg_raid) /\ IsOn(doc[k].root_vg_raid) => j = k

\* No two jobs have something mounted below the mount root that they share: the
\* volume group's name works as a lock, as nothing is mounted before it is
\* created and it is there as long as something is mounted.  This holds for two
\* jobs, and for any number of jobs no two of which have a root array.  Of three
\* jobs, one may stop the root array of another between its vgcreate and lvcreate,
\* as it has registered that name before its own mdadm --create; the volume group
\* is gone then, and the third job can make its own.
MountRootExclusive ==
    \A i, k \in DOMAIN mounts : mounts[i].job = mounts[k].job

\* A job ends, however many commands fail or are refused.
Termination == \A j \in Job : <>(phase[j] \in {"done", "failed"})
=============================================================================
