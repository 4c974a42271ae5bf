# dbuild in TLA+

dbuild builds system images.  `mkimage.py` merges the configuration of a
profile with that of the *build collections* the profile uses, `build-image.py`
lets mmdebstrap build a root filesystem and run the collections' hooks in it,
and `convert-tar-to-disk.py` turns the resulting tarball into a disk image.
This directory holds TLA+ modules that model these programs, the TLC
configurations that check the modules on small instances, and proofs that the
TLA+ proof system checks for every instance.

    tlc -config MCDiskJob.cfg MCDiskJob        check an instance
    tlapm BuildCollectionsProofs.tla           check the proofs

`PROJECT.json` lists the components, the runs, the source lines that each
definition models, the hazards of the code and the theorems.

## 1. The system

### Components

| component | source | state it keeps | operations | module |
|---|---|---|---|---|
| build collection resolver | `build-scripts/mkimage.py:80-336` | the work lists and dependency maps of one function | scan, resolve, check directories | `BuildCollections` |
| config merge | `build-scripts/merge-config.py` | declared variables, aliases, merged values | merge a definition, expand passwords and routes | `MergeConfig` |
| hook scheduler | `build-scripts/build-image.py` | the list of overlays, hooks and mmdebstrap options | sort, emit | `ImageBuild` |
| hook staging protocol | `collections/*/hooks`, `overlay` | files that a hook leaves for later hooks, the initramfs or the image | reset, append, take up, remove | `ImageBuild` |
| sysusers merge | `build-scripts/make_sysusers.py` | four databases by name and by id, the position in each id range | load, compute an id, add or update a group or user, grant memberships, write | `Sysusers` |
| disk config parser | `convert-tar-to-disk.py:552-880` | none (a document to records) | parse, refuse | `DiskConfig` |
| disk image job | `convert-tar-to-disk.py`: class `DJ`, `init_fs`, `main_create_disk_image` | devices, volume groups and mounts of the build host; the five registers of the `DJ` object | open and close each kind of resource, fill the image, clean up, pack | `DiskJob` |
| publish and staging | `mkimage.py:126-148` and `388-436` | staging directory, publish directory, links | make staging, run the build, publish | `Publish` |
| first boot | `collections/firstboot` | flag file, service, UUIDs, fstab, initramfs, boot loader | the steps of the initramfs scripts and of the service | `Firstboot` |
| networkd autoconfiguration | `collections/lxc/.../autoconfig-networkd-interfaces.py` | checksum file, network files | parse, compare, delete, write | `NetAutoconfig` |
| nftables rule editor, symlink fixer | `build-scripts/nft_rules_add.py`, `fix-symlinks.py` | one file; the links of a tree | edit; unlink and recreate | not modelled |
| shell hooks, package lists, conversion, wrappers | `collections`, `profiles`, `mkimage` | — | straight sequences of file writes, data, external tools | not modelled |

### How they interact

`mkimage.py` resolves the request, hands the ordered list to the config merge
and writes a config for `build-image.py`.  The same order decides the order of
overlays and, among hooks with equal numbers, of hooks: what the resolver
promises about the order is what every later part relies on.  Hooks of different
collections do not call each other; they exchange staging files inside the
target root (one resets, several append, one consumes).  A publishing hook runs
`convert-tar-to-disk.py` as a child process, whose output ends in the staging
directory that `mkimage.py` publishes after the build.  A shipped image runs the
first boot and autoconfiguration scripts by itself, with nobody to look at an
error.

### What is hard in it

* **Order.**  Three kinds of dependency (`depends`, `wants`, `after`), "`*`" for
  "after all others", and virtual collections that are ordered but never emitted.
* **Partial failure.**  Some forty external commands run while up to five kinds of
  resources of the *host* are open.  Each may fail and the user may press Ctrl-C.
* **Sharing.**  Two disk jobs on one host use the same default mount root, array
  names, mapping name and volume group name.  Two builds of one profile use the
  same publish directory.
* **Crashes.**  Publishing, the first boot and the network autoconfiguration each
  replace several files, one after the other.
* **Repetition.**  The account request is merged twice, and packages change the
  account files in between.
* **Bounded ranges.**  Account ids come from fixed ranges and may be taken already.

### What makes each component correct

* *Resolver*: it ends; it yields exactly what the request selects, once, in an order
  that respects every need; it gives up only on a real cycle; it leaves a valid
  request as it is.
* *Disk job*: an image is packed only when nothing in it is open; a failed command
  leaves nothing on the host; an interrupt leaves no more than it must; two jobs
  never mount into each other's tree; each volume receives its own files.
* *Disk config*: each volume the user lists is initialised and mounted, or refused.
* *Publish*: a link, once published, always leads to a complete image; two builds do
  not lose each other's images.
* *Sysusers*: an id that is added is nobody else's; each primary group exists; no
  account or membership that was there is lost; merging again changes nothing.
* *Hooks*: what a hook contributes is still there when it is used, nothing of an
  earlier build is used, and no hook misses what another should have left.
* *Config merge*: a variable has one value under all its names, declared before set.
* *First boot, autoconfiguration*: after a power loss at any point the next start
  completes the work or repeats it.

## 2. Modules

    CollectionGraph          what selection, need and cycle mean, with no algorithm
      TopoOrder              abstract: collections are placed one at a time
      BuildCollections       the resolver; implements TopoOrder
        MCBuildCollections   all meta files over three names (small shapes)
        BuildCollectionsProofs
        ImageBuild           resolver, config merge and hooks, one after the other
          MCRealCollections  the collections that the repository ships
    MergeConfig              definitions to values (ImageBuild has an instance)
      MCMergeConfig
      MergeConfigProofs
    Sysusers                 two runs of make_sysusers.py, and packages
      MCSysusers             all requests of up to two lines
      MCRealSysusers         the requests of the shipped collections
      SysusersProofs
    DiskConfig               a document to a disk config
      DiskJob                jobs and their host
        MCDiskJob            one job, or two
        DiskPlanProofs       what a plan and the registers are, for every document
          DiskJobProofs      the invariant, the mount root, what is packed, where volumes are,
                             what a cleanup leaves
    Publish                  overlapping runs of mkimage.py from the staging directory on
      MCPublish
      PublishProofs
    Firstboot                the boots of a shipped image
      MCFirstboot
      FirstbootProofs
    NetAutoconfig            the boots of a container
      MCNetAutoconfig
      NetAutoconfigProofs

### CollectionGraph and TopoOrder

`CollectionGraph` states the meaning of the meta files: `Selected` is the least set
that contains the request and is closed under `depends` and `wants`; `Requires` are
the selected collections that come directly before one; `Needs` is its closure;
`HasCycle` says that some selected collections wait for each other.  These are least
fixpoints over sets, stated without recursion so that they can be used in proofs.
`TopoOrder` is the abstract specification: place any collection whose requirements
are placed; emit it unless it is virtual; stop when all are placed, or when none can.

### BuildCollections

It models `main_gen_expand_build_collections()` and the check in `main()` that
follows.  One action is one iteration of one of its loops:

| action | code |
|---|---|
| `ScanAgain`, `ScanName`, `RejectLateVirtual` | one name in the scan loop: known, new, or refused |
| `ScanRound` | the next round of names that were pulled in |
| `EvalDeps` | drop order-only dependencies, resolve "`*`" |
| `ResolveName`, `DeferName` | one queue entry in a pass |
| `NextPass`, `NoProgress` | the end of a pass |
| `CheckDirs` | `main()`: a directory for each collection |

The variables have the names of the code's, shortened (the declarations give the
correspondence).  `orderOnly` is the map that `setdefault()` fills: a name is
unset, "order" (met in an `after`) or "strict" (scanned).  The content of a meta
file is a record; its text format is left out.  The generator's consumer is left
out as well: the function's state does not depend on when it is resumed, and
`main()` collects all that it yields before it goes on.

With `--no-resolve-bcol-dep` the request is taken as it is; that path has no state
and is not modelled.

### MergeConfig

One action is one turn of the loop over the definitions of all files
(`merge_config_vars()`), in the order in which `mkimage.py` names the files:
collections, defaults, profile, command line.

| action | code |
|---|---|
| `MergeOne` | a definition is accepted; a variable that collects values appends |
| `Refuse` | set before declared, declared twice, or an alias without end |
| `ExpandPasswords`, `HashFails` | `expand_config_pwvars()` and `mkpasswd` |
| `ExpandRoutes`, `InvalidRoute` | `expand_config_net_sinkhole()`; an additional route that is no network ends it |

A value is a sequence of words.  `unalias_varname()` follows the alias map until there
is no entry, or until a name comes again.  `Unaliased` follows it as often as it has
entries, which is long enough for either, and `Circular` looks whether there still is
one; the properties state what that should mean by other means (`Endless`: a set of
old names that aliases do not leave).  The quoting and
line format of the files and the aggregation of address ranges are left out.

### ImageBuild

It composes the resolver, an instance of `MergeConfig`, and the scripts that
`build-image.py` writes: one for each phase of mmdebstrap, first the overlays of the
collections in their order, then the hooks sorted by number, position of the
collection, and name.  A sortable name is a `rank` within its number.

| action | code |
|---|---|
| `Resolve` | a step of `BuildCollections` |
| `StartConfig`, `MergeStep`, `ConfigFails` | merge-config.py on the collections' files and a profile |
| `StartHooks` | build-image.py; a staging directory may hold files of an earlier build |
| `Operate`, `Skip`, `HookFails` | one operation of a hook or overlay: done, not asked for, or failing |
| `Complete` | the image is packed and there is something to publish |

A hook is what it does to files that *others* take up (`reset`, `write`, `append`,
`extend` a file that must exist, `create` one that must not, `take`, `remove`); the
conditions are the switches it tests (`when`) and files it looks into (`asked`).
What it does beyond that is its own affair and left out, as are failures of its
other commands, which end the build as a missing file does.  A file is the set of
collections that put something into it.  mmdebstrap is external: between the phases
"essential" and "customize" it installs packages, among them a kernel, whose
initramfs takes up what is there then (`Following`).  Of the calls of
`target_set_svc`, a shell function of collection `systemd`, only that of `base` is
listed: the others are in collections that depend on `systemd`.

### DiskConfig

`parse_disk_config()`: which documents are refused (`Accepted`), which entry of the
list of volumes counts when a name is there twice (`Counts`: the last, at its place,
and a disabled one removes the earlier), which dictionary it goes to (`IsLv`), and
what each switch is when it is missing (on).  `Parse` is the config that
`main_create_disk_image()` works on.  `DefaultDoc` is the document of a run without
one.  UUIDs, labels, sizes, the text of mount options and the names of arrays and
mappings are left out; an empty string as a directory is not considered.

### DiskJob

A job is one run of `convert-tar-to-disk.py`: it parses its document, and
`Plan(c, j)` is the sequence of commands that `main_create_disk_image()` runs for the
disk config `c`.  Only what a command does to the resources of the host matters:
`open`, `create`, `vgcreate`, `vgchange`, `lvcreate`, `mount`, `umount`, `unpack`,
and `run` for each group of commands that only fill the image.  Conditions of the
code are `When(...)`.

The host is external to the program and is modelled from how the program uses it:

* `dev`: active devices, each with what it is on.  A device in use cannot be closed,
  except that `losetup --detach` may report success and leave the rest to the
  kernel (both outcomes are allowed, `CloseRefused` and `CloseDeferred`).
* `vgs`: volume groups.  A second one of the same name is refused.  A volume group
  holds the device below it only once a logical volume is active.
* `mounts`: a sequence, as a mount hides what was mounted before at or below its
  directory (`Visible`).  A mount with others inside is busy.

`reg[j]` has the five ordered dictionaries of `DJ`, one for each kind of resource;
`CloseOrder` goes through them kind by kind and takes the newest first, as `__exit__`
does.  A key that is set again keeps its place.  The registers' early or late update relative to the command
is what the code does: an array is registered *before* `mdadm --create`, everything
else *after* its command.

| action | code |
|---|---|
| `LoadConfig`, `RefuseConfig` | `load_disk_config()` |
| `RunStep` | the command succeeds and its result is registered |
| `RefuseStep` | the host's state makes it fail |
| `FailStep` | it fails for another reason, with no effect |
| `PassUnmount` | `mount_close()`: umount fails, and mountpoint(1) too, so the program goes on |
| `InterruptStep` | KeyboardInterrupt, before or after it took effect |
| `SetupDone` | the body of the `with` ends |
| `CloseNext`, `CloseGoneMount`, `CloseRefused`, `CloseDeferred`, `CloseFails`, `CloseUnseen` | one iteration in `__exit__`; `CloseUnseen` is what `PassUnmount` is in the body |
| `CleanupDone` | `__exit__` raises, or lets the exception or the result through |
| `Pack`, `PackFails` | tar, then unlink the image |

`unseen` is a history variable: a umount of the job failed and the program did not
notice.

Simplifications: all jobs use the default names (so they clash wherever two jobs
with similar configs could); whatever keeps umount and mountpoint(1) from working
together is one fault; the shell in the chroot that `--exec-chroot` asks for (lines
1944-1946) is left out, since its result is not looked at and an interrupt there
leaves what one before the end of the body leaves; an interrupt that hits `__exit__` outside its `try`
blocks (the loop headers) is left out; `mountpoint` on a hidden mount reports no
mount point, as the kernel does for the path; a job's own output directory is its
own.

### Sysusers

`make_sysusers.py` runs twice in a build: early, before the packages of the image are
installed, and late.  Both runs read the same request file.  `run` says which one it
is, `pc` which block of `merge_sysusers()` comes next (or the error that ended the
build), `etc` is the content of the account files and `db` that of
`users_groups_db`.  `passwd` and `shadow` are the functions `uid`, `pgid` and
`shadow` from names, `group` and `gshadow` are `gid`, `mem` and `gshadow`; `NoId`
means that there is no entry.

| action | code |
|---|---|
| `Load`, `LoadFails` | `load_users_groups_db()`; `EntryDB.add()` refuses a second id |
| `AddGroup`, `AddGroupFails`, `UpdateGroup` | `update_or_add_group()` and the gshadow entry, for one line |
| `AddUser`, `AddUserFails`, `UpdateUser` | the rest of the line: user, groups to grant, shadow entry |
| `LinesDone` | the end of the loop |
| `GrantNewGroup`, `GrantNewGroupFails`, `Grant`, `GrantFound`, `GrantFails` | one group in the loop over `group_members_map` |
| `GrantsDone`, `Write` | the end of that loop; the four calls of `write_outfile()` |
| `InstallGroup`, `InstallUser`, `InstallMember`, `InstallShadow` | packages, external |
| `LateRun` | the hook that runs the program again |

Three things of the code need care and are modelled by what they do:

* `uidKeys` and `gidKeys` are the keys of `by_id`.  An update of an id changes the
  entry only, so they are not what `InUse` says of `db`.
* `UidGidGenerator.get()` returns the *entry* of a name that exactly one of the two
  databases has.  The entry is not hashable, and adding it fails (`GivesEntry`).
* The members of a group that was loaded are the *text* of the field.  `in` then
  searches a part of it (`PartOf` says which names contain which), `add()` fails, and
  joining it when the entry is written puts a comma between any two characters, so
  that no name of two or more characters is left (`WrittenMembers`).

Simplifications: the order of members, the password, home, shell and comment fields
and the text formats are left out, as is a malformed file, which ends the run before
anything is written.  Names have two characters or more.  The four writes are one
step: hooks run one after the other, and a failure between two writes ends the build,
whose tree nobody uses.  `toGrant` lists a group once for each user that names it;
visits after the first change nothing, as all its users are granted at once.  A crash
is not modelled for the same reason as a partial write.

`moved` is a history variable: entries whose id a line replaced.  Properties use it
to say exactly what the code's habit of replacing ids costs.

### Publish

Runs of one profile, started from several slots (terminals, jobs of a scheduler).  A
slot has its own persistent staging directory, or each run makes a temporary one; the
staging directory may be on another filesystem than the publish directory.

| action | code |
|---|---|
| `Start` | `main()`: the staging directory |
| `Build`, `BuildFails`, `DryRun` | `main_run_build()` |
| `Stamp` | `main_run_publish()`: the timestamp, then the directory listing |
| `Rename` | `shutil.move()` on one filesystem |
| `StartCopy`, `FinishCopy`, `DropSource` | `shutil.move()` between filesystems |
| `Unlink`, `Link` | the link without timestamp is replaced |
| `Finish` | the end of the loop and of the `with` |
| `Stop` | an error, an interrupt or a crash at any of these |

`file[i][t]` is image `i` with timestamp `t`; a file knows which run built it and
whether it is complete.  `Guarded` images are made by a tool that refuses to replace
a file (`zstd` without `-f`).  What a build writes is chosen freely.  `stamp`,
`outcome`, `made` and `beside` are history.

### Firstboot

The disk of a shipped image (`uuid`, `fstab`, `grub`, `initrd`, `flag`, `service`)
and one boot after another.  The power may go between any two writes, commands may
fail, the service may time out, and somebody may restart the machine.

| action | code |
|---|---|
| `NotFound`, `Boot` | GRUB looks for the filesystem with `/boot`; kernel parameters |
| `Skip`, `Rewrite`, `Override` | `init-premount/firstboot-vm`: a filesystem per line of fstab, then `ROOT` |
| `CopyFails`, `RewriteFails`, `LineFails`, `OverrideFails` | its commands fail; it goes on as the script does |
| `NoRoot`, `Mount` | the initramfs mounts the root filesystem |
| `SetFlag`, `EnableService`, `InstallFstab`, `ScriptFails` | the three scripts of `local-bottom` |
| `Emergency`, `ComeUp` | `local-fs.target`; the service starts if the flag is there |
| `RemoveFlag`, `DisableService`, `UpdateInitramfs`, `InstallGrub`, `UpdateGrub` | `firstboot-unattended` |
| `DisableFails`, `GiveUp` | its commands fail, or the time is over |

UUIDs are counted up, the image's are 0.  `update-initramfs`, `grub-install` and
`update-grub` are external and modelled by their result: an initramfs without the
mode, and GRUB's two references to the UUID of the root filesystem (where its modules
and configuration are, and the kernel's `root=`).  Writes are durable in their order.
`InstallGrub` is the UEFI branch of `firstboot-grub-install`, as the fstab is that of
`vm/uefi`; the BIOS branch, which installs to the disks that it finds and to none if it
finds none, is left out.  Partition and disk identifiers, resizing, and the scripts that an administrator runs
(host name and keys, message of the day, network interface) are left out.

### NetAutoconfig

A container derives the files of systemd-networkd from `/etc/network/interfaces`,
which its host writes, at each boot.  `ReadLine` is the parser's loop body and `Parse`
its fold over a text; `NameOf` numbers files by the order of the interfaces.

| action | code |
|---|---|
| `Start` | the unit starts at boot |
| `NoInput`, `UpToDate`, `NoDirectory` | the early ends of `main()` |
| `Scan` | parse; find the files that begin with the comment |
| `Delete` | one of them |
| `Open`, `Fill` | a new file is truncated, then written |
| `OpenChecksum`, `WriteChecksum` | the same for the checksum |
| `Crash`, `Edit` | the container is killed; the host writes another text |

## 3. What the runs check

| run | instance | properties |
|---|---|---|
| `collections` | three names, every combination of the meta shapes, several requests | `OutRespectsNeeds`, `OutIsSelection`, `FailsOnlyOnCycle`, `ValidRequestKept`, `ImplementsTopoOrder`, `Termination` |
| `real_collections` | the shipped collections: requests of one or two, and of a target with two additions, three profiles, with and without files of an earlier build | `FailuresExplained`, `NothingStale`, `RequestsReachImage` |
| `merge_config` | every sequence of up to three definitions of two variables; cycles, passwords, routes | `ValuesAsDefined`, `AcceptedIffDeclared` |
| `sysusers` | requests of one or two lines of 24 kinds, three account files, two actions of packages | `TypeOK`, `DuplicatesAreMoved`, `PrimaryGroupsExist`, `ExhaustedMeansFull`, `LateRunIdle`, `ShadowEntriesSet`, `MembersLostOnlyByMove` |
| `real_sysusers` | the shipped requests with every choice of features, one action of packages | `RequestsSucceed`, `UsersAsRequested`, `MembershipsGranted` |
| `sysusers_members` | as `sysusers`, no packages | `MembershipsGranted`, **violated** |
| `disk_job` | one job: the template's documents with all combinations of layers and seven volume lists, documents changed by hand, the default; two faults | `PackedImageIsClosed`, `FailureLeavesNothing`, `RefusalsExplained`, `LeakIsInterruptedStack`, `UnpackReachesVolumes`, `Termination` |
| `disk_pair` | two jobs, one fault | `MountRootExclusive` |
| `publish` | two slots (one persistent on another filesystem), three runs, two seconds, two images | `LinkLeadsToImage`, `CompletedRunsKeepTheirImages`, `StagedImagesExplained`, `MissingLinkExplained`, `NewestLinkUnlessOverlap` |
| `firstboot` | the fstab of `vm/uefi`, two losses of power, two failures, one restart; with and without `firstboot/vm` | `StuckExplained`, `FilesystemsFound`, `FirstbootEnds` |
| `net_autoconfig` | two interfaces, texts that alternate stanzas of both, of both families and of other kinds with options, two crashes, two edits | `AppliedWhenDone`, `EmptyFilesExplained`, `OptionsOfOwnStanza`, `Converges` |
| `net_current` | the same | `CurrentMeansApplied`, **violated** |

**Bounds.**  Three collections are enough for every relation that the resolver
distinguishes: a collection that waits, one that it waits for, and one that connects
them or comes in between; a cycle of three; an `after` to one that nobody pulls in.
Nothing in the algorithm counts beyond one collection and the set of its
dependencies, and the theorems below have no bound.  For the disk job every storage
layer is present or absent independently; the volume lists contain an order that
hides a volume, one without a directory, a btrfs, a refused btrfs, and one at a
directory that the chroot mounts again.  The documents changed by hand contain each
reason for a refusal, names twice in one dictionary and in both, and volumes whose
filesystem is not the usual one of their name.  `ChrootDirs` keeps three of the nine
directories: one that may cover a volume, one inside another, one that is neither.
`MaxFaults = 2` in one job lets a failure or an interrupt in the body meet another in
the cleanup.  The pair needs one fault: with two the properties hold as well, and
the run takes three times as long.

For the account merge, two lines are enough for one to replace an id that the other
uses, to compute one that the other asked for, and to grant a group that the other
creates.  The system range has two ids and the regular range one, so that requests
exhaust them; one explicit id lies in the range, one does not, and packages have one
of each.  Of the three names, `log` is part of the text `login`.  `LateRunIdle` needs
packages that act twice: a user can be added, and then become a member.

Three definitions are enough for one to declare, one to set and one to do either under
another name; nothing in the merge depends on more than whether a name is known.  The
longer sequences reach the expansions.  Three runs and two slots let one run be
stopped, and two overlap in every order; two seconds let two runs have one timestamp
or different ones; two images let a run stop between them, and one is of a kind that
is not replaced.  Two losses of power let one hit the boot that repairs what the
first one broke; two failures likewise.  Two crashes and two edits let the input change
after a crash and back; two interfaces have positions that change when one goes.

**Fairness.**  The resolver is one single-threaded function: weak fairness of its
step says only that the interpreter goes on.  A disk job has weak fairness of
`Progress(j)`: a command that runs returns in the end.  A machine that is off is
switched on and what has started goes on (`WF(Advance)` in `Firstboot`); a container
is started again, and the program belongs to `multi-user.target`, so that each boot
runs it (`WF(Start)`, `WF(Run)` in `NetAutoconfig`).  No fairness is put on faults,
and none on runs of mkimage.py, of which nothing need happen.

**What hangs together in DiskJob.**  `FailureLeavesNothing` and `RefusalsExplained`
say that the order in `CloseOrder` fits the order of the stack: nothing is in use
when its turn comes.  Their exception `SharedKey` is the one config in which this is
wrong: with a volume at `/run`, the chroot mounts `/run` again, `opened_mount` has
one key for both, and the cleanup closes one of them.  The job then fails with an
error (`PackedImageIsClosed` holds for these configs too) and leaves its stack open.
`LeakIsInterruptedStack` bounds what an interrupt costs: the resource whose command
was hit, and what it holds or hides.  `MountRootExclusive` is not protected by any
lock in the program.  It holds because a job mounts only after `vgcreate vg0`
succeeded, `vgcreate` refuses a name that is taken, and the volume group cannot be
taken away while something is mounted from it.  There is a gap before anything is
mounted: between `vgcreate` and `lvcreate` nothing keeps the device below the volume
group in use.  `mdadm_dev_register()` comes before `mdadm --create`, so a second job
with a root array, whose own `mdadm --create` is refused because the array of the
first is there, stops that array in its cleanup.  The volume group is gone, a third
job can make its own, and the first goes on by name: its `lvcreate` and its mount are
on the volume group of the third.  TLC finds this behaviour with three jobs (two of
them with a root array) and no fault; with two jobs there is nobody to replace the
volume group.  `OneRootArray` names
the condition under which this cannot happen, and the theorem below needs it.

**What hangs together in Sysusers.**  `DuplicatesAreMoved` and `PrimaryGroupsExist`
are what remains of "unique ids" and "each user has a group" given that a line may
replace the id of an existing account.  `LateRunIdle` says why running twice is
safe: unless the early run replaced an id, the late run fails for nothing and
changes no id, primary group or membership.  The text search helps here: after the
early run each granted user *is* part of the text.  `real_sysusers` shows that the
shipped requests avoid the hazards below (they compute user and group ids of a name
together, grant only groups they create, and ask for ids that no account has).

**What hangs together in ImageBuild.**  Hooks that hand each other files are correct
only because of the order of the collections, which breaks ties between equal numbers
(`Before`): `RequestsReachImage` relates what the resolver promises to what the hooks
need.  `FailuresExplained` names what stays the user's business: a profile that sets a
variable nobody declares, collections that do not fit together (`Sensible`), and an
image that a failed build left in a persistent staging directory.

**What hangs together in Publish.**  Nothing is locked.  The timestamp keeps runs
apart, if they are not within one second; what is left to race for is the link.  Two
runs that replace it at the same time may both unlink it, the second `symlink()` then
fails with `FileExistsError`, and the other images of that run are lost with its
temporary staging directory.  `NewestLinkUnlessOverlap` and `MissingLinkExplained` say
that this, and a stop between `unlink()` and `symlink()`, are the only ways for a link
to be old or missing.  A file with its final name may be incomplete (a copy between
filesystems), but no link leads to it (`LinkLeadsToImage`), unless an earlier run left
it incomplete in a persistent staging directory.

**What hangs together in Firstboot.**  The order of the writes decides.  Before the
UUIDs change, and after GRUB has its new configuration, anything may be lost.  In
between, GRUB and the kernel's parameter have the old UUID of the root filesystem: a
virtual machine whose power is lost there does not come up again (`StuckExplained`).
A hardware image has no new UUIDs and always recovers: the initramfs sets flag and
service again, in each boot until it is replaced.  A loss after that and before
`update-grub` leaves `firstboot=1` in `grub.cfg` for ever, which no initramfs reads any
more (the exception in `FirstbootEnds`).  `FilesystemsFound` holds because the root
filesystem is the first line of fstab: once its UUID has changed, a boot that was cut
off cannot be repeated.  Were another filesystem changed before it, the next boot
would skip that line, whose old UUID the initramfs no longer finds, and install it.

**What hangs together in NetAutoconfig.**  The checksum is written last, so that a run
that was cut off is repeated.  The old checksum is *not* removed first: if the host
goes back to the text that it is of, the run that was cut off is taken for done
(`CurrentMeansApplied`, below).  Everything else converges.  An empty file, which a
crash between `open()` and `write()` leaves, has no comment by which a later run
would know it; `EmptyFilesExplained` bounds their number.

### Disagreements between comments and code

* `MembershipsGranted`.  `make_sysusers.py:563-564`: "the user should be part of" the
  listed groups.  With a group that was loaded, the user is taken for a member if its
  name is part of the text of the member field, and the program ends with
  `AttributeError` if it is not (lines 506, 507 and 770).
* `CurrentMeansApplied`.  `autoconfig-networkd-interfaces.py:59` reports "Config is
  up-to-date according to checksum check".  After a boot that was cut off between
  `Scan` and the checksum, and a return to the text before, the files of that text are
  gone, and no later boot makes them.

Smaller ones, which the modules show in their definitions and no run is spent on:

* `mkimage.py:166-167` promises to preserve the requested order "as much as
  possible".  Request `a b`, where `a` has `after = c` and `b` has `wants = c`, gives
  `b, c, a`; `c, a, b` keeps the order.  What holds is `ValidRequestKept`.
* `convert-tar-to-disk.py:403-404`: `mdadm_dev_register()` registers "an already
  started mdadm dev"; its caller registers first and creates then (1062-1067).  When
  another job's array has the name, the cleanup stops that array if it is not in use.
* `make_sysusers.py:542-543`: a unique id is computed.  If exactly one of passwd and
  group has the name, `get()` returns that *entry* (231-238), and the program ends with
  `TypeError`; after line 400 or 449 replaced an id, the generator does not see the new
  one and computes it again.
* `make_sysusers.py:416` and `486` say "if loaded and entry missing"; 418 and 492
  replace an entry that is there (`ShadowEntriesSet` needs this, as a package may
  create the file after the early run).  `collections/base/config:192` says of a group
  that exists that "its gid will remain unchanged", line 400 replaces it.  The
  documentation gives 100 to 999 as the range of system ids, the program uses 100 to
  399.
* `merge-config.py:95-96` remove `OFEAT_...` names, which do not exist, where the
  custom list is called `OCONF_...`.  `roles/nginx/base/config:25` calls `?=`
  "if-defined syntax"; it always sets.
* `collections/base/config:45`: "usually it is safe to mix collections".  Two
  hypervisors overwrite each other's `etc/initramfs-tools/modules`, and `hardware/base`
  and `vm/*` each bring a disk image: `Sensible` excludes them.
* `base/hooks/customize/70-svc.sh` uses `target_set_svc`, which only `systemd` defines,
  though `base` does not depend on it.
* `zstd` and `ovftool` do not replace an image that a failed build left in a
  persistent staging directory: every retry fails.
* `firstboot-vm` strips quotes from the first field of the prepared fstab, so that its
  `awk` never finds a quoted entry.  `firstboot-unattended:25` removes the flag to
  "prevent repeated firstboot runs"; the initramfs sets it again if the power is lost
  before `update-initramfs`.
* `autoconfig-networkd-interfaces.py:198`: "any other line resets the context".  The
  branch cannot be reached once a static stanza was seen, so the options of a stanza of
  another kind go to the static stanza before it and replace what that one said.
  `OptionsOfOwnStanza` says that this is the only way for an interface to get an option
  that its own stanzas do not give; without the exception TLC finds it violated.  Line
  68 lists the directory that
  line 89 makes, and fails if it is missing.
* `convert-tar-to-disk.py`: a swap volume that is not called "swap" is accepted and
  silently never made, as is an ESP on a BIOS disk.  A volume name with a hyphen gives a
  path below `/dev/mapper` in which device-mapper would double the hyphen.

## 4. What is proved

Each theorem below is about every value of the constants that meets the assumptions
named with it.  Where a proof is about what a fold or a recursive function computes, it
looks at the least number at which the claim would fail (`LeastNumber`, from the
well-foundedness of the natural numbers), since the prover cannot instantiate the
library's induction theorems.

### Resolver

`BuildCollectionsProofs` proves, for every set of names that a resolver can be given,
all meta files and all requests:

| theorem | statement |
|---|---|
| `Invariance` | `Spec => []IInv` |
| `TypeCorrect` | `Spec => []TypeOK` |
| `OutputOrdered` | `Spec => []OutRespectsNeeds` |
| `OutputComplete` | `Spec => []OutIsSelection` |
| `FailureJustified` | `Spec => []FailsOnlyOnCycle` |
| `Refinement` | `Spec => ImplementsTopoOrder` |
| `ValidOrderKept` | `Spec => []ValidRequestKept` |

**Assumptions.**  `MetaSpaceAssumption` and `WantedSpaceAssumption`: meta files have
their type, and a request is a non-empty sequence of names (`main()` refuses an empty
one).  The set of names need not be finite.

**Argument.**  None of the properties is inductive: `OutRespectsNeeds` speaks of
`Needs`, a closure over the meta files that the code never computes.  `IInv` says
what each variable means instead.

* *Scan.*  Everything scanned or still to be scanned is selected; what a scanned
  collection pulls in is scanned, or waiting.  When both lists are empty the scanned
  names are therefore closed and contain the request, so they are the selection.
* *Order-only.*  A name is "strict" exactly when it was scanned, and every name in
  the `after` of a scanned collection is marked.  So what `EvalDeps` drops is exactly
  what is not selected, and what remains is `Requires`.
* *Work.*  While resolving, `todoDep[n]` is `Requires(n)` without what is done, and
  the domain of `todoDep` is the selection without what is done.
* *Queues.*  The entries of `queue` and `queueNext` are that domain, each once
  (`QueuesOnce`); this is why the code's test against `collections_done` never fails.
* *Pass.*  If a pass has resolved nothing, each deferred collection still waits for
  one that is deferred or queued.  At its end the deferred ones are therefore a
  cycle, which is `NoProgress`.
* *Output.*  What is done is closed under `Requires`; `out` is the part of it that is
  not virtual, without repetition, and what was yielded earlier never needs what was
  yielded later.

`OutRespectsNeeds` follows as the set of what was done when a collection was yielded,
together with it, is closed, and `Needs` is the least closed set.  `Refinement` maps
`ResolveName` to `Place`, the step that ends the last pass to `Complete`,
`NoProgress` to `Stuck`, `RejectLateVirtual` to `Reject`, and all others to
stuttering.

`ValidOrderKept` needs `OrderInv` besides, for requests that are complete and in a
valid order.  The first round of the scan takes the names of the request one after
the other (`FirstScan`), so the queue has their order; once it is through, everything
selected was seen and later rounds add nothing.  What the head of the queue requires
stands earlier in the request, so it was resolved already: nothing is deferred, and
the output has the order of the queue.

### Account merge

`SysusersProofs` proves, for every set of names, all requests, all sane account files,
all id ranges and any number of actions of packages:

| theorem | statement |
|---|---|
| `TypeCorrect` | `Spec => []TypeOK` |
| `NoSharedIds` | `Spec => []DuplicatesAreMoved` |
| `PrimaryGroups` | `Spec => []PrimaryGroupsExist` |
| `ExhaustionJustified` | `Spec => []ExhaustedMeansFull` |
| `ShadowEntries` | `Spec => []ShadowEntriesSet` |
| `MembersStay` | `Spec => MembersLostOnlyByMove` |
| `LateRunLeavesAccounts` | `Spec => []LateRunIdle` |

**Assumptions.**  `NameAssumption`, `LineAssumption`, `EtcAssumption` and `IdAssumption`:
a name is part of its own text, lines and files have their types, and the files that the
first run reads are sane (no id twice, each primary group exists, only groups have
members).  The set of names need not be finite.

**Argument.**  `TInv` is the type invariant together with `UserReady`: while the user of
a line is handled its group has an id.  For each action a lemma says what it does to
ids and keys (`AddGroupEffect`, ...), and `StepShape` collects them: every step of
`Next` is one of nine steps (an id joins the groups or the users, an id is updated,
the files are loaded or written, a package adds one, or nothing about ids changes).
Each invariant is then shown to be kept by these nine.

* *Shared ids.*  `KeysCover`: while the program works, each account that was not moved
  has its id among the keys.  So the check of a new id against the keys misses only
  accounts that were moved.
* *Primary groups.*  Groups are never removed, and an id that is replaced is recorded
  in `moved`; the invariant is inductive with `TInv`.
* *Exhaustion.*  `Skipped`: what a generator went past is taken.  `FirstFreeIsFree`, from
  the well-foundedness of the natural numbers, says that the id it finds is the first
  that is free.

For the other three, `BlockShape` says of each block all that it does to the files in
memory (`GroupBlock`, `UserBlock`, `GrantBlock`).

* *Shadow entries.*  `Shadowing`: the lines that were handled have their entries, and
  nothing takes an entry of the program away again.
* *Members.*  `TextKept`: a group that was loaded keeps the text of its members, and its
  entry is marked as changed only when its id was replaced; so it is written as read.
* *Late run.*  `LateInv` follows one build in which the early run replaces no id.
  `EarlyDone`: the lines handled so far have their group, user and primary group, and
  who asks for a group is found in it or still on the list.  `Fits`: so the files fit
  the request when the early run writes them, and packages keep that.  `LateSame`: on
  such files the late run finds all that it asks for; only a primary group differs for
  a while, when two lines name one user, and a later line sets it again.

### Config merge

`MergeConfigProofs` proves, for all aliases, all lists of variables that collect their
values, and every sequence of definitions:

| theorem | statement |
|---|---|
| `DeclarationsJudged` | `Spec => []AcceptedIffDeclared` |
| `ValuesMerged` | `Spec => []ValuesAsDefined` |

**Assumptions.**  `NameAssumption` (there are finitely many aliases), `WordAssumption`,
`InputsAssumption`.

**Argument.**  `Variables`: while definitions are merged, the variables are those
defined so far under any name, so looking a name up says whether there was an earlier
definition (`KnownIfDefined`).  `Judged` follows: what was merged may stand where it
stands, what was refused may not.  `CircularIsEndless` relates the test of
`unalias_varname()`, which gives up after as many replacements as there are aliases,
to chains of aliases without an end: a name that is still an old one after that many
replacements was met twice, since there are more steps than old names.  `Valued` says
what each variable has, also one that is not known; a step appends one sequence to the
flattened ones (`FlattenAppend`).

### Publishing

`PublishProofs` proves, for any number of slots, runs, seconds and images, with any of
the slots persistent or on another filesystem, that the invariants of the run hold:

| theorem | statement |
|---|---|
| `Invariance` | `Spec => []IInv` |
| `TypeCorrect` | `Spec => []TypeOK` |
| `LinkedImages` | `Spec => []LinkLeadsToImage` |
| `ImagesKept` | `Spec => []CompletedRunsKeepTheirImages` |
| `StagingExplained` | `Spec => []StagedImagesExplained` |
| `MissingExplained` | `Spec => []MissingLinkExplained` |
| `NewestLinked` | `Spec => []NewestLinkUnlessOverlap` |

**Assumptions.**  `SlotAssumption`, `ImageAssumption`, `BoundAssumption`.

**Argument.**  For each action a lemma says what it does to one slot, one file or one
link (`Effects`).  `IInv` has seven parts, each kept by those effects.  *Types* say
also that a run is at work in one slot only and that a timestamp is not in the future.
*Staged*: a file in a staging directory is that of the run at work or of a stopped
one.  *Links*: a link leads to a file that is there, and to an incomplete one only
for one of the two reasons.  *Keeps*: what a run has moved stays where it is; what it
has not moved is still staged.  *Misses*: a link that is missing was removed by
somebody who is about to make it or was stopped.  *Beside* and *Newest*: if a link is
older than an image that a run has published, the run that made it was publishing
when the newer one took its timestamp, since otherwise its last link came before.

### Network autoconfiguration

`NetAutoconfigProofs` proves, for every finite set of interfaces and its order, all
inputs, and any number of crashes and edits:

| theorem | statement |
|---|---|
| `Invariance` | `Spec => []IInv` |
| `AppliedInPlace` | `Spec => []AppliedWhenDone` |
| `EmptyExplained` | `Spec => []EmptyFilesExplained` |
| `OptionsByStanza` | `Spec => []OptionsOfOwnStanza` |

**Assumptions.**  `OrderAssumption` (a strict total order of a finite set),
`InputAssumption`, `BoundAssumption`.

**Argument.**  `Progress`: while a run changes files, each of the program's files is to
be deleted or has just been written, and those written are right.  So when nothing is
left to do they are what the input asks for.  This needs file names to be different
(`NameOf`: the number is a position) and the next interface to exist (a finite set
has a first element).  `Matches`: at rest, unless a run was cut off, the files are those
of the text that the checksum is of.  The counting of empty files needs that a file
that is opened is either empty already or adds one, and that `Fill` takes it away
again.  `ParseIsMap`: after n lines, `Parse` has the last header as its context, and each
option has the value of the last line that the parser counts to it; `FoldLeft` takes the
lines one after the other (`ParseSteps`).  A header has a kind that is not "option", so
the parser's context is the line's own stanza or a static one before it, and then the
stanza is of another kind.

### First boot

`FirstbootProofs` proves, for every fstab that begins with the root filesystem, any
choice of labels and `nofail`, and any number of losses, failures and restarts:

| theorem | statement |
|---|---|
| `Invariance` | `Spec => []IInv` |
| `StaysDownExplained` | `Spec => []StuckExplained` |
| `FstabLeads` | `Spec => []FilesystemsFound` |

**Assumptions.**  `FstabAssumption`, `BoundAssumption`.

**Argument.**  `Modes` says where the mode is known and that GRUB's references are the
image's as long as the initramfs knows it.  `Entered`, for runs in which no command of
the initramfs failed: if the root filesystem has its old UUID then all have, so a
boot in firstboot mode starts from the beginning; what has been read has its new
UUID in the new fstab; and that is in place before the system comes up.  `Found`, for
runs in which nothing happened between the first new UUID and GRUB's configuration:
GRUB and the kernel's parameter (or what the initramfs sets instead) lead to the root
filesystem in every boot.

### Disk image job

`DiskJobProofs` proves, for any number of jobs, directories, lists of volumes and
commands that fail or are interrupted:

| theorem | statement |
|---|---|
| `Invariance` | `Spec => []IInv` |
| `MountRootLocked` | `Spec => [](OneRootArray => MountRootExclusive)` |
| `PackedClosed` | `Spec => [](OneRootArray => PackedImageIsClosed)` |
| `VolumesReached` | `Spec => [](OneRootArray => UnpackReachesVolumes)` |
| `HoldingsInvariance` | `Spec => [](OneArrayEach => HoldingsInv)` |
| `FailureCleansUp` | `Spec => [](OneArrayEach => FailureLeavesNothing)` |
| `RefusalsHaveReasons` | `Spec => [](OneArrayEach => RefusalsExplained)` |
| `LeakExplained` | `Spec => [](OneArrayEach => LeakIsInterruptedStack)` |

`OneRootArray` says that no two jobs have an array below the volume group.  It holds
in every behaviour of one job.  It is needed, as said above: without it the first
statement is false for three jobs.  `OneArrayEach` says in addition that no two jobs
have an array for `/boot`.  It holds for one job, as in the run `disk_job`, and for any
number of jobs of which at most one asks for each kind of array.  It is needed too: with
two boot arrays TLC finds `RefusalsExplained` violated, since these also have one name
and the cleanup of one job can stop the other's.

**Assumptions.**  `DirAssumption`: nothing is above "/", and "/" is above each other
directory.  `ChrootAssumption`: what is mounted for the chroot is not "/".
`DocSpaceAssumption`, `MaxFaultsAssumption`.  `Above` need not be an order otherwise,
and the set of directories need not be finite.

**Argument.**  It has two halves.  `DiskPlanProofs` is about data.  `PlanShape`: for
every document that is accepted, the plan consists of commands that open the devices
the volume group can be on, then `vgcreate`, `vgchange` and `lvcreate`, then the
commands for the root filesystem (a btrfs is mounted twice), and then commands that
neither touch these devices nor mount or unmount "/".  This rests on lemmas about
`FlattenSeq`: its recursion is over the positions of a sequence, and that it is
well-defined follows from the least number at which it would not be.  `ClosingOrder`:
`__exit__` visits what is registered once, mounts first and then volume groups,
mappings, arrays and loop devices.

`DiskJobProofs` is about the host.  `IInv` says, besides types and that a job in its
body has the config of its document:

* `Devices`: each device belongs to the job that its name and what it is on say; there
  is at most one volume group, on a device of its job, and without it no logical volume.
* `MountTree`: the root filesystem is the first of the mounts, and is on the volume
  group, whose device is there while anything is mounted.
* `RegistersOf(j)`: what a job has registered is its own.  This is where
  `OneRootArray` comes in: an array is registered before it exists.
* `LockOf(j)`: a job past `vgcreate`, or with a mount registered or mounted, has made
  the volume group there is.
* `PositionsOf(j)`: what is registered and mounted at each position of the plan.
* `AccountedOf(j)`: of a job that may still come to pack its image, everything open is
  registered, and while anything is mounted the root volume group is registered.

Each step is one job's.  For that job a lemma says that the step keeps `Devices`,
`MountTree` and its own parts (`RunSelf`, `AbortSelf`, `CleanupSelf`, ...); for all
other jobs `HostChange` says what of the host a step can take away from them, which is
nothing that their parts speak of.  `MountRootExclusive` follows from `LockOf`, since
the volume group has one maker; `PackedImageIsClosed` is in `AccountedOf`.  Why the
cleanup without errors closes all: at its end nothing is registered, so nothing is
mounted, as the volume group would be registered; and what is open was registered.

**Where the volumes are.**  `UnpackReachesVolumes` is about the order of the mounts, of
which `IInv` says nothing.  Half of it is again about data.  `PlanOrdered`: in every
plan an unmount takes back the mount two commands before it (`Paired`: the top of a
btrfs), and before the plan unpacks, each volume of the config that has a directory is
mounted for good, and after it, for good or not, only volumes that come later in the
config (`Fills`).
`AskedContained`: the volume of an entry that the document asks for is in the config
of `Parse`, whatever the entries before and after it are.  The other half is `OrderOf(j)`,
which is inductive given `IInv`: while a job past `vgcreate` is in its body, the mounts
come from commands before its position, in their order, and all that these have mounted
for good is among them (`Follows`; the top of a btrfs is as well if its unmount was
passed over).  The lock is what makes this true with other jobs around: by `LockOf`
none of them can mount then.  So when the tarball is unpacked, a volume that is asked for
is mounted at its directory, and what was mounted since is a later volume, which by
`StaysVisible` is neither there nor above it.

**What a job leaves behind.**  The three last properties say that what is in use is
closed after what uses it, wherever the plan was left.  `IInv` has no order among the
mounts, and for documents where two mounts share a key there is none.  Otherwise
(`Tame`: and no command that closes something failed, noticed or not) `HoldingsInv` says:

* `Layers`: a device is on one of the same job, of a kind that `__exit__` visits later,
  and a mount is on a device of its job (`MayHave`: by loop device and array two jobs
  can be told apart).
* `PresentOf`: what is registered is there, and is the job's own, except an array that
  mdadm did not create.
* `MirrorOf`: in the body of the job that may mount (`Owner`), unless an unmount was
  passed over, `opened_mount` lists the mounts as they are, and the rest of the plan
  mounts nothing where something is mounted.  That is `PlanParted`, a fact about every
  plan without a shared key: between two mounts with one id there is an unmount (the top
  of a btrfs is mounted and unmounted before its subvolume comes to the same place).
* `StackOf`: in the cleanup, the mounts still to be visited are the oldest and come
  newest first; and everything open is still to be visited or stays because of an
  interrupt (`Left` for a mount, `Stuck` for a device).
* `RefusalsOf` and `RestOf`: the same said of the errors, and of the host at the end.

The body ends at any command, in one of three ways.  `LeaveStack` shows `StackOf` for
all of them at once: the mounts follow the register in order (`Mapped`), except that an
interrupted mount is one more, the newest, and an interrupted unmount one fewer.  In
the cleanup, `HeadFree` is the point of the argument: what is visited next is used
by nothing that is still to be visited, so a refusal has one of the reasons that
`RefusalsExplained` lists.

The other jobs come in twice.  What uses a job's own device is that job's (`OnOwned`),
and by `LockOf` all mounts are of one job (`MountsOwn`), so no other job makes the
cleanup refuse; and a step of one job keeps every device of the others (`KeepsOthers`),
so what is said of them stays true (`OtherHoldings`).  `OneArrayEach` is used for both: it
gives each array an owner.  TLC checked `HoldingsInv` before it was proved: on the
instance of `disk_job`, and on two jobs of the template's documents without volumes of
their own, with one fault and with two.

### Only model-checked

Liveness (`Termination` twice, `FirstbootEnds`, `Converges`), which is out of the
provers' reach; the properties of the shipped collections and requests, which are facts
about given files; `MembershipsGranted`, which only those requests have; and the
violations.

## 5. Not modelled

* *nftables rule editor*: a streaming edit of one file, whose only state is that of a
  parser; what matters for the image (which hook makes the file and which one edits
  it) is in `ImageBuild`.  *Symlink fixer*: one pass over a tree in which nothing else
  runs; the build fails with it.
* *Shell hooks*: the parts that configure one service each, with nothing that another
  hook depends on.
* *First boot*: host name and keys, message of the day, network interface names, and
  resizing: an administrator runs them or nothing depends on them.
* *Two disk jobs with one output directory*: the program has no check for it.
* *Package lists, profiles, overlays* (data), *`qemu-img`, `genimage`, `ovftool`*
  (external tools), *command line parsing and wrappers* (no state), text formats of
  all files.
