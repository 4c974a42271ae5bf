----------------------------- MODULE Firstboot -----------------------------
(***************************************************************************)
(* The first boots of an image with the collections firstboot/base,        *)
(* firstboot/systemd and, for virtual machines, firstboot/vm.  The boot    *)
(* loader of the image asks for firstboot mode and its initramfs knows it. *)
(* That gives the filesystems new UUIDs, enters them in /etc/fstab and     *)
(* enables a service, which makes an initramfs and a boot loader           *)
(* configuration without the mode.                                         *)
(*                                                                         *)
(* The power may go between any two writes; what was written is on disk.   *)
(* Any command may fail, and systemd may end the service after 10 minutes. *)
(***************************************************************************)
EXTENDS Naturals, SequencesExt

CONSTANTS FstabOrder,   \* the filesystems of /etc/fstab, in its order
          Label,        \* an entry that names a filesystem by its label
          ByLabel,      \* those that the fstab of the image names by label
          NoFail,       \* those that the system comes up without
          MaxLosses,    \* bound on losses of power
          MaxFailures,  \* bound on failing commands and expired timeouts
          MaxRestarts   \* bound on restarts by hand

Fs == Range(FstabOrder)

\* The root filesystem is the first one (vm/uefi/hooks/essential/10-fstab.sh).
ASSUME FstabAssumption == /\ FstabOrder \in Seq(STRING) /\ IsInjective(FstabOrder)
                          /\ FstabOrder # <<>> /\ Head(FstabOrder) = "root"
                          /\ Label \notin Nat
                          /\ ByLabel \subseteq Fs \ {"root"} /\ NoFail \subseteq Fs \ {"root"}
ASSUME BoundAssumption == MaxLosses \in Nat /\ MaxFailures \in Nat /\ MaxRestarts \in Nat

\* UUIDs are numbered in the order in which a filesystem gets them, the image's is 0.
\* A label does not change.
Factory == [f \in Fs |-> IF f \in ByLabel THEN Label ELSE 0]

VARIABLES
    vm,        \* whether the image has the collection firstboot/vm
    \* On disk:
    uuid,      \* uuid[f]: the UUID of filesystem f
    fstab,     \* /etc/fstab
    grub,      \* the UUID that GRUB looks for, and the kernel parameters that it sets
    initrd,    \* whether the initramfs knows firstboot mode (/can_firstboot)
    flag,      \* /firstboot_mode
    service,   \* whether dbuild-firstboot.service is enabled
    \* The boot in progress:
    at,        \* where it is
    todo,      \* entries of /etc/fstab.host.prepared not read yet
    fresh,     \* /run/initramfs/fstab.host
    rootfs_uuid, \* the UUID that the root filesystem has got, or 0
    root,      \* ROOT: the UUID to mount the root filesystem by
    scripts,   \* scripts of local-bottom that have not run
    \* History:
    losses, failures, restarts,
    harm       \* at which points the power was lost or a command failed

disk == <<uuid, fstab, grub, initrd, flag, service>>
run == <<todo, fresh, rootfs_uuid, root, scripts>>
history == <<losses, failures, restarts, harm>>
vars == <<vm, disk, at, run, history>>

Located(entry, f) == entry = Label \/ entry = uuid[f]

NoRun == todo' = <<>> /\ fresh' = Factory /\ rootfs_uuid' = 0 /\ root' = 0 /\ scripts' = {}

Init ==
    /\ vm \in BOOLEAN
    /\ uuid = [f \in Fs |-> 0]
    /\ fstab = Factory
    /\ grub = [search |-> 0, root |-> 0, firstboot |-> TRUE]
    /\ initrd = TRUE /\ flag = FALSE /\ service = FALSE
    /\ at = "off" /\ todo = <<>> /\ fresh = Factory
    /\ rootfs_uuid = 0 /\ root = 0 /\ scripts = {}
    /\ losses = 0 /\ failures = 0 /\ restarts = 0 /\ harm = {}

-----------------------------------------------------------------------------
(* GRUB and the initramfs                                                  *)

FirstbootMode == initrd /\ grub.firstboot

\* GRUB finds no filesystem with the UUID that its prefix is searched by.
NotFound ==
    /\ at = "off" /\ grub.search # uuid["root"]
    /\ at' = "stuck"
    /\ UNCHANGED <<vm, disk, run, history>>

Boot ==
    /\ at = "off" /\ grub.search = uuid["root"]
    /\ root' = grub.root
    /\ IF FirstbootMode /\ vm THEN at' = "rewrite" /\ todo' = FstabOrder
                              ELSE at' = "mount" /\ todo' = <<>>
    /\ scripts' = IF ~ FirstbootMode THEN {}
                  ELSE {"base", "systemd"} \cup (IF vm THEN {"vm"} ELSE {})
    /\ fresh' = Factory /\ rootfs_uuid' = 0
    /\ UNCHANGED <<vm, disk, history>>

\* The fstab inside the initramfs is the image's: it does not know of new UUIDs.
Skip ==
    /\ at = "rewrite" /\ todo # <<>> /\ ~ Located(Factory[Head(todo)], Head(todo))
    /\ todo' = Tail(todo)
    /\ UNCHANGED <<vm, disk, at, fresh, rootfs_uuid, root, scripts, history>>

NewUuid(f) ==
    /\ at = "rewrite" /\ todo # <<>> /\ f = Head(todo) /\ Located(Factory[f], f)
    /\ uuid' = [uuid EXCEPT ![f] = @ + 1]
    /\ rootfs_uuid' = IF f = "root" THEN uuid'[f] ELSE rootfs_uuid
    /\ todo' = Tail(todo)
    /\ UNCHANGED <<vm, fstab, grub, initrd, flag, service, at, root, scripts>>

\* A fault that the checks detect: the line of fstab keeps what it was.
RewriteOnly == (\E f \in Fs : NewUuid(f)) /\ UNCHANGED <<fresh, history>>

Rewrite ==
    /\ \E f \in Fs : NewUuid(f) /\ fresh' = [fresh EXCEPT ![f] = uuid'[f]]
    /\ UNCHANGED history

\* A fault that the checks detect: the kernel parameter counts.
OverrideNothing ==
    /\ at = "rewrite" /\ todo = <<>>
    /\ at' = "mount"
    /\ UNCHANGED <<vm, disk, run, history>>

Override ==
    /\ at = "rewrite" /\ todo = <<>>
    /\ root' = IF rootfs_uuid # 0 THEN rootfs_uuid ELSE root
    /\ at' = "mount"
    /\ UNCHANGED <<vm, disk, todo, fresh, rootfs_uuid, scripts, history>>

NoRoot ==
    /\ at = "mount" /\ root # uuid["root"]
    /\ at' = "stuck"
    /\ UNCHANGED <<vm, disk, run, history>>

Mount ==
    /\ at = "mount" /\ root = uuid["root"]
    /\ at' = "bottom"
    /\ UNCHANGED <<vm, disk, run, history>>

\* "base" is a prerequisite of the others.
Ready(s) == at = "bottom" /\ s \in scripts /\ (s = "base" \/ "base" \notin scripts)
Ran(s) == scripts' = scripts \ {s} /\ UNCHANGED <<vm, uuid, grub, initrd, at, todo, fresh, rootfs_uuid, root>>

SetFlag ==
    /\ Ready("base") /\ Ran("base") /\ flag' = TRUE
    /\ UNCHANGED <<fstab, service, history>>

EnableService ==
    /\ Ready("systemd") /\ Ran("systemd") /\ service' = TRUE
    /\ UNCHANGED <<fstab, flag, history>>

InstallFstab ==
    /\ Ready("vm") /\ Ran("vm") /\ fstab' = fresh
    /\ UNCHANGED <<flag, service, history>>

-----------------------------------------------------------------------------
(* systemd and firstboot-unattended                                        *)

\* local-fs.target waits for each filesystem of fstab; a service that is
\* enabled starts if the flag is there.
MissingFilesystem == \E f \in Fs \ (NoFail \cup {"root"}) : ~ Located(fstab[f], f)

Emergency ==
    /\ at = "bottom" /\ scripts = {} /\ MissingFilesystem
    /\ at' = "emergency"
    /\ UNCHANGED <<vm, disk, run, history>>

ComeUp ==
    /\ at = "bottom" /\ scripts = {} /\ ~ MissingFilesystem
    /\ at' = IF service /\ flag THEN "flag" ELSE "up"
    /\ UNCHANGED <<vm, disk, run, history>>

RemoveFlag ==
    /\ at = "flag" /\ flag' = FALSE /\ at' = "disable"
    /\ UNCHANGED <<vm, uuid, fstab, grub, initrd, service, run, history>>

DisableService ==
    /\ at = "disable" /\ service' = FALSE /\ at' = "initramfs"
    /\ UNCHANGED <<vm, uuid, fstab, grub, initrd, flag, run, history>>

UpdateInitramfs ==
    /\ at = "initramfs" /\ initrd' = FALSE /\ at' = "install"
    /\ UNCHANGED <<vm, uuid, fstab, grub, flag, service, run, history>>

\* firstboot-grub-install on a machine that boots with UEFI.
InstallGrub ==
    /\ at = "install" /\ grub' = [grub EXCEPT !.search = uuid["root"]] /\ at' = "config"
    /\ UNCHANGED <<vm, uuid, fstab, initrd, flag, service, run, history>>

\* A fault that the checks detect: the configuration still asks for the mode.
UpdateGrubRoot ==
    /\ at = "config"
    /\ grub' = [grub EXCEPT !.root = uuid["root"]]
    /\ at' = "up"
    /\ UNCHANGED <<vm, uuid, fstab, initrd, flag, service, run, history>>

UpdateGrub ==
    /\ at = "config"
    /\ grub' = [grub EXCEPT !.root = uuid["root"], !.firstboot = FALSE]
    /\ at' = "up"
    /\ UNCHANGED <<vm, uuid, fstab, initrd, flag, service, run, history>>

Service == {"flag", "disable", "initramfs", "install", "config"}

-----------------------------------------------------------------------------
(* What goes wrong                                                         *)

Failure == failures < MaxFailures /\ failures' = failures + 1 /\ harm' = harm \cup {at}
           /\ UNCHANGED <<losses, restarts>>

\* cp of fstab.host: nothing is rewritten, and nothing is there to be installed.
CopyFails ==
    /\ at = "rewrite" /\ todo = FstabOrder /\ Failure
    /\ at' = "mount" /\ todo' = <<>> /\ scripts' = scripts \ {"vm"}
    /\ UNCHANGED <<vm, disk, fresh, rootfs_uuid, root>>

\* tune2fs, fatlabel or mkswap.
RewriteFails ==
    /\ at = "rewrite" /\ todo # <<>> /\ Failure
    /\ todo' = Tail(todo)
    /\ UNCHANGED <<vm, disk, at, fresh, rootfs_uuid, root, scripts>>

\* The line of fstab is not found or not written.
LineFails == (\E f \in Fs : NewUuid(f)) /\ UNCHANGED fresh /\ Failure

OverrideFails ==
    /\ at = "rewrite" /\ todo = <<>> /\ Failure
    /\ at' = "mount"
    /\ UNCHANGED <<vm, disk, run>>

ScriptFails ==
    /\ \E s \in scripts : Ready(s) /\ Ran(s)
    /\ Failure
    /\ UNCHANGED <<fstab, flag, service>>

DisableFails ==
    /\ at = "disable" /\ at' = "initramfs" /\ Failure
    /\ UNCHANGED <<vm, disk, run>>

\* A command fails for which the service exits, or the service is killed.
GiveUp ==
    /\ at \in Service /\ Failure
    /\ at' = "up"
    /\ UNCHANGED <<vm, disk, run>>

PowerLoss ==
    /\ at # "off" /\ losses < MaxLosses
    /\ losses' = losses + 1 /\ harm' = harm \cup {at}
    /\ at' = "off" /\ NoRun
    /\ UNCHANGED <<vm, disk, failures, restarts>>

Restart ==
    /\ at \in {"up", "stuck", "emergency"} /\ restarts < MaxRestarts
    /\ restarts' = restarts + 1
    /\ at' = "off" /\ NoRun
    /\ UNCHANGED <<vm, disk, failures, losses, harm>>

-----------------------------------------------------------------------------
Advance == \/ NotFound \/ Boot \/ Skip \/ Rewrite \/ Override \/ NoRoot \/ Mount
           \/ SetFlag \/ EnableService \/ InstallFstab \/ Emergency \/ ComeUp
           \/ RemoveFlag \/ DisableService \/ UpdateInitramfs \/ InstallGrub
           \/ UpdateGrub

Next == \/ Advance \/ CopyFails \/ RewriteFails \/ LineFails \/ OverrideFails \/ ScriptFails
        \/ DisableFails \/ GiveUp \/ PowerLoss \/ Restart

Spec == Init /\ [][Next]_vars

\* A machine that is off is switched on, and what has started goes on.
FairSpec == Spec /\ WF_vars(Advance)

-----------------------------------------------------------------------------
(* Properties                                                              *)

\* A system stays down only if it is a virtual machine and something happened
\* after the UUIDs began to change and before GRUB had its new configuration.
StuckExplained ==
    at = "stuck" => vm /\ harm \cap ({"rewrite", "mount", "bottom"} \cup Service) # {}

\* In a system that comes up, each entry of /etc/fstab leads to its filesystem,
\* wherever the power was lost: unless a command of the initramfs failed.
FilesystemsFound ==
    at \in Service \cup {"up", "emergency"} =>
        \/ \A f \in Fs : Located(fstab[f], f)
        \/ failures > 0 /\ harm \cap {"rewrite", "bottom"} # {}

\* If no command fails, then whatever the power does, the service completes in
\* some boot: the mode is over, and flag, service and boot loader say so.  Two
\* exceptions: the system stays down, or the power was lost after there was a new
\* initramfs, which never enables the service again.
FirstbootEnds ==
    <>[]( \/ at = "up" /\ ~ initrd /\ ~ grub.firstboot /\ ~ flag /\ ~ service
          \/ at = "stuck"
          \/ harm \cap {"install", "config"} # {}
          \/ failures > 0 )
=============================================================================
