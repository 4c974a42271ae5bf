------------------------- MODULE MCRealCollections -------------------------
(***************************************************************************)
(* The collections that the repository ships: what their meta files say,   *)
(* the variables that one of them declares and another one sets, or that   *)
(* a hook tests, and what their overlays and hooks do with files that       *)
(* others take up.  Builds of every request of one or two of them, and of  *)
(* a target with two additions.                                            *)
(***************************************************************************)
EXTENDS ImageBuild

\* Collections whose meta file says "Depends = base" and nothing more.
OnBase == {"bootable/base", "default", "firstboot/base",
           "hardening/network/base", "lxc/base", "nftables",
           "proxmox-pve", "systemd", "unattended-upgrades"}

DeviceTarget == <<"base", "systemd", "netconfig/systemd-networkd", "default">>
OnDisk == <<"firstboot/base", "firstboot/systemd">>
VmTarget(hypervisor) == DeviceTarget \o <<"vm/base", hypervisor, "vm/uefi">>
                          \o OnDisk \o <<"firstboot/vm">>

DependsElsewhere ==
    "bootable/bios" :> <<"bootable/base">>
    @@ "bootable/uefi" :> <<"bootable/base">>
    @@ "firstboot/systemd" :> <<"firstboot/base", "systemd">>
    @@ "firstboot/vm" :> <<"firstboot/base", "vm/base">>
    @@ "hardware/base" :> <<"base", "bootable/base">>
    @@ "hardware/bios" :> <<"hardware/base", "bootable/bios">>
    @@ "hardware/uefi" :> <<"hardware/base", "bootable/uefi">>
    @@ "netconfig/systemd-networkd" :> <<"base", "systemd">>
    @@ "roles/nginx/default" :> <<"roles/nginx/base">>
    @@ "vm/base" :> <<"base", "bootable/base">>
    @@ "vm/esxi" :> <<"vm/base">>
    @@ "vm/hyper-v" :> <<"vm/base">>
    @@ "vm/kvm" :> <<"vm/base">>
    @@ "vm/uefi" :> <<"vm/base", "bootable/uefi">>
    @@ "roles/nginx/base" :> <<"base">>
    @@ "targets/lxc/default" :> <<"base", "systemd", "default", "lxc/base">>
    @@ "targets/hardening/default" :> <<"hardening/network/base">>
    @@ "targets/hardware/bios/default" :>
           (DeviceTarget \o <<"hardware/base", "hardware/bios">> \o OnDisk)
    @@ "targets/hardware/uefi/default" :>
           (DeviceTarget \o <<"hardware/base", "hardware/uefi">> \o OnDisk)
    @@ "targets/vm/kvm/default" :> VmTarget("vm/kvm")
    @@ "targets/vm/hyper-v/default" :> VmTarget("vm/hyper-v")
    @@ "targets/vm/esxi/default" :> VmTarget("vm/esxi")

Targets == {"targets/lxc/default", "targets/hardening/default",
            "targets/hardware/bios/default", "targets/hardware/uefi/default",
            "targets/vm/kvm/default", "targets/vm/hyper-v/default",
            "targets/vm/esxi/default"}

RealNames == {"base"} \cup OnBase \cup DOMAIN DependsElsewhere

RealMeta ==
    [n \in RealNames |->
        [depends |-> IF n = "base" THEN <<>>
                     ELSE IF n \in OnBase THEN <<"base">> ELSE DependsElsewhere[n],
         wants |-> <<>>,
         after |-> IF n = "roles/nginx/base" THEN <<"nftables">> ELSE <<>>,
         late |-> FALSE, virtual |-> n \in Targets, isDir |-> TRUE]]

RealMetaSpace == {RealMeta}

Addition == {"nftables", "roles/nginx/base", "roles/nginx/default", "unattended-upgrades",
             "proxmox-pve", "targets/hardening/default"}

RealWantedSpace == {<<x>> : x \in RealNames} \cup {<<x, y>> : x, y \in RealNames}
                     \cup {<<x, y, z>> : x \in Targets, y, z \in Addition}

-----------------------------------------------------------------------------
(* The config files.                                                       *)

Define(mode, name, value) ==
    [mode |-> mode, name |-> name, value |-> IF value = "" THEN <<>> ELSE <<value>>]
Declare(name, value) == Define("declare", name, value)
Set(name, value) == Define("set", name, value)

ConfigElsewhere ==
    "base" :> <<Declare("DBUILD_TARGET_INIT_SYSTEM", "unknown"),
                Declare("DBUILD_TARGET_IMAGE_FORMAT", "tar"),
                Declare("OFEAT_HAVEGED", "0"), Declare("OFEAT_ETC_MACHINE_ID", "0"),
                Declare("OFEAT_TMPFS_MOUNTS", "0"), Declare("OFEAT_TMPFS_APT_CACHE", "0"),
                Declare("OFEAT_KERNEL_IMAGE", "0"), Declare("OFEAT_IFNAMES", "1"),
                Declare("OFEAT_RESOLV_CONF", "1"), Declare("OFEAT_NTP_CONF", "0"),
                Declare("OFEAT_WEB_PROXY", "0"), Declare("OFEAT_NETCONFIG", "0")>>
    @@ "bootable/base" :> <<Declare("OCONF_BOOT_TYPE", ""), Declare("OCONF_ROOTFS_TYPE", ""),
                            Declare("OFEAT_SEPARATE_BOOT", "0"), Declare("OFEAT_GEN_FS_UUID", "1"),
                            Set("OFEAT_KERNEL_IMAGE", "1"), Set("OFEAT_TMPFS_MOUNTS", "1"),
                            Set("OFEAT_TMPFS_APT_CACHE", "1"),
                            Declare("OFEAT_GRUB_INSMOD_LVM", "0")>>
    @@ "bootable/bios" :> <<Set("OCONF_BOOT_TYPE", "bios")>>
    @@ "bootable/uefi" :> <<Set("OCONF_BOOT_TYPE", "uefi")>>
    @@ "hardware/base" :> <<Set("OFEAT_SEPARATE_BOOT", "1"), Set("OFEAT_GEN_FS_UUID", "0"),
                            Set("OCONF_ROOTFS_TYPE", "btrfs"), Set("OFEAT_GRUB_INSMOD_LVM", "1")>>
    @@ "hardware/bios" :> <<Set("OCONF_BOOT_TYPE", "bios")>>
    @@ "hardware/uefi" :> <<Set("OCONF_BOOT_TYPE", "uefi")>>
    @@ "lxc/base" :> <<Set("OFEAT_IFNAMES", "0"), Set("OFEAT_RESOLV_CONF", "0"),
                       Set("OFEAT_NTP_CONF", "0"), Set("OFEAT_TMPFS_MOUNTS", "1")>>
    @@ "netconfig/systemd-networkd" :> <<Set("OFEAT_NETCONFIG", "1")>>
    @@ "nftables" :> <<Declare("OFEAT_NFTABLES_ALLOW_INPUT", "1"),
                       Declare("OCONF_NFTABLES_ALLOW_INPUT_TCP", "")>>
    @@ "proxmox-pve" :> <<Set("OFEAT_NETCONFIG", "0")>>
    @@ "roles/nginx/base" :> <<Declare("OCONF_NGINX_CONFIG_ROLE", ""),
                               Define("optional", "OCONF_NFTABLES_ALLOW_INPUT_TCP", "80")>>
    @@ "roles/nginx/default" :> <<Set("OCONF_NGINX_CONFIG_ROLE", "static")>>
    @@ "systemd" :> <<Set("DBUILD_TARGET_INIT_SYSTEM", "systemd"), Set("OFEAT_ETC_MACHINE_ID", "1")>>
    @@ "vm/base" :> <<Set("DBUILD_TARGET_IMAGE_FORMAT", "null"), Set("OFEAT_HAVEGED", "1"),
                      Set("OFEAT_IFNAMES", "0"), Set("OFEAT_GEN_FS_UUID", "1"),
                      Declare("OFEAT_VM_SWAP", "1")>>
    @@ "vm/uefi" :> <<Set("OCONF_ROOTFS_TYPE", "ext4")>>

RealConfig == [n \in RealNames |->
                  IF n \in DOMAIN ConfigElsewhere THEN ConfigElsewhere[n] ELSE <<>>]

\* A profile may change what the collections that it names declare, and some
\* change more.
RealProfiles(bcols) ==
    {<<>>, <<Set("OFEAT_NFTABLES_ALLOW_INPUT", "0")>>,
     <<Set("OFEAT_WEB_PROXY", "1")>>
        \o (IF "vm/base" \in bcols THEN <<Set("OFEAT_VM_SWAP", "0")>> ELSE <<>>)}

RealAlias == "OCONF_HW_BOOT_TYPE" :> "OCONF_BOOT_TYPE"
RealVariable == {d.name : d \in UNION {Range(RealConfig[n]) : n \in RealNames}}
RealWord == {"0", "1", "*", "unknown", "tar", "bios", "uefi", "btrfs", "80", "static",
             "systemd", "null", "ext4"}
RealOff == {<<>>, <<"0">>, <<"null">>}

-----------------------------------------------------------------------------
(* Overlays and hooks.                                                     *)

Op(kind, file, when) == [kind |-> kind, files |-> {file}, when |-> when, asked |-> {}]
H(bcol, p, number, ops) ==
    [by |-> bcol, phase |-> p, number |-> number, rank |-> 0, ops |-> ops]
O(bcol, p, kind, file, when) ==
    [by |-> bcol, phase |-> p, ops |-> <<Op(kind, file, when)>>]

Uuid == "OFEAT_GEN_FS_UUID"
Boot == "OFEAT_SEPARATE_BOOT"
Swap == "OFEAT_VM_SWAP"
TakeUuids == <<Op("take", "uuid.rootfs", {Uuid}), Op("take", "uuid.boot", {Uuid, Boot})>>
Initramfs(bcol) == H(bcol, "setup", 74, <<Op("append", "update-initramfs.env", {})>>)

RealRootFile == {"fstab", "hostname", "environment", "nftables.conf", "grub.cfg",
                 "99mmdebstrap-local", "proxmox_install_mode"}
RealInitramfsFile == {"modules", "initramfs.conf", "10-no-resume", "90-firstboot-base", "scripts"}
RealPublishFile == {"rootfs.img.zst", "swap.img.zst", "rootfs.vhdx", "vm.ova", "diskimage.yml"}
Staged == {"env.d", "sysusers", "nft.tmp", "update-initramfs.env", "uuid.rootfs", "uuid.boot",
           "uuid.swap", "partuuid.esp", "partuuid.rootfs", "partuuid.swap", "rootfs.img", "swap.img"}
Packed == {"rootfs.img.zst", "swap.img.zst", "vm.ova"}    \* what is not replaced
RealLeftSpace == {{}, Staged, Staged \cup Packed}

\* Without a kernel there is no initramfs that scripts could be missing from.
RealOverlays ==
    <<O("vm/kvm", "essential", "write", "modules", {}),
      O("vm/hyper-v", "essential", "write", "modules", {}),
      O("vm/esxi", "essential", "write", "modules", {}),
      O("vm/uefi", "essential", "write", "initramfs.conf", {}),
      O("hardware/base", "essential", "write", "90-firstboot-base", {}),
      O("bootable/base", "essential", "write", "10-no-resume", {}),
      O("firstboot/base", "customize", "append", "scripts", {Kernel}),
      O("firstboot/systemd", "customize", "append", "scripts", {Kernel}),
      O("firstboot/vm", "customize", "append", "scripts", {Kernel})>>

SetupHooks ==
    <<[H("base", "setup", 0, <<Op("reset", "sysusers", {})>>) EXCEPT !.rank = 1],
      H("base", "setup", 0, <<Op("reset", "env.d", {})>>),
      H("base", "setup", 1, <<Op("append", "99mmdebstrap-local", {})>>),
      H("base", "setup", 6, <<Op("append", "sysusers", {})>>),
      H("base", "setup", 74, <<Op("reset", "update-initramfs.env", {})>>),
      H("systemd", "setup", 10, <<Op("append", "sysusers", {})>>),
      H("proxmox-pve", "setup", 5, <<Op("write", "proxmox_install_mode", {})>>),
      H("nftables", "setup", 20, <<Op("write", "nft.tmp", {})>>),
      Initramfs("nftables"), Initramfs("firstboot/base"), Initramfs("hardening/network/base"),
      H("bootable/base", "setup", 5, <<Op("write", "uuid.rootfs", {Uuid}),
                                       Op("write", "uuid.boot", {Uuid, Boot})>>),
      H("vm/uefi", "setup", 5, <<Op("write", "partuuid.esp", {Uuid}),
                                 Op("write", "partuuid.swap", {Uuid, Swap}),
                                 Op("write", "uuid.swap", {Uuid, Swap}),
                                 Op("write", "partuuid.rootfs", {Uuid})>>)>>

EssentialHooks ==
    <<H("base", "essential", 5, <<Op("write", "hostname", {})>>),
      H("base", "essential", 6, <<Op("take", "sysusers", {})>>),
      H("vm/uefi", "essential", 10, <<Op("take", "uuid.rootfs", {}), Op("take", "uuid.swap", {Swap}),
                                      Op("write", "fstab", {})>>),
      H("hardware/base", "essential", 20, <<Op("append", "90-firstboot-base",
                                               {"OCONF_ROOTFS_TYPE"})>>)>>

CustomizeHooks ==
    <<H("base", "customize", 2, <<Op("append", "fstab", {"OFEAT_TMPFS_MOUNTS"}),
                                  Op("append", "fstab", {"OFEAT_TMPFS_APT_CACHE"})>>),
      H("base", "customize", 6, <<Op("take", "sysusers", {})>>),
      H("base", "customize", 70, <<Op("take", "target_set_svc", {})>>),
      H("base", "customize", 72, <<Op("extend", "env.d", {"OFEAT_WEB_PROXY"})>>),
      H("base", "customize", 73, <<Op("take", "env.d", {}), Op("write", "environment", {})>>),
      H("base", "customize", 74, <<Op("take", "update-initramfs.env", {}),
                                   [Use(RealInitramfsFile, {Kernel}) EXCEPT
                                       !.asked = {"update-initramfs.env"}]>>),
      H("base", "customize", 89, <<Op("remove", "99mmdebstrap-local", {})>>),
      H("nftables", "customize", 5, <<Op("append", "scripts", {Kernel})>>),
      H("nftables", "customize", 15, <<Op("extend", "nft.tmp",
                 {"OFEAT_NFTABLES_ALLOW_INPUT", "OCONF_NFTABLES_ALLOW_INPUT_TCP"})>>),
      H("nftables", "customize", 20, <<Op("take", "nft.tmp", {}), Op("write", "nftables.conf", {})>>),
      H("hardening/network/base", "customize", 5, <<Op("append", "scripts", {Kernel})>>),
      H("bootable/base", "customize", 75, TakeUuids \o <<Op("write", "grub.cfg", {})>>),
      H("bootable/bios", "customize", 76, TakeUuids),
      H("bootable/uefi", "customize", 76, TakeUuids),
      H("lxc/base", "customize", 89, <<Op("remove", "hostname", {})>>),
      H("proxmox-pve", "customize", 89, <<Op("remove", "proxmox_install_mode", {})>>),
      H("hardware/base", "customize", 95, <<Op("write", "diskimage.yml", {})>>),
      H("vm/uefi", "customize", 95,
        <<Op("take", "partuuid.esp", {}), Op("take", "partuuid.swap", {Swap}),
          Op("take", "uuid.swap", {Swap}), Op("take", "partuuid.rootfs", {}),
          Op("take", "uuid.rootfs", {}), Use(RealRootFile, {}),
          Op("write", "rootfs.img", {}), Op("write", "swap.img", {Swap})>>),
      H("vm/kvm", "customize", 96,
        <<Op("take", "rootfs.img", {}), Op("create", "rootfs.img.zst", {}),
          Op("take", "swap.img", {Swap}), Op("create", "swap.img.zst", {Swap})>>),
      H("vm/hyper-v", "customize", 96, <<Op("take", "rootfs.img", {}), Op("take", "swap.img", {Swap}),
                                         Op("write", "rootfs.vhdx", {})>>),
      H("vm/esxi", "customize", 96, <<Op("take", "rootfs.img", {}), Op("take", "swap.img", {Swap}),
                                      Op("create", "vm.ova", {})>>)>>

RealHooks == SetupHooks \o EssentialHooks \o CustomizeHooks
RealShellFunction == {[by |-> "systemd", file |-> "target_set_svc"]}

-----------------------------------------------------------------------------
(* Properties                                                              *)

Hypervisor == {"vm/kvm", "vm/hyper-v", "vm/esxi"}

\* What is asked for fits together: an init system, and at most one medium.
Sensible ==
    LET bcols == Range(out) IN
    /\ "systemd" \in bcols
    /\ "vm/base" \in bcols => /\ "vm/uefi" \in bcols
                              /\ Cardinality(bcols \cap Hypervisor) = 1
                              /\ "hardware/base" \notin bcols

\* The profile sets a variable that no collection of the image declares.
StrayProfile ==
    /\ merge = "undeclared" /\ pos >= Len(Definitions(<<>>))
    /\ \A n \in Range(out) : \A d \in Range(Config[n]) :
          d.mode = "declare" => d.name # defs[pos + 1].name

\* Every request resolves, and its configuration is merged unless the profile
\* strays: whatever collections are mixed, each declares what it and those
\* after it set.  If the collections fit together, no hook misses what another
\* one should have left, however many scripts lie between them; only an image
\* that an earlier build left keeps the packing hooks of two hypervisors from
\* writing theirs.
FailuresExplained ==
    /\ phase \notin {"cycle", "late_virtual", "missing"}
    /\ build = "failed" =>
          \/ StrayProfile
          \/ merge = "done" /\ ~ Sensible
          \/ merge = "done" /\ Head(schedule).kind = "create" /\ Head(schedule).files \subseteq Packed

\* Nothing that an earlier build left in the staging directory gets into an
\* image: what hooks take was written anew in this build.
NothingStale ==
    Sensible => \A f \in DOMAIN taken : EarlierBuild \notin taken[f] \/ f \in Packed

\* Whatever a collection puts into a file is still there when the file is used
\* for the last time: no reset comes after a request, and no contribution after
\* the initramfs, the image or the accounts have been made.  What was to be
\* removed is not in the image.
RequestsReachImage ==
    build = "done" /\ Sensible =>
        /\ \A g \in given : g[1] \in DOMAIN taken /\ g[2] \in taken[g[1]]
        /\ \A f \in DOMAIN taken : f \in DOMAIN store
=============================================================================
