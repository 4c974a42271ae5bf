----------------------------- MODULE MCDiskJob -----------------------------
(***************************************************************************)
(* The document that hardware/base/files/tar-to-disk.yml.in makes, with    *)
(* every combination of the storage layers, and the default one; a volume  *)
(* above and one below another, and one at a directory that is also        *)
(* mounted for the chroot; documents written by hand that are refused, or  *)
(* whose entries do not all become volumes.                                *)
(***************************************************************************)
EXTENDS DiskJob

MCDir == {"/", "/boot", "/boot/efi", "/var", "/var/log", "/var/cache/apt",
          "/run", "/run/lock", "/var/tmp"}

MCAbove == [d \in MCDir |->
    (IF d = "/" THEN {} ELSE {"/"})
      \cup (IF d = "/boot/efi" THEN {"/boot"} ELSE {})
      \cup (IF d \in {"/var/log", "/var/cache/apt", "/var/tmp"} THEN {"/var"} ELSE {})
      \cup (IF d = "/run/lock" THEN {"/run"} ELSE {})]

\* Three of the nine: one that may cover a volume, one that is in a volume.
MCChrootDirs == <<"/var/tmp", "/run", "/run/lock">>

E(name, fstype, mnt_dir) == [Volume(name, fstype, Unset) EXCEPT !.mnt_dir = mnt_dir]
OffE(name, fstype, mnt_dir) == [E(name, fstype, mnt_dir) EXCEPT !.enabled = "off"]
OptE(name, fstype, mnt_dir) == [E(name, fstype, mnt_dir) EXCEPT !.mnt_opts = TRUE]
Sw(on) == IF on THEN "on" ELSE "off"

\* The template, with entries in the place of those for log and apt.
Template(bootRaid, rootRaid, luks, uefi, rootFs, entries) ==
    [boot_type |-> IF uefi THEN "uefi" ELSE "bios", boot_raid |-> Sw(bootRaid),
     root_vg_raid |-> Sw(rootRaid), luks |-> Sw(luks), passphrase |-> TRUE,
     luks_type |-> "luks2", integrity |-> FALSE, snapper |-> TRUE,
     volumes |-> <<E("boot", "ext4", Unset),
                   Volume("esp", "vfat", Sw(uefi)),
                   E("root", rootFs, Unset),
                   Volume("swap", "swap", Sw(uefi))>> \o entries]

MCVolumes == {<<OffE("log", "ext4", Unset), OffE("apt", "ext4", Unset)>>,
              <<E("log", "ext4", Unset), OffE("apt", "ext4", Unset)>>,
              <<E("var", "btrfs", "/var"), E("log", "ext4", Unset)>>,
              <<E("log", "ext4", Unset), E("var", "ext4", "/var")>>,
              <<E("run", "ext4", "/run")>>,
              <<OptE("spare", "ext4", NoDir), E("apt", "ext4", Unset)>>,
              <<OptE("spare", "btrfs", NoDir)>>}

\* What is added to the template by hand: names twice, in one dictionary or in
\* both, disabled ones in between; a swap of another name; other filesystems
\* for the volumes that have a place of their own; what the parser refuses.
ByHand == {<<E("log", "ext4", "/var"), E("log", "ext4", Unset)>>,
           <<E("log", "ext4", Unset), OffE("log", "ext4", Unset), E("apt", "ext4", Unset)>>,
           <<E("log", "swap", Unset), E("log", "ext4", Unset), E("swap2", "swap", Unset)>>,
           <<E("swap", "ext4", "/var"), E("log", "ext4", Unset)>>,
           <<E("boot", "btrfs", Unset), E("log", "ext4", Unset)>>,
           <<E("boot", "ext4", NoDir)>>, <<OffE("root", "ext4", Unset)>>,
           <<E("boot", "swap", Unset)>>, <<E("root", "swap", Unset)>>,
           <<E("esp", "vfat", Unset)>>, <<OffE("esp", "vfat", Unset)>>,
           <<E("spare", "ext4", NoDir)>>, <<E("vtmp", "ext4", "/var/tmp")>>,
           <<OptE("vtmp", "ext4", "/var/tmp")>>, <<E("other", "ext4", Unset)>>,
           <<E("other", "ext4", "/")>>, <<E("log", "none", Unset)>>}

Plain(uefi, entries) == Template(FALSE, FALSE, FALSE, uefi, "ext4", entries)

\* Switches that are missing, and the conditions on LUKS.
Keys == {[Plain(FALSE, <<>>) EXCEPT !.luks = l, !.boot_raid = r, !.passphrase = p,
                                    !.luks_type = t, !.integrity = i] :
            l \in {"off", Unset}, r \in {"off", Unset}, p, i \in BOOLEAN, t \in {"luks1", "luks2"}}

MCDocSpace ==
    {Template(bm, rm, l, u, "btrfs", <<E("log", "ext4", Unset)>>) : bm, rm, l, u \in BOOLEAN}
      \cup {Template(r, r, l, u, "btrfs", v) : r, l, u \in BOOLEAN, v \in MCVolumes}
      \cup {Plain(u, v) : u \in BOOLEAN, v \in ByHand}
      \cup Keys \cup {DefaultDoc(b) : b \in {"bios", "uefi"}}

\* Two jobs: with and without arrays and encryption, few directories.
PairChrootDirs == <<"/run">>
PairDocSpace == {Template(r, r, l, FALSE, "ext4", <<>>) : r, l \in BOOLEAN}
=============================================================================
