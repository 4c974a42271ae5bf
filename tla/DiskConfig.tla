----------------------------- MODULE DiskConfig -----------------------------
(***************************************************************************)
(* parse_disk_config(): the document that describes a disk (written by     *)
(* hand, or by hooks/customize/95-disk_image_config.sh of collection       *)
(* hardware/base) becomes the config that main_create_disk_image() works   *)
(* on, or is refused.                                                      *)
(***************************************************************************)
EXTENDS Naturals, FiniteSets, SequencesExt

CONSTANTS Dir,          \* directories below the mount root
          Above,        \* Above[d]: the directories above d, without d
          DocSpace      \* the documents considered

NoDir == "no directory"      \* null
Unset == "unset"

DefaultDir == [boot |-> "/boot", esp |-> "/boot/efi", root |-> "/",
               swap |-> NoDir, log |-> "/var/log", apt |-> "/var/cache/apt"]

ASSUME DirAssumption == /\ Range(DefaultDir) \subseteq Dir \cup {NoDir}
                        /\ Dir \cap {NoDir, Unset} = {}
                        /\ Above \in [Dir -> SUBSET Dir]
                        /\ Above["/"] = {}
                        /\ \A d \in Dir \ {"/"} : "/" \in Above[d]

\* A switch that is not set is on.
Switch == {"on", "off", Unset}
IsOn(switch) == switch # "off"

\* An entry of the list of volumes.  An fstype that is missing or not known, and
\* a name or size that is missing, are one: the entry is no volume.
Entry == [name : STRING, fstype : {"ext4", "btrfs", "vfat", "swap", "none"},
          mnt_dir : Dir \cup {NoDir, Unset}, mnt_opts : BOOLEAN, enabled : Switch]

\* A document.  snapper: it is on, and the image has it.
Doc == [boot_type : {"bios", "uefi"}, boot_raid : Switch, root_vg_raid : Switch,
        luks : Switch, passphrase : BOOLEAN, luks_type : {"luks1", "luks2"},
        integrity : BOOLEAN, snapper : BOOLEAN, volumes : Seq(Entry)]

ASSUME DocSpaceAssumption == DocSpace \subseteq Doc

Volume(name, fstype, enabled) ==
    [name |-> name, fstype |-> fstype, mnt_dir |-> Unset, mnt_opts |-> FALSE, enabled |-> enabled]

\* get_default_disk_config_data(): for a run without a document.
DefaultDoc(boot_type) ==
    [boot_type |-> boot_type, boot_raid |-> "off", root_vg_raid |-> "off",
     luks |-> "off", passphrase |-> TRUE, luks_type |-> "luks2",
     integrity |-> FALSE, snapper |-> TRUE,
     volumes |-> <<Volume("boot", "ext4", Unset), Volume("root", "btrfs", Unset),
                   Volume("swap", "swap", "off"), Volume("log", "ext4", Unset),
                   Volume("apt", "ext4", "off")>>
                 \o (IF boot_type = "uefi" THEN <<Volume("esp", "vfat", Unset)>> ELSE <<>>)]

-----------------------------------------------------------------------------
(* mkobj_volume()                                                          *)

IsLv(e) == e.name \notin {"esp", "boot", "swap"} /\ e.fstype # "swap"

MntDir(e) ==
    IF e.mnt_dir # Unset THEN e.mnt_dir
    ELSE IF e.name \in DOMAIN DefaultDir THEN DefaultDir[e.name] ELSE NoDir

\* There are default options, or it needs none.  Those of a volume that has no
\* directory cannot be computed.
HasOptions(e) ==
    \/ e.mnt_opts \/ e.fstype = "swap" \/ e.name \in {"root", "esp", "boot"}
    \/ /\ MntDir(e) # NoDir
       /\ ({MntDir(e)} \cup Above[MntDir(e)]) \cap {"/proc", "/sys", "/dev", "/tmp", "/var/tmp"} = {}

\* Only a swap may have neither a directory nor a default for one.
ValidEntry(e) ==
    /\ e.fstype # "none"
    /\ e.mnt_dir = Unset /\ e.name \notin DOMAIN DefaultDir => e.fstype = "swap"
    /\ e.name = "root" <=> MntDir(e) = "/"
    /\ HasOptions(e)

-----------------------------------------------------------------------------
(* mkobj_volumes(): two dictionaries by name, so that the last entry of a  *)
(* name counts, at its place.                                              *)

SameKey(e, f) == e.name = f.name /\ IsLv(e) = IsLv(f)

\* A fault that the checks detect: the first entry of a name counts.
IsFirst(d, i) == \A k \in 1..(i - 1) : ~ SameKey(d.volumes[k], d.volumes[i])

IsLast(d, i) == \A k \in (i + 1)..Len(d.volumes) : ~ SameKey(d.volumes[k], d.volumes[i])

Counts(d, i) == IsLast(d, i) /\ IsOn(d.volumes[i].enabled)

\* The places of entries that count for a name, in disk_volumes or root_vg_volumes.
Places(d, name, lv) ==
    {i \in DOMAIN d.volumes :
        Counts(d, i) /\ d.volumes[i].name = name /\ IsLv(d.volumes[i]) = lv}

\* The checks at the end.
Accepted(d) ==
    /\ \A i \in DOMAIN d.volumes : ValidEntry(d.volumes[i])
    /\ Places(d, "boot", FALSE) # {}
    /\ d.boot_type = "uefi" => Places(d, "esp", FALSE) # {}
    /\ Places(d, "root", TRUE) # {}
    /\ IsOn(d.luks) => d.passphrase /\ (d.integrity => d.luks_type = "luks2")

-----------------------------------------------------------------------------
(* What main_create_disk_image() takes from it.                            *)

VolumeAt(d, i) == [fstype |-> d.volumes[i].fstype, dir |-> MntDir(d.volumes[i])]

\* The one volume of that name, or none.
Named(d, name, lv) == [i \in 1..Cardinality(Places(d, name, lv)) |->
                          VolumeAt(d, CHOOSE k \in Places(d, name, lv) : TRUE)]

IsExtra(d, i) == Counts(d, i) /\ IsLv(d.volumes[i]) /\ d.volumes[i].name # "root"

Extra(d) == FlattenSeq([i \in DOMAIN d.volumes |->
                           IF IsExtra(d, i) THEN <<VolumeAt(d, i)>> ELSE <<>>])

\* The partition of swap is made if there is an entry of that name, whatever its
\* fstype; one of the ESP only for UEFI.
Parse(d) ==
    [bootRaid |-> IsOn(d.boot_raid), rootRaid |-> IsOn(d.root_vg_raid), luks |-> IsOn(d.luks),
     uefi |-> d.boot_type = "uefi", snapper |-> d.snapper,
     root |-> Named(d, "root", TRUE), boot |-> Named(d, "boot", FALSE),
     esp |-> IF d.boot_type = "uefi" THEN Named(d, "esp", FALSE) ELSE <<>>,
     swap |-> Named(d, "swap", FALSE), volumes |-> Extra(d)]
=============================================================================
