---------------------------- MODULE MCFirstboot ----------------------------
(***************************************************************************)
(* The fstab of collection vm/uefi: root by UUID, the EFI system partition *)
(* by label, swap by UUID with nofail (hooks/essential/10-fstab.sh:18-24). *)
(***************************************************************************)
EXTENDS Firstboot

MCFstab == <<"root", "esp", "swap">>
=============================================================================
