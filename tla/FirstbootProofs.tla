-------------------------- MODULE FirstbootProofs --------------------------
(***************************************************************************)
(* For every fstab that begins with the root filesystem, and any number of *)
(* losses of power, failures and restarts: when an image with firstboot/vm *)
(* stays down, and that the fstab of one that comes up leads to its        *)
(* filesystems.                                                            *)
(***************************************************************************)
EXTENDS Firstboot, TLAPS

-----------------------------------------------------------------------------
(* The inductive invariant                                                 *)

Place == {"off", "stuck", "rewrite", "mount", "bottom", "emergency", "up"} \cup Service
FstabType == [Fs -> Nat \cup {Label}]

TInv ==
    /\ vm \in BOOLEAN /\ uuid \in [Fs -> Nat]
    /\ fstab \in FstabType /\ fresh \in FstabType
    /\ grub \in [search : Nat, root : Nat, firstboot : BOOLEAN]
    /\ initrd \in BOOLEAN /\ flag \in BOOLEAN /\ service \in BOOLEAN
    /\ at \in Place
    /\ todo \in Seq(Fs) /\ IsInjective(todo)
    /\ rootfs_uuid \in Nat /\ root \in Nat
    /\ scripts \subseteq {"base", "systemd", "vm"}
    /\ failures \in Nat

\* Where the mode is known, and that nothing changes in an image without
\* firstboot/vm.  GRUB looks for another filesystem only after the mode is over.
Modes ==
    /\ ~ vm => /\ uuid = [f \in Fs |-> 0] /\ fstab = Factory
               /\ at \notin {"rewrite", "stuck"} /\ "vm" \notin scripts
               /\ grub.search = 0 /\ grub.root = 0
               /\ at = "mount" => root = 0
    /\ initrd => grub.search = 0 /\ grub.root = 0
    /\ at = "rewrite" => vm /\ FirstbootMode /\ "vm" \in scripts
    /\ at \in {"mount", "bottom"} /\ scripts # {} => FirstbootMode
    /\ at \in {"install", "config"} => ~ initrd
    /\ failures > 0 => harm \cap ({"rewrite", "bottom"} \cup Service) # {}

\* No command of the initramfs has failed, as far as one can tell.
Calm == failures = 0 \/ harm \cap {"rewrite", "bottom"} = {}
Sound == \A f \in Fs : Located(fstab[f], f)

\* The root filesystem is the first to get a new UUID; what has got one is in the
\* new fstab, which is in place before the system comes up.
Entered ==
    /\ uuid["root"] = 0 => \A f \in Fs : uuid[f] = 0
    /\ at = "rewrite" => /\ \A f \in Range(todo) : Located(Factory[f], f)
                         /\ \A f \in Fs \ Range(todo) : Located(fresh[f], f)
                         /\ uuid["root"] = 0 => todo = FstabOrder
    /\ at \in {"mount", "bottom"} =>
          IF "vm" \in scripts THEN uuid["root"] # 0 /\ \A f \in Fs : Located(fresh[f], f)
                              ELSE Sound
    /\ at \in Service \cup {"up", "emergency"} => Sound
    /\ grub.search = uuid["root"] => Sound

\* Nothing has happened between the first new UUID and GRUB's configuration.
Safe == harm \cap ({"rewrite", "mount", "bottom"} \cup Service) = {}
Agree == grub.search = uuid["root"] /\ grub.root = uuid["root"]

\* Then GRUB and the initramfs find the root filesystem in every boot.
Found ==
    /\ at \notin {"stuck", "emergency"}
    /\ at \in {"off", "up"} => Agree
    /\ at \in {"mount", "bottom"} /\ ~ FirstbootMode => Agree
    /\ at = "rewrite" /\ "root" \notin Range(todo) => rootfs_uuid = uuid["root"]
    /\ at = "mount" => root = uuid["root"]
    /\ at \in {"rewrite", "mount"} /\ FirstbootMode => {"base", "systemd"} \subseteq scripts
    /\ at = "bottom" /\ FirstbootMode => ("base" \in scripts \/ flag)
                                       /\ ("systemd" \in scripts \/ service)
    /\ at = "config" => grub.search = uuid["root"]

IInv == TInv /\ Modes /\ (vm /\ Calm => Entered) /\ (vm /\ Safe => Found)

-----------------------------------------------------------------------------
(* Facts about the fstab                                                   *)

\* What is read from the fstab line by line: each filesystem is there once.
LEMMA NextLine ==
    ASSUME NEW s \in Seq(Fs), s # <<>>, IsInjective(s)
    PROVE  /\ Head(s) \in Fs /\ Tail(s) \in Seq(Fs) /\ IsInjective(Tail(s))
           /\ Range(s) = Range(Tail(s)) \cup {Head(s)}
           /\ Head(s) \notin Range(Tail(s))
<1>1. /\ Len(s) \in Nat \ {0} /\ DOMAIN s = 1..Len(s)
      /\ Head(s) = s[1] /\ Tail(s) \in Seq(Fs) /\ Len(Tail(s)) = Len(s) - 1
      /\ \A i \in 1..(Len(s) - 1) : Tail(s)[i] = s[i + 1]
      /\ DOMAIN Tail(s) = 1..(Len(s) - 1)
  OBVIOUS
<1>2. IsInjective(Tail(s))
  BY <1>1 DEF IsInjective
<1>3. Head(s) \notin Range(Tail(s))
  BY <1>1 DEF IsInjective, Range
<1>4. ASSUME NEW x \in Range(s)
      PROVE  x \in Range(Tail(s)) \cup {Head(s)}
  <2>1. PICK i \in 1..Len(s) : x = s[i]
    BY <1>1 DEF Range
  <2>2. CASE i = 1
    BY <1>1, <2>1, <2>2
  <2>3. CASE i # 1
    <3>1. i - 1 \in 1..(Len(s) - 1) /\ Tail(s)[i - 1] = s[(i - 1) + 1]
      BY <1>1, <2>3
    <3>2. x = Tail(s)[i - 1]
      BY <2>1, <3>1
    <3> QED
      BY <1>1, <3>1, <3>2 DEF Range
  <2> QED
    BY <2>2, <2>3
<1>5. ASSUME NEW x \in Range(Tail(s)) \cup {Head(s)}
      PROVE  x \in Range(s)
  BY <1>1 DEF Range
<1>6. Head(s) \in Fs
  BY <1>1
<1> QED
  BY <1>1, <1>2, <1>3, <1>4, <1>5, <1>6

\* The fstab of the image.
LEMMA FstabFacts ==
    /\ FstabOrder \in Seq(Fs) /\ IsInjective(FstabOrder) /\ FstabOrder # <<>>
    /\ Range(FstabOrder) = Fs /\ Head(FstabOrder) = "root" /\ "root" \in Fs
    /\ Factory \in FstabType /\ Factory["root"] = 0
    /\ \A f \in Fs : Factory[f] = Label \/ Factory[f] = 0
    /\ <<>> \in Seq(Fs) /\ IsInjective(<<>>) /\ Range(<<>>) = {}
<1>1. /\ FstabOrder \in Seq(STRING) /\ IsInjective(FstabOrder)
      /\ FstabOrder # <<>> /\ Head(FstabOrder) = "root"
      /\ Label \notin Nat /\ ByLabel \subseteq Fs \ {"root"}
  BY FstabAssumption
<1>2. FstabOrder \in Seq(Fs) /\ Range(FstabOrder) = Fs
  BY <1>1 DEF Fs, Range
<1>3. "root" \in Fs
  BY <1>1, <1>2, NextLine
<1>4. /\ Factory \in FstabType /\ Factory["root"] = 0
      /\ \A f \in Fs : Factory[f] = Label \/ Factory[f] = 0
  BY <1>1, <1>3 DEF Factory, FstabType
<1>5. <<>> \in Seq(Fs) /\ IsInjective(<<>>) /\ Range(<<>>) = {}
  BY DEF IsInjective, Range
<1> QED
  BY <1>1, <1>2, <1>3, <1>4, <1>5

-----------------------------------------------------------------------------
(* The invariant holds at first                                            *)

LEMMA InitInvariant == Init => IInv
<1> SUFFICES ASSUME Init PROVE IInv
  OBVIOUS
<1> USE DEF Init
<1>1. TInv
  BY FstabFacts DEF TInv, Place, FstabType
<1>2. Sound
  BY FstabFacts DEF Sound, Located
<1>3. Modes
  BY FstabFacts DEF Modes, FirstbootMode, Service
<1>4. Entered
  BY <1>2 DEF Entered, Service
<1>5. Found
  BY FstabFacts DEF Found, Agree, Safe
<1> QED
  BY <1>1, <1>3, <1>4, <1>5 DEF IInv

-----------------------------------------------------------------------------
(* Types                                                                   *)

\* Every step keeps the types.
LEMMA StepTInv ==
    ASSUME TInv, Modes, [Next]_vars
    PROVE  TInv'
<1> USE FstabFacts DEF TInv, Place, FstabType, Service, disk, run, history
<1>1. CASE NotFound
  BY <1>1 DEF NotFound
<1>2. CASE Boot
  BY <1>2 DEF Boot, FirstbootMode
<1>3. CASE Skip
  BY <1>3, NextLine DEF Skip
<1>4. CASE Rewrite
  BY <1>4, NextLine, SMTT(40) DEF Rewrite, NewUuid
<1>5. CASE Override
  BY <1>5 DEF Override
<1>6. CASE NoRoot
  BY <1>6 DEF NoRoot
<1>7. CASE Mount
  BY <1>7 DEF Mount
<1>8. CASE SetFlag
  BY <1>8 DEF SetFlag, Ready, Ran
<1>9. CASE EnableService
  BY <1>9 DEF EnableService, Ready, Ran
<1>10. CASE InstallFstab
  BY <1>10 DEF InstallFstab, Ready, Ran
<1>11. CASE Emergency
  BY <1>11 DEF Emergency
<1>12. CASE ComeUp
  BY <1>12 DEF ComeUp
<1>13. CASE RemoveFlag
  BY <1>13 DEF RemoveFlag
<1>14. CASE DisableService
  BY <1>14 DEF DisableService
<1>15. CASE UpdateInitramfs
  BY <1>15 DEF UpdateInitramfs
<1>16. CASE InstallGrub
  BY <1>16 DEF InstallGrub
<1>17. CASE UpdateGrub
  BY <1>17 DEF UpdateGrub
<1>18. CASE CopyFails
  BY <1>18 DEF CopyFails, Failure
<1>19. CASE RewriteFails
  BY <1>19, NextLine DEF RewriteFails, Failure
<1>20. CASE LineFails
  <2>1. PICK f \in Fs : NewUuid(f)
    BY <1>20 DEF LineFails
  <2>2. todo' \in Seq(Fs) /\ IsInjective(todo')
    <3>1. todo # <<>> /\ todo' = Tail(todo)
      BY <2>1 DEF NewUuid
    <3> QED
      BY <3>1, NextLine
  <2>3. uuid' \in [Fs -> Nat] /\ rootfs_uuid' \in Nat
    <3>1. uuid' \in [Fs -> Nat]
      BY <2>1, SMTT(40) DEF NewUuid
    <3>2. rootfs_uuid' = uuid'[f] \/ rootfs_uuid' = rootfs_uuid
      BY <2>1 DEF NewUuid
    <3> QED
      BY <3>1, <3>2
  <2>4. UNCHANGED <<vm, fstab, grub, initrd, flag, service, at, root, scripts, fresh>>
    BY <1>20, <2>1 DEF LineFails, NewUuid
  <2>5. failures' \in Nat
    BY <1>20 DEF LineFails, Failure
  <2> QED
    BY <2>2, <2>3, <2>4, <2>5
<1>21. CASE OverrideFails
  BY <1>21 DEF OverrideFails, Failure
<1>22. CASE ScriptFails
  BY <1>22 DEF ScriptFails, Ready, Ran, Failure
<1>23. CASE DisableFails
  BY <1>23 DEF DisableFails, Failure
<1>24. CASE GiveUp
  BY <1>24 DEF GiveUp, Failure
<1>25. CASE PowerLoss
  BY <1>25 DEF PowerLoss, NoRun
<1>26. CASE Restart
  BY <1>26 DEF Restart, NoRun
<1>27. CASE UNCHANGED vars
  BY <1>27 DEF vars
<1> QED
  BY <1>1, <1>2, <1>3, <1>4, <1>5, <1>6, <1>7, <1>8, <1>9, <1>10, <1>11, <1>12, <1>13,
     <1>14, <1>15, <1>16, <1>17, <1>18, <1>19, <1>20, <1>21, <1>22, <1>23, <1>24, <1>25,
     <1>26, <1>27 DEF Next, Advance

-----------------------------------------------------------------------------
(* The mode                                                                *)

\* Every step keeps what is said of the mode.
LEMMA StepModes ==
    ASSUME TInv, Modes, [Next]_vars
    PROVE  Modes'
<1> USE FstabFacts DEF TInv, Modes, Service, FirstbootMode, disk, run, history
<1>1. CASE NotFound
  BY <1>1 DEF NotFound
<1>2. CASE Boot
  BY <1>2 DEF Boot, FirstbootMode
<1>3. CASE Skip
  BY <1>3 DEF Skip
<1>4. CASE Rewrite
  BY <1>4, NextLine DEF Rewrite, NewUuid
<1>5. CASE Override
  BY <1>5 DEF Override
<1>6. CASE NoRoot
  BY <1>6 DEF NoRoot
<1>7. CASE Mount
  BY <1>7 DEF Mount
<1>8. CASE SetFlag
  BY <1>8 DEF SetFlag, Ready, Ran
<1>9. CASE EnableService
  BY <1>9 DEF EnableService, Ready, Ran
<1>10. CASE InstallFstab
  BY <1>10 DEF InstallFstab, Ready, Ran
<1>11. CASE Emergency
  BY <1>11 DEF Emergency
<1>12. CASE ComeUp
  BY <1>12 DEF ComeUp
<1>13. CASE RemoveFlag
  BY <1>13 DEF RemoveFlag
<1>14. CASE DisableService
  BY <1>14 DEF DisableService
<1>15. CASE UpdateInitramfs
  BY <1>15 DEF UpdateInitramfs
<1>16. CASE InstallGrub
  BY <1>16 DEF InstallGrub
<1>17. CASE UpdateGrub
  BY <1>17 DEF UpdateGrub
<1>18. CASE CopyFails
  BY <1>18 DEF CopyFails, Failure
<1>19. CASE RewriteFails
  BY <1>19 DEF RewriteFails, Failure
<1>20. CASE LineFails
  <2>1. failures' > 0 /\ harm' \cap {"rewrite"} # {}
    BY <1>20 DEF LineFails, NewUuid, Failure
  <2> QED
    BY <1>20, <2>1 DEF LineFails, NewUuid
<1>21. CASE OverrideFails
  BY <1>21 DEF OverrideFails, Failure
<1>22. CASE ScriptFails
  <2>1. harm' \cap {"bottom"} # {}
    BY <1>22 DEF ScriptFails, Ready, Failure
  <2> QED
    BY <1>22, <2>1 DEF ScriptFails, Ready, Ran
<1>23. CASE DisableFails
  BY <1>23 DEF DisableFails, Failure
<1>24. CASE GiveUp
  BY <1>24 DEF GiveUp, Failure
<1>25. CASE PowerLoss
  BY <1>25 DEF PowerLoss, NoRun
<1>26. CASE Restart
  BY <1>26 DEF Restart, NoRun
<1>27. CASE UNCHANGED vars
  BY <1>27 DEF vars
<1> QED
  BY <1>1, <1>2, <1>3, <1>4, <1>5, <1>6, <1>7, <1>8, <1>9, <1>10, <1>11, <1>12, <1>13,
     <1>14, <1>15, <1>16, <1>17, <1>18, <1>19, <1>20, <1>21, <1>22, <1>23, <1>24, <1>25,
     <1>26, <1>27 DEF Next, Advance

-----------------------------------------------------------------------------
(* What has happened is not forgotten                                      *)

\* Whatever the steps before it, vm does not change and harm and failures grow.
LEMMA History ==
    ASSUME TInv, [Next]_vars
    PROVE  /\ vm' = vm /\ harm \subseteq harm' /\ failures' >= failures
           /\ failures' # failures => harm' = harm \cup {at}
<1> USE DEF TInv, disk, run, history
<1>1. CASE NotFound
  BY <1>1 DEF NotFound
<1>2. CASE Boot
  BY <1>2 DEF Boot, FirstbootMode
<1>3. CASE Skip
  BY <1>3 DEF Skip
<1>4. CASE Rewrite
  BY <1>4 DEF Rewrite, NewUuid
<1>5. CASE Override
  BY <1>5 DEF Override
<1>6. CASE NoRoot
  BY <1>6 DEF NoRoot
<1>7. CASE Mount
  BY <1>7 DEF Mount
<1>8. CASE SetFlag
  BY <1>8 DEF SetFlag, Ready, Ran
<1>9. CASE EnableService
  BY <1>9 DEF EnableService, Ready, Ran
<1>10. CASE InstallFstab
  BY <1>10 DEF InstallFstab, Ready, Ran
<1>11. CASE Emergency
  BY <1>11 DEF Emergency
<1>12. CASE ComeUp
  BY <1>12 DEF ComeUp
<1>13. CASE RemoveFlag
  BY <1>13 DEF RemoveFlag
<1>14. CASE DisableService
  BY <1>14 DEF DisableService
<1>15. CASE UpdateInitramfs
  BY <1>15 DEF UpdateInitramfs
<1>16. CASE InstallGrub
  BY <1>16 DEF InstallGrub
<1>17. CASE UpdateGrub
  BY <1>17 DEF UpdateGrub
<1>18. CASE CopyFails
  BY <1>18 DEF CopyFails, Failure
<1>19. CASE RewriteFails
  BY <1>19 DEF RewriteFails, Failure
<1>20. CASE LineFails
  BY <1>20 DEF LineFails, NewUuid, Failure
<1>21. CASE OverrideFails
  BY <1>21 DEF OverrideFails, Failure
<1>22. CASE ScriptFails
  BY <1>22 DEF ScriptFails, Ready, Ran, Failure
<1>23. CASE DisableFails
  BY <1>23 DEF DisableFails, Failure
<1>24. CASE GiveUp
  BY <1>24 DEF GiveUp, Failure
<1>25. CASE PowerLoss
  BY <1>25 DEF PowerLoss, NoRun
<1>26. CASE Restart
  BY <1>26 DEF Restart, NoRun
<1>27. CASE UNCHANGED vars
  BY <1>27 DEF vars
<1> QED
  BY <1>1, <1>2, <1>3, <1>4, <1>5, <1>6, <1>7, <1>8, <1>9, <1>10, <1>11, <1>12, <1>13,
     <1>14, <1>15, <1>16, <1>17, <1>18, <1>19, <1>20, <1>21, <1>22, <1>23, <1>24, <1>25,
     <1>26, <1>27 DEF Next, Advance

\* A command of the initramfs that fails leaves its mark.
LEMMA Harmed ==
    ASSUME TInv, CopyFails \/ RewriteFails \/ LineFails \/ OverrideFails \/ ScriptFails
    PROVE  ~ Calm' /\ ~ Safe'
<1>1. /\ at = "rewrite" \/ at = "bottom"
      /\ failures' = failures + 1 /\ harm' = harm \cup {at}
  BY DEF CopyFails, RewriteFails, LineFails, OverrideFails, ScriptFails, Ready, Failure,
     NewUuid
<1>2. failures' # 0
  BY <1>1 DEF TInv
<1> QED
  BY <1>1, <1>2 DEF Calm, Safe

-----------------------------------------------------------------------------
(* The new fstab                                                           *)

\* Every step keeps what is said of the new fstab.
LEMMA StepEntered ==
    ASSUME TInv, Modes, vm, Entered, Calm', [Next]_vars
    PROVE  Entered'
<1> USE FstabFacts DEF TInv, Modes, Entered, Sound, Located, Service, FirstbootMode,
   disk, run, history
<1>1. CASE NotFound
  BY <1>1 DEF NotFound
<1>2. CASE Boot
  BY <1>2 DEF Boot, FirstbootMode
<1>3. CASE Skip
  BY <1>3, NextLine DEF Skip, Range
<1>4. CASE Rewrite
  <2> DEFINE f == Head(todo)
  <2>1. /\ at = "rewrite" /\ at' = at /\ todo # <<>> /\ todo' = Tail(todo) /\ f \in Fs
        /\ uuid' = [uuid EXCEPT ![f] = @ + 1] /\ fresh' = [fresh EXCEPT ![f] = uuid'[f]]
        /\ UNCHANGED <<grub, initrd, scripts>>
    BY <1>4, NextLine DEF Rewrite, NewUuid
  <2>2. /\ uuid[f] \in Nat /\ uuid'[f] = uuid[f] + 1 /\ fresh'[f] = uuid'[f]
        /\ \A g \in Fs \ {f} : uuid'[g] = uuid[g] /\ fresh'[g] = fresh[g]
    BY <2>1 DEF FstabType
  <2>3. Range(todo') \cup {f} = Range(todo) /\ f \notin Range(todo')
    BY <2>1, NextLine
  <2>4. Range(todo) \subseteq Fs
    BY DEF Range
  <2>5. uuid'["root"] # 0
    <3>1. CASE uuid["root"] = 0
      BY <2>1, <2>2, <3>1
    <3>2. CASE uuid["root"] # 0 /\ f = "root"
      BY <2>2, <3>2
    <3>3. CASE uuid["root"] # 0 /\ f # "root"
      BY <2>2, <3>3
    <3> QED
      BY <3>1, <3>2, <3>3
  <2>6. \A g \in Range(todo') : Factory[g] = Label \/ Factory[g] = uuid'[g]
    BY <2>1, <2>2, <2>3, <2>4
  <2>7. \A g \in Fs \ Range(todo') : fresh'[g] = Label \/ fresh'[g] = uuid'[g]
    BY <2>1, <2>2, <2>3
  <2>8. grub'.search # uuid'["root"]
    BY <2>1, <2>5
  <2> HIDE DEF f
  <2> QED
    BY <2>1, <2>5, <2>6, <2>7, <2>8
<1>5. CASE Override
  BY <1>5 DEF Override
<1>6. CASE NoRoot
  BY <1>6 DEF NoRoot
<1>7. CASE Mount
  BY <1>7 DEF Mount
<1>8. CASE SetFlag
  BY <1>8 DEF SetFlag, Ready, Ran
<1>9. CASE EnableService
  BY <1>9 DEF EnableService, Ready, Ran
<1>10. CASE InstallFstab
  BY <1>10 DEF InstallFstab, Ready, Ran
<1>11. CASE Emergency
  BY <1>11 DEF Emergency
<1>12. CASE ComeUp
  BY <1>12 DEF ComeUp
<1>13. CASE RemoveFlag
  BY <1>13 DEF RemoveFlag
<1>14. CASE DisableService
  BY <1>14 DEF DisableService
<1>15. CASE UpdateInitramfs
  BY <1>15 DEF UpdateInitramfs
<1>16. CASE InstallGrub
  BY <1>16 DEF InstallGrub
<1>17. CASE UpdateGrub
  BY <1>17 DEF UpdateGrub
<1>18. CASE CopyFails
  BY <1>18, Harmed DEF CopyFails, Failure
<1>19. CASE RewriteFails
  BY <1>19, Harmed DEF RewriteFails, Failure
<1>20. CASE LineFails
  BY <1>20, Harmed DEF LineFails, NewUuid, Failure
<1>21. CASE OverrideFails
  BY <1>21, Harmed DEF OverrideFails, Failure
<1>22. CASE ScriptFails
  BY <1>22, Harmed DEF ScriptFails, Ready, Ran, Failure
<1>23. CASE DisableFails
  BY <1>23 DEF DisableFails, Failure
<1>24. CASE GiveUp
  BY <1>24 DEF GiveUp, Failure
<1>25. CASE PowerLoss
  BY <1>25 DEF PowerLoss, NoRun
<1>26. CASE Restart
  BY <1>26 DEF Restart, NoRun
<1>27. CASE UNCHANGED vars
  BY <1>27 DEF vars
<1> QED
  BY <1>1, <1>2, <1>3, <1>4, <1>5, <1>6, <1>7, <1>8, <1>9, <1>10, <1>11, <1>12, <1>13,
     <1>14, <1>15, <1>16, <1>17, <1>18, <1>19, <1>20, <1>21, <1>22, <1>23, <1>24, <1>25,
     <1>26, <1>27 DEF Next, Advance

-----------------------------------------------------------------------------
(* Nothing happened                                                        *)

\* Every step that nothing happens in keeps the boot on its way.
LEMMA StepFound ==
    ASSUME TInv, Modes, vm, Calm, Entered, Safe, Found, Safe', [Next]_vars
    PROVE  Found'
<1> USE FstabFacts DEF TInv, Modes, Found, Agree, Service, FirstbootMode, disk, run, history
<1>1. CASE NotFound
  BY <1>1 DEF NotFound
<1>2. CASE Boot
  BY <1>2 DEF Boot, FirstbootMode
<1>3. CASE Skip
  BY <1>3, NextLine DEF Skip, Entered, Located
<1>4. CASE Rewrite
  BY <1>4, NextLine DEF Rewrite, NewUuid
<1>5. CASE Override
  BY <1>5 DEF Override, Entered
<1>6. CASE NoRoot
  BY <1>6 DEF NoRoot
<1>7. CASE Mount
  BY <1>7 DEF Mount
<1>8. CASE SetFlag
  BY <1>8 DEF SetFlag, Ready, Ran
<1>9. CASE EnableService
  BY <1>9 DEF EnableService, Ready, Ran
<1>10. CASE InstallFstab
  BY <1>10 DEF InstallFstab, Ready, Ran
<1>11. CASE Emergency
  BY <1>11 DEF Emergency, MissingFilesystem, Sound, Entered, Located
<1>12. CASE ComeUp
  BY <1>12 DEF ComeUp
<1>13. CASE RemoveFlag
  BY <1>13 DEF RemoveFlag
<1>14. CASE DisableService
  BY <1>14 DEF DisableService
<1>15. CASE UpdateInitramfs
  BY <1>15 DEF UpdateInitramfs
<1>16. CASE InstallGrub
  BY <1>16 DEF InstallGrub
<1>17. CASE UpdateGrub
  BY <1>17 DEF UpdateGrub
<1>18. CASE CopyFails
  BY <1>18, Harmed DEF CopyFails, Failure
<1>19. CASE RewriteFails
  BY <1>19, Harmed DEF RewriteFails, Failure
<1>20. CASE LineFails
  BY <1>20, Harmed DEF LineFails, NewUuid, Failure
<1>21. CASE OverrideFails
  BY <1>21, Harmed DEF OverrideFails, Failure
<1>22. CASE ScriptFails
  BY <1>22, Harmed DEF ScriptFails, Ready, Ran, Failure
<1>23. CASE DisableFails
  BY <1>23 DEF DisableFails, Failure, Safe
<1>24. CASE GiveUp
  BY <1>24 DEF GiveUp, Failure, Safe
<1>25. CASE PowerLoss
  BY <1>25 DEF PowerLoss, NoRun, Safe, Place
<1>26. CASE Restart
  BY <1>26 DEF Restart, NoRun
<1>27. CASE UNCHANGED vars
  BY <1>27 DEF vars
<1> QED
  BY <1>1, <1>2, <1>3, <1>4, <1>5, <1>6, <1>7, <1>8, <1>9, <1>10, <1>11, <1>12, <1>13,
     <1>14, <1>15, <1>16, <1>17, <1>18, <1>19, <1>20, <1>21, <1>22, <1>23, <1>24, <1>25,
     <1>26, <1>27 DEF Next, Advance

-----------------------------------------------------------------------------
(* The theorems                                                            *)

\* The types, the mode, the new fstab and the way of a boot that nothing happened
\* to, in every reachable state.
THEOREM Invariance == Spec => []IInv
<1>1. ASSUME IInv, [Next]_vars
      PROVE  IInv'
  <2>1. TInv /\ Modes /\ TInv' /\ Modes'
    BY <1>1, StepTInv, StepModes DEF IInv
  <2>2. /\ vm' = vm /\ harm \subseteq harm' /\ failures' >= failures
        /\ failures' # failures => harm' = harm \cup {at}
    BY <1>1, <2>1, History
  <2>3. Calm' => Calm
    BY <2>1, <2>2 DEF Calm, TInv
  <2>4. vm' /\ Calm' => Entered'
    BY <1>1, <2>1, <2>2, <2>3, StepEntered DEF IInv
  <2>5. Safe' => Safe
    BY <2>2 DEF Safe
  <2>6. Safe => Calm
    BY <2>1 DEF Safe, Calm, Modes, TInv
  <2>7. vm' /\ Safe' => Found'
    BY <1>1, <2>1, <2>2, <2>5, <2>6, StepFound DEF IInv
  <2> QED
    BY <2>1, <2>4, <2>7 DEF IInv
<1> QED
  BY <1>1, InitInvariant, PTL DEF Spec

\* A system stays down only if it is a virtual machine and something happened
\* after its UUIDs began to change and before GRUB had its new configuration.
THEOREM StaysDownExplained == Spec => []StuckExplained
<1>1. IInv => StuckExplained
  BY DEF IInv, Modes, Found, Safe, StuckExplained
<1> QED
  BY <1>1, Invariance, PTL

\* The fstab of a system that comes up leads to its filesystems, unless a command
\* of the initramfs failed.
THEOREM FstabLeads == Spec => []FilesystemsFound
<1>1. IInv => FilesystemsFound
  <2> SUFFICES ASSUME IInv, at \in Service \cup {"up", "emergency"}
               PROVE  Sound \/ (failures > 0 /\ harm \cap {"rewrite", "bottom"} # {})
    BY DEF FilesystemsFound, Sound
  <2>1. CASE ~ vm
    BY <2>1, FstabFacts DEF IInv, TInv, Modes, Sound, Located
  <2>2. CASE vm /\ Calm
    BY <2>2 DEF IInv, TInv, Entered
  <2>3. CASE ~ Calm
    BY <2>3 DEF Calm, IInv, TInv
  <2> QED
    BY <2>1, <2>2, <2>3
<1> QED
  BY <1>1, Invariance, PTL

=============================================================================
