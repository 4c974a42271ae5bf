--------------------------- MODULE DiskJobProofs ----------------------------
(****************************************************************************)
(* No two jobs have something mounted below the mount root that they share  *)
(* (MountRootLocked), and no image is packed while something of it is open  *)
(* (PackedClosed), for any number of jobs, documents and faults, as long as *)
(* no two jobs have a root array: all root arrays have one name, and a job  *)
(* could stop the array below another one's volume group.  And each volume  *)
(* that a document asks for is mounted at its directory, hidden by nothing, *)
(* when the tarball is unpacked (VolumesReached).                           *)
(*                                                                          *)
(* If no two jobs have an array of the same name (OneArrayEach), a job      *)
(* leaves nothing behind when a command fails (FailureCleansUp), is refused *)
(* nothing without a reason (RefusalsHaveReasons), and after an interrupt   *)
(* leaves no more than that explains (LeakExplained).                       *)
(****************************************************************************)
EXTENDS DiskPlanProofs

-----------------------------------------------------------------------------
(* The inductive invariant.                                                *)

Cause == {"held", "absent", "failed"}
Ending == {"completed", "refused", "failed", "interrupted"}

Mount == [dir : Dir, on : Id \cup {NoId}, job : Job]

HostOK == /\ \A d \in dev : /\ d \in [id : Id, on : Id \cup {NoId}, job : Job]
                            /\ d.id.kind # "mount"
          /\ \A v \in vgs : v \in [on : Id, job : Job]
          /\ mounts \in Seq(Mount)

TypeOK ==
    /\ doc \in [Job -> DocSpace]
    /\ cfg \in [Job -> {NoConfig} \cup {Parse(d) : d \in DocSpace}]
    /\ phase \in [Job -> {"parse", "setup", "cleanup", "pack", "done", "failed"}]
    /\ pos \in [Job -> Nat \ {0}]
    /\ reg \in [Job -> [Kind -> Seq(Id)]] /\ \A j \in Job : RegisterOK(reg[j])
    /\ closing \in [Job -> Seq(Id)]
    /\ errors \in [Job -> SUBSET Cause]
    /\ hit \in [Job -> [how : Ending, id : Id \cup {NoId}]]
    /\ unseen \in [Job -> BOOLEAN]
    /\ HostOK
    /\ faults \in Nat

Configured ==
    \A j \in Job : phase[j] \in {"setup", "cleanup", "pack", "done"} =>
                       Accepted(doc[j]) /\ cfg[j] = Parse(doc[j])

\* A device is of the job that its names and what it is on say, and there is one volume
\* group, on a device of its job, without which it has no active volume.
Devices ==
    /\ \A d, e \in dev : d.id = e.id => d = e
    /\ \A d \in dev :
          /\ d.id.kind = "loop" => d.id = Loop(d.job) /\ d.on = NoId
          /\ d.on.kind = "loop" => d.on = Loop(d.job)
          /\ d.id = Array("root") => IsOn(doc[d.job].root_vg_raid)
          /\ d.id = RootVg => [on |-> d.on, job |-> d.job] \in vgs
    /\ \A v, w \in vgs : v = w
    /\ \A v \in vgs :
          /\ v.on \in {Loop(v.job), Array("root"), Crypt}
          /\ \E d \in dev : d.id = v.on /\ d.job = v.job

\* The root filesystem is the first of the mounts, and the volume group is in use with it.
MountTree ==
    /\ mounts # <<>> => /\ mounts[1].dir = "/" /\ mounts[1].on = RootVg
                        /\ \E d \in dev : d.id = RootVg
    /\ \A i \in DOMAIN mounts : mounts[i].on.kind = "loop" => mounts[i].on = Loop(mounts[i].job)

Mine(j) == CASE phase[j] = "setup" -> Registered(reg[j])
             [] phase[j] = "cleanup" -> Range(closing[j])
             [] OTHER -> {}

\* What a job has registered is its own: the loop device and, as there is one job with a
\* root array, that array; the LUKS mapping is registered only when it is open.
RegistersOf(j) ==
    /\ phase[j] = "parse" => reg[j] = NoneRegistered
    /\ \A id \in Mine(j) : id.kind = "loop" => id = Loop(j)
    /\ Array("root") \in Mine(j) => IsOn(doc[j].root_vg_raid)
    /\ Crypt \in Mine(j) => \E d \in dev : d.id = Crypt /\ d.job = j
    /\ phase[j] = "cleanup" => Sorted(closing[j])

HasMounts(j) == \E i \in DOMAIN mounts : mounts[i].job = j
MayMount(j) == \E id \in Mine(j) : id.kind = "mount"

\* A job that may have something mounted: it is past vgcreate, or has a mount registered
\* or mounted.
Owner(j) == \/ phase[j] = "setup" /\ pos[j] > Start(cfg[j], j) + 1
            \/ phase[j] = "cleanup" /\ MayMount(j)
            \/ HasMounts(j)

\* Such a job has made the volume group, of which there is one: the lock.
LockOf(j) == Owner(j) => \E v \in vgs : v.job = j

\* What is registered and mounted at each position of the plan.
PositionsOf(j) ==
    LET c == cfg[j]
        b == Start(c, j) IN
    /\ phase[j] = "parse" => pos[j] = 1
    /\ phase[j] = "setup" =>
       /\ pos[j] <= Len(Plan(c, j)) + 1
       /\ \A p \in 1..(pos[j] - 1) :
             Plan(c, j)[p].op \in {"open", "create", "vgchange"} =>
                 Plan(c, j)[p].id \in Mine(j)
       /\ pos[j] <= b + 5 => ~ HasMounts(j) /\ ~ MayMount(j)
       /\ Btrfs(c) /\ pos[j] \in {b + 6, b + 7} => Len(mounts) = 1
       /\ pos[j] > Rooted(c, j) => HasMounts(j)

\* A job that may still come to pack its image.
Untroubled(j) == \/ phase[j] = "setup"
                 \/ phase[j] = "cleanup" /\ hit[j].how = "completed" /\ errors[j] = {}

\* All devices that such a job has open it has registered.  A mount may have been lost, but
\* the volume group is registered, too, which cannot go before the root is unmounted.
AccountedOf(j) ==
    /\ phase[j] \in {"parse", "pack", "done"} => Clean(j)
    /\ phase[j] \in {"parse", "setup"} => errors[j] = {}
    /\ Untroubled(j) => /\ \A d \in dev : d.job = j => d.id \in Mine(j)
                        /\ HasMounts(j) => RootVg \in Mine(j)

\* The part of the invariant that is about one job.
JobInv(j) == RegistersOf(j) /\ LockOf(j) /\ PositionsOf(j) /\ AccountedOf(j)

\* The inductive invariant.
IInv == /\ TypeOK /\ Configured
        /\ OneRootArray => Devices /\ MountTree /\ \A j \in Job : JobInv(j)

\* The next command of a job.
LEMMA StepSane ==
  ASSUME TypeOK, Configured, NEW j \in Job, InSetup(j)
  PROVE  /\ doc[j] \in Doc /\ Accepted(doc[j]) /\ cfg[j] = Parse(doc[j])
         /\ pos[j] \in 1..Len(Plan(cfg[j], j)) /\ Sane(Step(j))
  <1>1. doc[j] \in Doc /\ Accepted(doc[j]) /\ cfg[j] = Parse(doc[j])
    BY DocSpaceAssumption DEF TypeOK, Configured, InSetup
  <1>2. Plan(cfg[j], j) \in Seq(Command)
    BY <1>1, PlanShape DEF Shape
  <1>3. pos[j] \in 1..Len(Plan(cfg[j], j))
    BY <1>2 DEF TypeOK, InSetup
  <1> QED
    BY <1>1, <1>3, PlanSane DEF Step

-----------------------------------------------------------------------------
(* Mounts.                                                                 *)

\* The mount that a mount point leads to is one at that directory.
LEMMA MountPointAt ==
  ASSUME HostOK, NEW d, MountPoint(d), NEW n, n = CHOOSE i \in DOMAIN mounts : Visible(i, d)
  PROVE  n \in DOMAIN mounts /\ Visible(n, d) /\ mounts[n].dir = d
  <1>1. PICK i : i \in DOMAIN mounts /\ Visible(i, d) /\ mounts[i].dir = d
    BY DEF MountPoint
  <1>2. n \in DOMAIN mounts /\ Visible(n, d)
    BY <1>1
  <1>3. n = i
    <2>1. DOMAIN mounts \subseteq Nat
      BY DEF HostOK
    <2>2. n <= i /\ i <= n
      BY <1>1, <1>2 DEF Visible
    <2> QED
      BY <2>1, <2>2, <1>1, <1>2
  <1> QED
    BY <1>1, <1>2, <1>3

\* The types of the host's state survive what a job does to it.
LEMMA OpenTyped ==
  ASSUME HostOK, NEW j \in Job, NEW s, Sane(s), Possible(s), OpenOnHost(j, s)
  PROVE  HostOK'
  <1>1. \A d \in dev' : d \in [id : Id, on : Id \cup {NoId}, job : Job] /\ d.id.kind # "mount"
    <2>1. CASE s.op \in {"open", "create"}
      <3>1. dev' = dev \cup {[id |-> s.id, on |-> s.on, job |-> j]}
        BY <2>1 DEF OpenOnHost
      <3>2. s.id \in Id /\ s.on \in Id \cup {NoId} /\ s.id.kind # "mount"
        BY <2>1 DEF Sane, Command, Registering
      <3> QED
        BY <3>1, <3>2 DEF HostOK
    <2>2. CASE s.op = "lvcreate"
      <3>1. dev' = dev \cup {[id |-> RootVg, on |-> v.on, job |-> v.job] : v \in vgs}
        BY <2>2 DEF OpenOnHost
      <3>2. \A v \in vgs : v.on \in Id /\ v.job \in Job
        BY DEF HostOK
      <3>3. RootVg \in Id /\ RootVg.kind # "mount"
        BY Kinds DEF RootVg
      <3> HIDE DEF RootVg
      <3> QED
        BY <3>1, <3>2, <3>3 DEF HostOK
    <2>3. CASE s.op \notin {"open", "create", "lvcreate"}
      <3>1. dev' = dev
        BY <2>3 DEF OpenOnHost
      <3> QED
        BY <3>1 DEF HostOK
    <2> QED
      BY <2>1, <2>2, <2>3
  <1>2. \A v \in vgs' : v \in [on : Id, job : Job]
    <2>1. vgs' = IF s.op = "vgcreate" THEN {[on |-> s.on, job |-> j]} ELSE vgs
      BY DEF OpenOnHost
    <2>2. s.op = "vgcreate" => s.on \in Id
      BY DEF Sane
    <2> QED
      BY <2>1, <2>2 DEF HostOK
  <1>3. mounts' \in Seq(Mount)
    <2>1. CASE s.op = "mount"
      <3>1. mounts' = Append(mounts, [dir |-> s.id.name, on |-> s.on, job |-> j])
        BY <2>1 DEF OpenOnHost
      <3>2. s.id.name \in Dir /\ s.on \in Id \cup {NoId}
        BY <2>1 DEF Sane, Command, MountAt
      <3>3. [dir |-> s.id.name, on |-> s.on, job |-> j] \in Mount
        BY <3>2 DEF Mount
      <3> QED
        BY <3>1, <3>3 DEF HostOK
    <2>2. CASE s.op = "umount"
      <3> DEFINE n == CHOOSE i \in DOMAIN mounts : Visible(i, s.id.name)
      <3>1. mounts' = RemoveAt(mounts, n)
        BY <2>2 DEF OpenOnHost
      <3>2. MountPoint(s.id.name)
        BY <2>2 DEF Possible
      <3>3. n \in 1..Len(mounts)
        BY <3>2, MountPointAt DEF HostOK
      <3> HIDE DEF n
      <3> QED
        BY <3>1, <3>3, RemovedAt DEF HostOK
    <2>3. CASE s.op \notin {"mount", "umount"}
      <3>1. mounts' = mounts
        BY <2>3 DEF OpenOnHost
      <3> QED
        BY <3>1 DEF HostOK
    <2> QED
      BY <2>1, <2>2, <2>3
  <1> QED
    BY <1>1, <1>2, <1>3 DEF HostOK

\* The types of the host's state survive closing a resource.
LEMMA CloseTyped ==
  ASSUME HostOK, NEW id, Present(id), CloseOnHost(id)
  PROVE  HostOK'
  <1>1. CASE id.kind = "mount"
    <2> DEFINE n == CHOOSE i \in DOMAIN mounts : Visible(i, id.name)
    <2>1. mounts' = RemoveAt(mounts, n) /\ dev' = dev /\ vgs' = vgs
      BY <1>1 DEF CloseOnHost
    <2>2. MountPoint(id.name)
      BY <1>1 DEF Present
    <2>3. n \in 1..Len(mounts)
      BY <2>2, MountPointAt DEF HostOK
    <2> HIDE DEF n
    <2>4. mounts' \in Seq(Mount)
      BY <2>1, <2>3, RemovedAt DEF HostOK
    <2> QED
      BY <2>1, <2>4 DEF HostOK
  <1>2. CASE id.kind # "mount"
    <2>1. dev' \subseteq dev /\ vgs' \subseteq vgs /\ mounts' = mounts
      BY <1>2 DEF CloseOnHost
    <2> QED
      BY <2>1 DEF HostOK
  <1> QED
    BY <1>1, <1>2

-----------------------------------------------------------------------------
(* Types.                                                                  *)

\* The initial states are of these types.
LEMMA InitTyped == Init => TypeOK /\ Configured
  <1> SUFFICES ASSUME Init PROVE TypeOK /\ Configured
    OBVIOUS
  <1>1. /\ cfg \in [Job -> {NoConfig} \cup {Parse(d) : d \in DocSpace}]
        /\ phase \in [Job -> {"parse", "setup", "cleanup", "pack", "done", "failed"}]
        /\ pos \in [Job -> Nat \ {0}] /\ closing \in [Job -> Seq(Id)]
        /\ errors \in [Job -> SUBSET Cause]
    BY DEF Init
  <1>2. reg \in [Job -> [Kind -> Seq(Id)]] /\ \A j \in Job : RegisterOK(reg[j])
    <2>1. NoneRegistered \in [Kind -> Seq(Id)] /\ RegisterOK(NoneRegistered)
      BY NothingRegistered DEF RegisterOK
    <2>2. reg = [j \in Job |-> NoneRegistered]
      BY DEF Init
    <2> QED
      BY <2>1, <2>2
  <1>3. /\ hit \in [Job -> [how : Ending, id : Id \cup {NoId}]]
        /\ unseen \in [Job -> BOOLEAN]
    BY DEF Init, Ending
  <1>4. HostOK
    BY DEF Init, HostOK
  <1>5. Configured
    BY DEF Init, Configured
  <1> QED
    BY <1>1, <1>2, <1>3, <1>4, <1>5 DEF Init, TypeOK

\* What a job leaves registered when the body of its "with" ends.
LEMMA LeaveTyped ==
  ASSUME TypeOK, Configured, NEW j \in Job, phase[j] = "setup",
         NEW r, RegisterOK(r), NEW how \in Ending, NEW id \in Id \cup {NoId},
         Leave(j, r, how, id), HostOK', faults' \in Nat
  PROVE  TypeOK' /\ Configured'
  <1>1. /\ phase' = [phase EXCEPT ![j] = "cleanup"] /\ reg' = [reg EXCEPT ![j] = r]
        /\ closing' = [closing EXCEPT ![j] = CloseOrder(r)]
        /\ hit' = [hit EXCEPT ![j] = [how |-> how, id |-> id]]
        /\ UNCHANGED <<doc, cfg, pos, errors, unseen>>
    BY DEF Leave
  <1>2. CloseOrder(r) \in Seq(Id)
    BY ClosingOrder
  <1>3. r \in [Kind -> Seq(Id)]
    BY DEF RegisterOK
  <1>4. reg' \in [Job -> [Kind -> Seq(Id)]] /\ \A k \in Job : RegisterOK(reg'[k])
    BY <1>1, <1>3 DEF TypeOK
  <1>5. closing' \in [Job -> Seq(Id)]
    BY <1>1, <1>2 DEF TypeOK
  <1>6. hit' \in [Job -> [how : Ending, id : Id \cup {NoId}]]
    BY <1>1 DEF TypeOK
  <1>7. phase' \in [Job -> {"parse", "setup", "cleanup", "pack", "done", "failed"}]
    BY <1>1 DEF TypeOK
  <1>8. TypeOK'
    BY <1>1, <1>4, <1>5, <1>6, <1>7 DEF TypeOK
  <1>9. Configured'
    BY <1>1 DEF Configured, TypeOK
  <1> QED
    BY <1>8, <1>9

\* What a step that visits one of the registered resources leaves.
LEMMA VisitTyped ==
  ASSUME TypeOK, Configured, NEW j \in Job, InCleanup(j), Visit(j),
         \/ reg' = reg
         \/ reg' = [reg EXCEPT ![j] = Drop(@, Closing(j))],
         errors' = errors \/ \E x \in Cause : errors' = [errors EXCEPT ![j] = @ \cup {x}],
         unseen' = unseen \/ unseen' = [unseen EXCEPT ![j] = TRUE],
         HostOK', faults' \in Nat
  PROVE  TypeOK' /\ Configured'
  <1>1. closing' = [closing EXCEPT ![j] = Tail(@)] /\ UNCHANGED <<doc, cfg, phase, pos, hit>>
    BY DEF Visit
  <1>2. closing[j] \in Seq(Id) /\ closing[j] # <<>> /\ Closing(j) \in Id
    BY DEF InCleanup, TypeOK, Closing
  <1>3. closing' \in [Job -> Seq(Id)]
    BY <1>1, <1>2 DEF TypeOK
  <1>4. reg' \in [Job -> [Kind -> Seq(Id)]] /\ \A k \in Job : RegisterOK(reg'[k])
    <2>1. CASE reg' = reg
      BY <2>1 DEF TypeOK
    <2>2. CASE reg' = [reg EXCEPT ![j] = Drop(@, Closing(j))]
      <3>1. RegisterOK(Drop(reg[j], Closing(j)))
        BY <1>2, Dropped DEF TypeOK
      <3>2. Drop(reg[j], Closing(j)) \in [Kind -> Seq(Id)]
        BY <3>1 DEF RegisterOK
      <3> QED
        BY <2>2, <3>1, <3>2 DEF TypeOK
    <2> QED
      BY <2>1, <2>2
  <1>5. errors' \in [Job -> SUBSET Cause]
    <2>1. CASE errors' = errors
      BY <2>1 DEF TypeOK
    <2>2. ASSUME NEW x \in Cause, errors' = [errors EXCEPT ![j] = @ \cup {x}]
          PROVE  errors' \in [Job -> SUBSET Cause]
      BY <2>2 DEF TypeOK
    <2> QED
      BY <2>1, <2>2
  <1>6. unseen' \in [Job -> BOOLEAN]
    BY DEF TypeOK
  <1>7. TypeOK'
    BY <1>1, <1>3, <1>4, <1>5, <1>6 DEF TypeOK
  <1>8. Configured'
    BY <1>1 DEF Configured
  <1> QED
    BY <1>7, <1>8

\* Every step keeps the types, and the config of a job that is at work.
LEMMA StepTyped ==
  ASSUME TypeOK, Configured, [Next]_vars
  PROVE  TypeOK' /\ Configured'
  <1>1. CASE UNCHANGED vars
    BY <1>1 DEF vars, TypeOK, Configured, HostOK
  <1>2. ASSUME NEW j \in Job, LoadConfig(j) PROVE TypeOK' /\ Configured'
    <2>1. /\ phase[j] = "parse" /\ Accepted(doc[j]) /\ cfg' = [cfg EXCEPT ![j] = Parse(doc[j])]
          /\ phase' = [phase EXCEPT ![j] = "setup"]
          /\ UNCHANGED <<doc, pos, reg, closing, errors, hit, unseen, dev, vgs, mounts, faults>>
      BY <1>2 DEF LoadConfig, host
    <2>2. cfg' \in [Job -> {NoConfig} \cup {Parse(d) : d \in DocSpace}]
      BY <2>1 DEF TypeOK
    <2>3. phase' \in [Job -> {"parse", "setup", "cleanup", "pack", "done", "failed"}]
      BY <2>1 DEF TypeOK
    <2>4. TypeOK'
      BY <2>1, <2>2, <2>3 DEF TypeOK, HostOK
    <2>5. Configured'
      BY <2>1 DEF Configured, TypeOK
    <2> QED
      BY <2>4, <2>5
  <1>3. ASSUME NEW j \in Job, NEW to \in {"pack", "done", "failed"},
               phase[j] # "setup", phase[j] \in {"cleanup", "pack"} \/ to = "failed",
               phase' = [phase EXCEPT ![j] = to],
               UNCHANGED <<doc, cfg, pos, reg, closing, errors, hit, unseen, dev, vgs, mounts>>,
               faults' \in Nat
        PROVE  TypeOK' /\ Configured'
    <2>1. phase' \in [Job -> {"parse", "setup", "cleanup", "pack", "done", "failed"}]
      BY <1>3 DEF TypeOK
    <2>2. TypeOK'
      BY <1>3, <2>1 DEF TypeOK, HostOK
    <2>3. Configured'
      BY <1>3 DEF Configured, TypeOK
    <2> QED
      BY <2>2, <2>3
  <1>4. ASSUME NEW j \in Job, RunStep(j) \/ PassUnmount(j) PROVE TypeOK' /\ Configured'
    <2>1. /\ InSetup(j)
          /\ reg' = [reg EXCEPT ![j] = Register(@, Step(j))]
          /\ pos' = [pos EXCEPT ![j] = @ + 1]
          /\ UNCHANGED <<doc, cfg, phase, closing, errors, hit>>
          /\ unseen' = unseen \/ unseen' = [unseen EXCEPT ![j] = TRUE]
          /\ faults' \in {faults, faults + 1}
          /\ (Possible(Step(j)) /\ OpenOnHost(j, Step(j))) \/ UNCHANGED host
      BY <1>4 DEF RunStep, PassUnmount
    <2>2. Sane(Step(j))
      BY <2>1, StepSane
    <2>3. HostOK'
      BY <2>1, <2>2, OpenTyped DEF TypeOK, HostOK, host
    <2>4. RegisterOK(Register(reg[j], Step(j)))
      BY <2>2, RegisterKeeps DEF TypeOK, Sane
    <2>5. Register(reg[j], Step(j)) \in [Kind -> Seq(Id)]
      BY <2>4 DEF RegisterOK
    <2>6. reg' \in [Job -> [Kind -> Seq(Id)]] /\ \A k \in Job : RegisterOK(reg'[k])
      BY <2>1, <2>4, <2>5 DEF TypeOK
    <2>7. pos' \in [Job -> Nat \ {0}] /\ unseen' \in [Job -> BOOLEAN] /\ faults' \in Nat
      <3>1. pos' \in [Job -> Nat \ {0}]
        BY <2>1 DEF TypeOK
      <3>2. unseen' \in [Job -> BOOLEAN]
        BY <2>1 DEF TypeOK
      <3>3. faults' \in Nat
        BY <2>1 DEF TypeOK
      <3> QED
        BY <3>1, <3>2, <3>3
    <2>8. TypeOK'
      BY <2>1, <2>3, <2>6, <2>7 DEF TypeOK
    <2>9. Configured'
      BY <2>1 DEF Configured
    <2> QED
      BY <2>8, <2>9
  <1>5. ASSUME NEW j \in Job, InSetup(j), NEW how \in Ending, HostOK', faults' \in Nat,
               \/ Leave(j, RegisterEarly(reg[j], Step(j)), how, Step(j).id)
        PROVE  TypeOK' /\ Configured'
    <2>1. Sane(Step(j)) /\ phase[j] = "setup"
      BY <1>5, StepSane DEF InSetup
    <2>2. RegisterOK(RegisterEarly(reg[j], Step(j)))
      BY <2>1, RegisterEarlyKeeps DEF TypeOK, Sane
    <2>3. Step(j).id \in Id \cup {NoId}
      BY <2>1 DEF Sane, Command
    <2> QED
      BY <1>5, <2>1, <2>2, <2>3, LeaveTyped
  <1>6. ASSUME NEW j \in Job, SetupDone(j) PROVE TypeOK' /\ Configured'
    <2>1. phase[j] = "setup" /\ Leave(j, reg[j], "completed", NoId) /\ UNCHANGED <<dev, vgs, mounts, faults>>
      BY <1>6 DEF SetupDone, host
    <2>2. HostOK' /\ faults' \in Nat
      BY <2>1 DEF HostOK, TypeOK
    <2>3. RegisterOK(reg[j]) /\ "completed" \in Ending /\ NoId \in Id \cup {NoId}
      BY DEF TypeOK, Ending
    <2> QED
      BY <2>1, <2>2, <2>3, LeaveTyped
  <1>7. HostOK /\ faults \in Nat /\ (UNCHANGED host => HostOK')
    BY DEF TypeOK, HostOK, host
  <1>8. \A j \in Job : RefuseStep(j) => TypeOK' /\ Configured'
    BY <1>5, <1>7 DEF RefuseStep, Ending
  <1>9. \A j \in Job : FailStep(j) => TypeOK' /\ Configured'
    BY <1>5, <1>7 DEF FailStep, Ending
  <1>10. ASSUME NEW j \in Job, InterruptStep(j) PROVE TypeOK' /\ Configured'
    <2>1. InSetup(j) /\ Leave(j, RegisterEarly(reg[j], Step(j)), "interrupted", Step(j).id)
          /\ faults' = faults + 1
      BY <1>10 DEF InterruptStep
    <2>2. (Possible(Step(j)) /\ OpenOnHost(j, Step(j))) \/ UNCHANGED host
      BY <1>10 DEF InterruptStep
    <2>3. Sane(Step(j))
      BY <2>1, StepSane
    <2>4. HostOK'
      BY <1>7, <2>2, <2>3, OpenTyped
    <2> QED
      BY <1>5, <1>7, <2>1, <2>4 DEF Ending
  <1>11. \A j \in Job : RefuseConfig(j) => TypeOK' /\ Configured'
    BY <1>3, <1>7 DEF RefuseConfig, host
  <1>12. ASSUME NEW j \in Job, CleanupDone(j) PROVE TypeOK' /\ Configured'
    <2> DEFINE to == IF hit[j].how = "completed" /\ errors[j] = {} THEN "pack" ELSE "failed"
    <2>1. phase[j] = "cleanup" /\ phase' = [phase EXCEPT ![j] = to]
          /\ UNCHANGED <<doc, cfg, pos, reg, closing, errors, hit, unseen, dev, vgs, mounts, faults>>
      BY <1>12 DEF CleanupDone, host
    <2>2. to \in {"pack", "done", "failed"}
      OBVIOUS
    <2> HIDE DEF to
    <2> QED
      BY <1>3, <1>7, <2>1, <2>2
  <1>13. \A j \in Job : Pack(j) => TypeOK' /\ Configured'
    BY <1>3, <1>7 DEF Pack, host
  <1>14. ASSUME NEW j \in Job, PackFails(j) PROVE TypeOK' /\ Configured'
    <2>1. /\ phase[j] = "pack" /\ phase' = [phase EXCEPT ![j] = "failed"]
          /\ UNCHANGED <<doc, cfg, pos, reg, closing, errors, hit, unseen, dev, vgs, mounts>>
          /\ faults' = faults + 1
      BY <1>14 DEF PackFails, host
    <2>2. faults' \in Nat
      BY <1>7, <2>1
    <2> QED
      BY <1>3, <2>1, <2>2
  <1>15. ASSUME NEW j \in Job, CloseNext(j) PROVE TypeOK' /\ Configured'
    <2>1. /\ InCleanup(j) /\ Present(Closing(j)) /\ CloseOnHost(Closing(j)) /\ Visit(j)
          /\ reg' = [reg EXCEPT ![j] = Drop(@, Closing(j))]
          /\ errors' = errors /\ unseen' = unseen /\ faults' = faults
      BY <1>15 DEF CloseNext
    <2>2. HostOK'
      BY <2>1, <1>7, CloseTyped
    <2> QED
      BY <2>1, <2>2, <1>7, VisitTyped
  <1>16. ASSUME NEW j \in Job, CloseGoneMount(j) \/ CloseDeferred(j) \/ CloseUnseen(j)
         PROVE  TypeOK' /\ Configured'
    <2>1. /\ InCleanup(j) /\ UNCHANGED host /\ Visit(j)
          /\ reg' = [reg EXCEPT ![j] = Drop(@, Closing(j))] /\ errors' = errors
          /\ unseen' = unseen \/ unseen' = [unseen EXCEPT ![j] = TRUE]
          /\ faults' \in {faults, faults + 1}
      BY <1>16 DEF CloseGoneMount, CloseDeferred, CloseUnseen
    <2>2. faults' \in Nat
      BY <1>7, <2>1
    <2> QED
      BY <2>1, <2>2, <1>7, VisitTyped
  <1>17. ASSUME NEW j \in Job, CloseRefused(j) PROVE TypeOK' /\ Configured'
    <2> DEFINE x == IF Present(Closing(j)) THEN "held" ELSE "absent"
    <2>1. /\ InCleanup(j) /\ UNCHANGED host /\ Visit(j)
          /\ reg' = reg /\ errors' = [errors EXCEPT ![j] = @ \cup {x}]
          /\ unseen' = unseen /\ faults' = faults
      BY <1>17 DEF CloseRefused
    <2>2. x \in Cause
      BY DEF Cause
    <2> HIDE DEF x
    <2> QED
      BY <2>1, <2>2, <1>7, VisitTyped
  <1>18. ASSUME NEW j \in Job, CloseFails(j) PROVE TypeOK' /\ Configured'
    <2>1. /\ InCleanup(j) /\ Visit(j) /\ reg' = reg
          /\ errors' = [errors EXCEPT ![j] = @ \cup {"failed"}] /\ unseen' = unseen
          /\ faults' = faults + 1
          /\ \/ Present(Closing(j)) /\ CloseOnHost(Closing(j))
             \/ UNCHANGED host
      BY <1>18 DEF CloseFails
    <2>2. HostOK'
      BY <2>1, <1>7, CloseTyped
    <2>3. \E x \in Cause : errors' = [errors EXCEPT ![j] = @ \cup {x}]
      BY <2>1 DEF Cause
    <2>4. faults' \in Nat
      BY <1>7, <2>1
    <2> QED
      BY <2>1, <2>2, <2>3, <2>4, VisitTyped
  <1> QED
    BY <1>1, <1>2, <1>4, <1>6, <1>8, <1>9, <1>10, <1>11, <1>12, <1>13, <1>14, <1>15, <1>16,
       <1>17, <1>18 DEF Next, AllEnded, Progress, Fault

-----------------------------------------------------------------------------
(* What a command is, and where in the plan it can be.                     *)

Stage(c, j, s, p, b, m) ==
    \/ s.op \in {"run", "unpack", "refuse"}
    \/ s.op = "vgchange" /\ p = b + 2
    \/ s.op \in {"open", "create"} /\ p <= b /\ s \in Early(c, j)
    \/ s.op = "vgcreate" /\ p = b + 1 /\ s.on = RootPv(c, j)
    \/ s.op = "lvcreate" /\ s.id = RootVg /\ p > b + 2
    \/ s = RootCmd("mount", MountAt("/")) /\ (p = b + 5 \/ (p = b + 8 /\ Btrfs(c)))
    \/ s = RootCmd("umount", MountAt("/")) /\ p = b + 7 /\ Btrfs(c)
    \/ /\ s.op \in {"mount", "umount"} /\ p > m
       /\ \E d \in Dir \ {"/"} : s.id = MountAt(d)
       /\ s.on \in {NoId, RootVg, BootDev(c, j), Loop(j)}

\* The next command: the plan that it is from and its stage.
AtStep(j, s, P, b, m) ==
    /\ Shape(cfg[j], j, P, b, m) /\ Stage(cfg[j], j, s, pos[j], b, m)
    /\ P = Plan(cfg[j], j) /\ b = Start(cfg[j], j) /\ m = Rooted(cfg[j], j)
    /\ b \in Nat /\ m \in Nat /\ m >= b + 5 /\ pos[j] \in Nat
    /\ s = P[pos[j]] /\ Sane(s)
    /\ doc[j] \in Doc /\ Accepted(doc[j]) /\ cfg[j] = Parse(doc[j])

\* The next command of a job is at one of these stages.
LEMMA StepStage ==
  ASSUME TypeOK, Configured, NEW j \in Job, InSetup(j)
  PROVE  AtStep(j, Step(j), Plan(cfg[j], j), Start(cfg[j], j), Rooted(cfg[j], j))
  <1> DEFINE c == cfg[j]
             P == Plan(c, j)
             b == Start(c, j)
             m == Rooted(c, j)
             p == pos[j]
             s == P[p]
  <1>1. /\ doc[j] \in Doc /\ Accepted(doc[j]) /\ cfg[j] = Parse(doc[j])
        /\ p \in 1..Len(P) /\ Sane(s) /\ Step(j) = s
    BY StepSane DEF Step
  <1>2. Shape(c, j, P, b, m)
    BY <1>1, PlanShape
  <1> HIDE DEF c, P, b, m, p, s
  <1>3. /\ P \in Seq(Command) /\ b \in Nat /\ m \in Nat /\ m <= Len(P)
        /\ m = IF Btrfs(c) THEN b + 8 ELSE b + 5
    BY <1>2 DEF Shape
  <1>4. p \in Nat /\ m >= b + 5
    BY <1>1, <1>3
  <1>5. Stage(c, j, s, p, b, m)
    <2>1. CASE p \in 1..b
      <3>1. s \in Early(c, j)
        BY <1>2, <2>1 DEF Shape, s
      <3> QED
        BY <2>1, <3>1, <1>3 DEF Early, Stage
    <2>2. CASE p \in (m + 1)..Len(P)
      <3>0. p > m /\ p > b + 2
        BY <1>3, <1>4, <2>2
      <3>1. s \in Late(c, j)
        <4>1. \A q \in (m + 1)..Len(P) : P[q] \in Late(c, j)
          BY <1>2 DEF Shape
        <4> QED
          BY <4>1, <2>2 DEF s
      <3>2. \/ s.op = "lvcreate" /\ s.id = RootVg
            \/ s.op \in {"run", "refuse", "unpack"}
            \/ /\ s.op \in {"mount", "umount"}
               /\ \E d \in Dir \ {"/"} : s.id = MountAt(d)
               /\ s.on \in {NoId, RootVg, BootDev(c, j), Loop(j)}
        BY <3>1 DEF Late
      <3> QED
        BY <3>0, <3>2 DEF Stage
    <2>3. CASE p \in {b + 1, b + 2, b + 3}
      <3>1. \/ p = b + 1 /\ s.op = "vgcreate" /\ s.on = RootPv(c, j)
            \/ p = b + 2 /\ s.op = "vgchange"
            \/ p = b + 3 /\ s.op = "lvcreate" /\ s.id = RootVg
        BY <1>2, <2>3 DEF Shape, s
      <3> QED
        BY <3>1, <1>3 DEF Stage
    <2>4. CASE p \in {b + 4, b + 5}
      <3>1. \/ s.op = "run"
            \/ p = b + 5 /\ s = RootCmd("mount", MountAt("/"))
        BY <1>2, <2>4 DEF Shape, s, RootCmd
      <3> QED
        BY <3>1 DEF Stage
    <2>5. CASE Btrfs(c) /\ p \in {b + 6, b + 7, b + 8}
      <3>1. \/ s.op = "run"
            \/ p = b + 7 /\ s = RootCmd("umount", MountAt("/"))
            \/ p = b + 8 /\ s = RootCmd("mount", MountAt("/"))
        BY <1>2, <2>5 DEF Shape, s, RootCmd
      <3> QED
        BY <3>1, <2>5 DEF Stage
    <2>6. m = b + 5 \/ (Btrfs(c) /\ m = b + 8)
      BY <1>3
    <2>7. Len(P) \in Nat
      BY <1>3
    <2>8. \/ p \in 1..b \/ p \in (m + 1)..Len(P) \/ p \in {b + 1, b + 2, b + 3}
          \/ p \in {b + 4, b + 5} \/ p \in (b + 6)..m
      BY <1>1, <1>3, <1>4, <2>7
    <2>9. p \in (b + 6)..m => m # b + 5
      BY <1>3, <1>4
    <2>10. p \in (b + 6)..(b + 8) => p \in {b + 6, b + 7, b + 8}
      BY <1>3, <1>4
    <2> QED
      BY <2>1, <2>2, <2>3, <2>4, <2>5, <2>6, <2>8, <2>9, <2>10
  <1>6. AtStep(j, s, P, b, m)
    BY <1>1, <1>2, <1>3, <1>4, <1>5 DEF AtStep, c, P, b, m, p, s
  <1> QED
    BY <1>1, <1>6 DEF c, P, b, m

-----------------------------------------------------------------------------
(* Who has something mounted.                                              *)

\* The hypotheses of the inductive step.
Safe == TypeOK /\ Configured /\ OneRootArray /\ Devices /\ MountTree /\ \A j \in Job : JobInv(j)

\* Mounts have their types.
LEMMA MountsTyped ==
  ASSUME Safe
  PROVE  /\ mounts \in Seq(Mount) /\ DOMAIN mounts = 1..Len(mounts) /\ Len(mounts) \in Nat
         /\ \A i \in DOMAIN mounts : mounts[i] \in Mount /\ mounts[i].job \in Job
                                    /\ mounts[i].dir \in Dir
  <1>1. mounts \in Seq(Mount)
    BY DEF Safe, TypeOK, HostOK
  <1>2. \A i \in DOMAIN mounts : mounts[i] \in Mount
    BY <1>1
  <1> QED
    BY <1>1, <1>2 DEF Mount

\* Two jobs cannot both be at the mounts: each would have a volume group.
LEMMA OwnersAlone ==
  ASSUME Safe, NEW j \in Job, NEW k \in Job, Owner(j), Owner(k)
  PROVE  j = k
  <1>1. PICK v \in vgs : v.job = j
    BY DEF Safe, JobInv, LockOf
  <1>2. PICK w \in vgs : w.job = k
    BY DEF Safe, JobInv, LockOf
  <1>3. v = w
    BY DEF Safe, Devices
  <1> QED
    BY <1>1, <1>2, <1>3

\* All mounts are of the job that is at the mounts.
LEMMA OwnerMounts ==
  ASSUME Safe, NEW j \in Job, Owner(j)
  PROVE  \A i \in DOMAIN mounts : mounts[i].job = j
  <1> SUFFICES ASSUME NEW i \in DOMAIN mounts PROVE mounts[i].job = j
    OBVIOUS
  <1>1. mounts[i].job \in Job
    BY MountsTyped
  <1>2. Owner(mounts[i].job)
    BY DEF Owner, HasMounts
  <1> QED
    BY <1>1, <1>2, OwnersAlone

\* All mounts are of one job.
LEMMA MountsOfOne ==
  ASSUME Safe
  PROVE  \A i, k \in DOMAIN mounts : mounts[i].job = mounts[k].job
  <1> SUFFICES ASSUME NEW i \in DOMAIN mounts, NEW k \in DOMAIN mounts
               PROVE  mounts[i].job = mounts[k].job
    OBVIOUS
  <1>1. mounts[k].job \in Job
    BY MountsTyped
  <1>2. Owner(mounts[k].job)
    BY DEF Owner, HasMounts
  <1> QED
    BY <1>1, <1>2, OwnerMounts

-----------------------------------------------------------------------------
(* What a command does to the mounts.                                      *)

AtRoot(j) == [dir |-> "/", on |-> RootVg, job |-> j]

\* Mounts come and go, but the first of all stays.
RootStays(j) ==
    /\ mounts # <<>> /\ mounts' # <<>> /\ mounts'[1] = mounts[1]
    /\ \A i \in DOMAIN mounts' :
          /\ mounts'[i].job = j
          /\ mounts'[i].on.kind = "loop" => mounts'[i].on = Loop(j)

\* A mount other than the first is taken away.
LEMMA UnmountLater ==
  ASSUME Safe, NEW j \in Job, Owner(j), NEW n \in DOMAIN mounts, n # 1,
         mounts' = RemoveAt(mounts, n)
  PROVE  RootStays(j)
  <1>1. /\ mounts \in Seq(Mount) /\ DOMAIN mounts = 1..Len(mounts) /\ Len(mounts) \in Nat
        /\ \A i \in DOMAIN mounts : mounts[i].job = j
    BY MountsTyped, OwnerMounts
  <1>2. n \in 1..Len(mounts) /\ n > 1 /\ mounts # <<>>
    BY <1>1
  <1>3. \A i \in DOMAIN mounts : mounts[i].on.kind = "loop" => mounts[i].on = Loop(j)
    BY <1>1 DEF Safe, MountTree
  <1>4. /\ mounts' \in Seq(Mount) /\ Len(mounts') = Len(mounts) - 1
        /\ \A i \in 1..(Len(mounts) - 1) : mounts'[i] = IF i < n THEN mounts[i] ELSE mounts[i + 1]
    BY <1>1, <1>2, RemovedAt
  <1>5. DOMAIN mounts' = 1..(Len(mounts) - 1) /\ 1 \in 1..(Len(mounts) - 1)
    BY <1>1, <1>2, <1>4
  <1>6. mounts'[1] = mounts[1] /\ mounts' # <<>>
    <2>1. \A i \in 1..(Len(mounts) - 1) : i < n => mounts'[i] = mounts[i]
      BY <1>4
    <2>2. Len(mounts') # 0
      BY <1>1, <1>2, <1>4
    <2> QED
      BY <2>1, <2>2, <1>2, <1>5
  <1>7. ASSUME NEW i \in DOMAIN mounts' PROVE \E k \in DOMAIN mounts : mounts'[i] = mounts[k]
    <2>1. i \in DOMAIN mounts /\ i + 1 \in DOMAIN mounts
      BY <1>1, <1>5
    <2>2. mounts'[i] = mounts[i] \/ mounts'[i] = mounts[i + 1]
      BY <1>4, <1>5
    <2> QED
      BY <2>1, <2>2
  <1> QED
    BY <1>1, <1>2, <1>3, <1>6, <1>7 DEF RootStays

\* A mount at another directory than the root's is taken away.
LEMMA UnmountBeside ==
  ASSUME Safe, NEW j \in Job, Owner(j), NEW d \in Dir \ {"/"}, MountPoint(d),
         mounts' = RemoveAt(mounts, CHOOSE i \in DOMAIN mounts : Visible(i, d))
  PROVE  RootStays(j)
  <1> DEFINE n == CHOOSE i \in DOMAIN mounts : Visible(i, d)
  <1>1. n \in DOMAIN mounts /\ mounts[n].dir = d
    BY MountPointAt DEF Safe, TypeOK
  <1>2. mounts' = RemoveAt(mounts, n)
    OBVIOUS
  <1> HIDE DEF n
  <1>3. mounts # <<>>
    BY <1>1, MountsTyped
  <1>4. mounts[1].dir = "/"
    BY <1>3 DEF Safe, MountTree
  <1> QED
    BY <1>1, <1>2, <1>4, UnmountLater

\* The root is taken away, which nothing is mounted in: it is the last of the mounts, and
\* there may be another one at the same directory.
LEMMA UnmountRoot ==
  ASSUME Safe, NEW j \in Job, Owner(j), MountPoint("/"), ~ Inside("/"),
         mounts' = RemoveAt(mounts, CHOOSE i \in DOMAIN mounts : Visible(i, "/"))
  PROVE  \/ mounts' = <<>>
         \/ Len(mounts) # 1 /\ RootStays(j)
  <1> DEFINE n == CHOOSE i \in DOMAIN mounts : Visible(i, "/")
  <1>1. n \in DOMAIN mounts /\ Visible(n, "/") /\ mounts[n].dir = "/"
    BY MountPointAt DEF Safe, TypeOK
  <1>2. mounts' = RemoveAt(mounts, n)
    OBVIOUS
  <1> HIDE DEF n
  <1>3. mounts \in Seq(Mount) /\ DOMAIN mounts = 1..Len(mounts) /\ Len(mounts) \in Nat
    BY MountsTyped
  <1>4. n = Len(mounts)
    <2> SUFFICES ASSUME n # Len(mounts) PROVE FALSE
      OBVIOUS
    <2>1. n < Len(mounts) /\ Len(mounts) \in DOMAIN mounts
      BY <1>1, <1>3
    <2>2. mounts[Len(mounts)].dir \in Dir
      BY <2>1, MountsTyped
    <2>3. mounts[Len(mounts)].dir # "/"
      <3>1. Covers(Len(mounts), "/") => Len(mounts) <= n
        BY <1>1, <2>1 DEF Visible
      <3> QED
        BY <3>1, <2>1, <1>1, <1>3 DEF Covers
    <2>4. "/" \in Above[mounts[Len(mounts)].dir]
      BY <2>2, <2>3, DirAssumption
    <2> QED
      BY <1>1, <2>1, <2>4 DEF Inside
  <1>5. CASE Len(mounts) = 1
    <2>1. mounts' \in Seq(Mount) /\ Len(mounts') = Len(mounts) - 1
      BY <1>1, <1>2, <1>3, RemovedAt
    <2> QED
      BY <2>1, <1>5
  <1>6. CASE Len(mounts) # 1
    BY <1>1, <1>2, <1>4, <1>6, UnmountLater
  <1> QED
    BY <1>5, <1>6

\* Something is mounted when there is a mount.
LEMMA MountBeside ==
  ASSUME Safe, NEW j \in Job, HasMounts(j), NEW d \in Dir,
         NEW on \in {NoId, RootVg, Array("boot"), Loop(j)},
         mounts' = Append(mounts, [dir |-> d, on |-> on, job |-> j])
  PROVE  RootStays(j)
  <1> DEFINE x == [dir |-> d, on |-> on, job |-> j]
  <1>1. /\ mounts \in Seq(Mount) /\ DOMAIN mounts = 1..Len(mounts) /\ Len(mounts) \in Nat
        /\ \A i \in DOMAIN mounts : mounts[i].job = j
    BY MountsTyped, OwnerMounts DEF Owner
  <1>2. mounts # <<>>
    BY <1>1 DEF HasMounts
  <1>3. \A i \in DOMAIN mounts : mounts[i].on.kind = "loop" => mounts[i].on = Loop(j)
    BY <1>1, <1>2 DEF Safe, MountTree
  <1>4. x.job = j /\ (x.on.kind = "loop" => x.on = Loop(j))
    BY DEF NoId, RootVg, Array
  <1>5. mounts' = Append(mounts, x)
    OBVIOUS
  <1> HIDE DEF x
  <1>6. /\ DOMAIN mounts' = 1..(Len(mounts) + 1) /\ mounts'[Len(mounts) + 1] = x
        /\ \A i \in DOMAIN mounts : mounts'[i] = mounts[i]
    BY <1>1, <1>5
  <1>7. 1 \in DOMAIN mounts /\ 1 \in DOMAIN mounts'
    BY <1>1, <1>2, <1>6
  <1>8. \A i \in DOMAIN mounts' : i \in DOMAIN mounts \/ mounts'[i] = x
    BY <1>1, <1>6
  <1>9. mounts' # <<>> /\ mounts'[1] = mounts[1]
    BY <1>6, <1>7
  <1> QED
    BY <1>1, <1>2, <1>3, <1>4, <1>6, <1>8, <1>9 DEF RootStays

\* What is known of the mounts at the next command.
LEMMA AtMount ==
  ASSUME Safe, NEW j \in Job, InSetup(j), NEW b, b = Start(cfg[j], j), b \in Nat
  PROVE  /\ pos[j] > b + 1 => Owner(j)
         /\ Owner(j) => mounts = <<>> \/ HasMounts(j)
         /\ pos[j] = b + 5 => mounts = <<>>
         /\ pos[j] = b + 7 /\ Btrfs(cfg[j]) => Len(mounts) = 1
         /\ pos[j] > Rooted(cfg[j], j) => HasMounts(j)
         /\ pos[j] <= b + 5 => ~ HasMounts(j) /\ ~ MayMount(j)
  <1>1. PositionsOf(j) /\ phase[j] = "setup" /\ pos[j] \in Nat
    BY DEF Safe, JobInv, InSetup, TypeOK
  <1>2. /\ pos[j] <= b + 5 => ~ HasMounts(j) /\ ~ MayMount(j)
        /\ Btrfs(cfg[j]) /\ pos[j] \in {b + 6, b + 7} => Len(mounts) = 1
        /\ pos[j] > Rooted(cfg[j], j) => HasMounts(j)
    BY <1>1 DEF PositionsOf
  <1>3. pos[j] > b + 1 => Owner(j)
    BY <1>1 DEF Owner
  <1>4. Owner(j) => mounts = <<>> \/ HasMounts(j)
    <2>1. Owner(j) /\ mounts # <<>> => 1 \in DOMAIN mounts
      BY MountsTyped
    <2> QED
      BY <2>1, OwnerMounts DEF HasMounts
  <1> QED
    BY <1>1, <1>2, <1>3, <1>4

\* What a command may do to the mounts.  One that should unmount may leave all as it is, and
\* the root is then mounted again over what is there.
Remount(j, s, b, m) ==
    \/ s.op \notin {"mount", "umount"} /\ mounts' = mounts
    \/ /\ s = RootCmd("mount", MountAt("/")) /\ Owner(j)
       /\ pos[j] = b + 5 => mounts' = <<AtRoot(j)>>
       /\ pos[j] = b + 5 \/ (pos[j] = b + 8 /\ Btrfs(cfg[j]))
       /\ (mounts = <<>> /\ mounts' = <<AtRoot(j)>>) \/ (HasMounts(j) /\ RootStays(j))
       /\ \E d \in dev : d.id = RootVg
    \/ /\ s = RootCmd("umount", MountAt("/")) /\ Owner(j)
       /\ pos[j] = b + 7 /\ Btrfs(cfg[j]) /\ mounts' = <<>>
    \/ /\ s.op \in {"mount", "umount"} /\ s.id # MountAt("/") /\ pos[j] > m /\ Owner(j)
       /\ HasMounts(j) /\ RootStays(j)
    \/ /\ s.op = "umount" /\ Owner(j) /\ mounts' = mounts
       /\ (pos[j] = b + 7 /\ Btrfs(cfg[j])) \/ pos[j] > m

\* A command of the body does one of these things to the mounts.
LEMMA OpenMounts ==
  ASSUME Safe, NEW j \in Job, InSetup(j), NEW s, s = Step(j),
         NEW P, NEW b, NEW m, AtStep(j, s, P, b, m), Possible(s), OpenOnHost(j, s)
  PROVE  Remount(j, s, b, m)
  <1>1. /\ Stage(cfg[j], j, s, pos[j], b, m) /\ b = Start(cfg[j], j) /\ m = Rooted(cfg[j], j)
        /\ b \in Nat /\ m \in Nat /\ m >= b + 5 /\ pos[j] \in Nat
    BY DEF AtStep
  <1>2. MountAt("/").kind = "mount" /\ MountAt("/").name = "/" /\ \A d : MountAt(d).name = d
    BY DEF MountAt
  <1>3. RootVg # NoId
    BY DEF RootVg, NoId
  <1>4. CASE s.op \notin {"mount", "umount"}
    BY <1>4 DEF OpenOnHost, Remount
  <1>5. CASE /\ s = RootCmd("mount", MountAt("/"))
             /\ pos[j] = b + 5 \/ (pos[j] = b + 8 /\ Btrfs(cfg[j]))
    <2>1. s.op = "mount" /\ s.id = MountAt("/") /\ s.on = RootVg
      BY <1>5 DEF RootCmd
    <2>2. Owner(j) /\ (mounts = <<>> \/ HasMounts(j)) /\ (pos[j] = b + 5 => mounts = <<>>)
      BY <1>1, <1>5, AtMount
    <2>3. mounts' = Append(mounts, AtRoot(j))
      BY <2>1, <1>2 DEF OpenOnHost, AtRoot
    <2>4. /\ mounts = <<>> => mounts' = <<AtRoot(j)>>
          /\ HasMounts(j) => RootStays(j)
      <3>1. mounts = <<>> => mounts' = <<AtRoot(j)>>
        BY <2>3
      <3>2. "/" \in Dir
        BY DirAssumption DEF DefaultDir, Range, NoDir
      <3>3. HasMounts(j) => RootStays(j)
        <4>1. mounts' = Append(mounts, [dir |-> "/", on |-> RootVg, job |-> j])
          BY <2>3 DEF AtRoot
        <4> HIDE DEF RootVg
        <4> QED
          BY <3>2, <4>1, MountBeside
      <3> QED
        BY <3>1, <3>3
    <2>5. Active(RootVg)
      BY <2>1 DEF Possible
    <2>6. \E d \in dev : d.id = RootVg
      BY <2>5, <1>3 DEF Active
    <2> QED
      BY <1>5, <2>2, <2>4, <2>6 DEF Remount
  <1>6. CASE s = RootCmd("umount", MountAt("/")) /\ pos[j] = b + 7 /\ Btrfs(cfg[j])
    <2>1. s.op = "umount" /\ s.id = MountAt("/")
      BY <1>6 DEF RootCmd
    <2>2. Len(mounts) = 1 /\ Owner(j)
      BY <1>1, <1>6, AtMount
    <2>3. MountPoint("/") /\ ~ Inside("/")
      BY <2>1, <1>2 DEF Possible
    <2>4. mounts' = RemoveAt(mounts, CHOOSE i \in DOMAIN mounts : Visible(i, "/"))
      BY <2>1, <1>2 DEF OpenOnHost
    <2>5. mounts' = <<>>
      BY <2>2, <2>3, <2>4, UnmountRoot
    <2> QED
      BY <1>6, <2>2, <2>5 DEF Remount
  <1>7. ASSUME s.op \in {"mount", "umount"}, pos[j] > m, NEW d \in Dir \ {"/"}, s.id = MountAt(d),
               s.on \in {NoId, RootVg, Array("boot"), Loop(j)}
        PROVE  Remount(j, s, b, m)
    <2>1. HasMounts(j) /\ Owner(j)
      BY <1>1, <1>7, AtMount
    <2>2. s.id.name = d /\ s.id # MountAt("/")
      BY <1>2, <1>7
    <2>3. CASE s.op = "mount"
      <3>1. mounts' = Append(mounts, [dir |-> d, on |-> s.on, job |-> j])
        BY <2>2, <2>3 DEF OpenOnHost
      <3>2. RootStays(j)
        BY <1>7, <2>1, <3>1, MountBeside
      <3> QED
        BY <1>7, <2>1, <2>2, <3>2 DEF Remount
    <2>4. CASE s.op = "umount"
      <3>1. MountPoint(d)
        BY <2>2, <2>4 DEF Possible
      <3>2. mounts' = RemoveAt(mounts, CHOOSE i \in DOMAIN mounts : Visible(i, d))
        BY <2>2, <2>4 DEF OpenOnHost
      <3>3. RootStays(j)
        BY <2>1, <3>1, <3>2, UnmountBeside
      <3> QED
        BY <1>7, <2>1, <2>2, <3>3 DEF Remount
    <2> QED
      BY <1>7, <2>3, <2>4
  <1>8. CASE s.op \in {"mount", "umount"}
    <2>1. \/ /\ s = RootCmd("mount", MountAt("/"))
             /\ pos[j] = b + 5 \/ (pos[j] = b + 8 /\ Btrfs(cfg[j]))
          \/ s = RootCmd("umount", MountAt("/")) /\ pos[j] = b + 7 /\ Btrfs(cfg[j])
          \/ /\ s.op \in {"mount", "umount"} /\ pos[j] > m
             /\ \E d \in Dir \ {"/"} : s.id = MountAt(d)
             /\ s.on \in {NoId, RootVg, Array("boot"), Loop(j)}
      BY <1>1, <1>8, DeviceChoices DEF Stage
    <2> QED
      BY <2>1, <1>5, <1>6, <1>7
  <1> QED
    BY <1>4, <1>8

-----------------------------------------------------------------------------
(* What a job does to the host leaves the other jobs what is theirs.       *)

HostChange(j) ==
    /\ mounts' = mounts \/ (Owner(j) /\ \A i \in DOMAIN mounts' : mounts'[i].job = j)
    /\ \A d \in dev' : d.job # j => d \in dev
    /\ \A d \in dev : d.job # j /\ d.id = Crypt => d \in dev'
    /\ \A v \in vgs : v.job # j => v \in vgs'

HostSafe(j) == Devices' /\ MountTree' /\ HostChange(j)

\* A step that leaves the host alone.
LEMMA SameHost ==
  ASSUME Safe, NEW j \in Job, doc' = doc, UNCHANGED host
  PROVE  HostSafe(j)
  <1>1. dev' = dev /\ vgs' = vgs /\ mounts' = mounts
    BY DEF host
  <1>2. Devices'
    BY <1>1 DEF Safe, Devices
  <1>3. MountTree'
    BY <1>1 DEF Safe, MountTree
  <1> QED
    BY <1>1, <1>2, <1>3 DEF HostSafe, HostChange

\* The volume group is of the job that may lock the mount root.
LEMMA OwnGroup ==
  ASSUME Safe, NEW j \in Job, Owner(j)
  PROVE  \E v \in vgs : v.job = j /\ vgs = {v}
  <1>1. PICK v \in vgs : v.job = j
    BY DEF Safe, JobInv, LockOf
  <1>2. \A w \in vgs : w = v
    BY DEF Safe, Devices
  <1> QED
    BY <1>1, <1>2

\* The device that the volume group is made on is the job's own.
LEMMA OwnPv ==
  ASSUME Safe, NEW j \in Job, InSetup(j), NEW P, NEW b, NEW m, AtStep(j, Step(j), P, b, m),
         pos[j] = b + 1, NEW d \in dev, d.id = RootPv(cfg[j], j)
  PROVE  d.job = j
  <1> DEFINE c == cfg[j]
  <1>1. /\ Shape(c, j, P, b, m) /\ P = Plan(c, j) /\ b \in Nat
        /\ doc[j] \in Doc /\ Accepted(doc[j]) /\ c = Parse(doc[j])
    BY DEF AtStep
  <1>2. /\ RootPv(c, j) \in {Crypt, Array("root"), Loop(j)}
        /\ RootPv(c, j) = Array("root") => IsOn(doc[j].root_vg_raid)
    <2>1. /\ c.bootRaid \in BOOLEAN /\ c.rootRaid \in BOOLEAN /\ c.luks \in BOOLEAN
          /\ c.rootRaid = IsOn(doc[j].root_vg_raid)
      BY <1>1, ParseTyped
    <2> QED
      BY <2>1, DevicesBelow
  <1>3. d.id.kind = "loop" => d.id = Loop(d.job)
    BY DEF Safe, Devices, TypeOK, HostOK
  <1>4. CASE d.id = Loop(j)
    BY <1>3, <1>4 DEF Loop
  <1>5. CASE d.id = Array("root")
    <2>1. IsOn(doc[d.job].root_vg_raid) /\ d.job \in Job
      BY <1>5 DEF Safe, Devices, TypeOK, HostOK
    <2>2. IsOn(doc[j].root_vg_raid)
      BY <1>2, <1>5
    <2> QED
      BY <2>1, <2>2 DEF Safe, OneRootArray
  <1>6. CASE d.id = Crypt
    <2>1. PICK p \in 1..b : P[p].op = "open" /\ P[p].id = Crypt
      BY <1>1, <1>6 DEF Shape
    <2>2. Crypt \in Mine(j)
      <3>1. PositionsOf(j) /\ phase[j] = "setup"
        BY DEF Safe, JobInv, InSetup
      <3>2. \A q \in 1..(pos[j] - 1) :
               Plan(c, j)[q].op \in {"open", "create", "vgchange"} => Plan(c, j)[q].id \in Mine(j)
        BY <3>1 DEF PositionsOf
      <3>3. p \in 1..(pos[j] - 1)
        BY <1>1
      <3> HIDE DEF c
      <3> QED
        BY <1>1, <2>1, <3>2, <3>3
    <2>3. PICK e \in dev : e.id = Crypt /\ e.job = j
      BY <2>2 DEF Safe, JobInv, RegistersOf
    <2>4. d = e
      BY <1>6, <2>3 DEF Safe, Devices
    <2> QED
      BY <2>3, <2>4
  <1> QED
    BY <1>2, <1>4, <1>5, <1>6

\* What a command does to the block devices and the volume group.
Rebuild(j, s, b) ==
    \/ s.op \notin {"open", "create", "vgcreate", "lvcreate"} /\ dev' = dev /\ vgs' = vgs
    \/ /\ s.op \in {"open", "create"} /\ s \in Early(cfg[j], j) /\ pos[j] <= b /\ vgs' = vgs
       /\ dev' = dev \cup {[id |-> s.id, on |-> s.on, job |-> j]} /\ \A d \in dev : d.id # s.id
    \/ /\ s.op = "vgcreate" /\ pos[j] = b + 1 /\ dev' = dev /\ vgs = {}
       /\ vgs' = {[on |-> s.on, job |-> j]} /\ s.on \in {Loop(j), Array("root"), Crypt}
       /\ \E d \in dev : d.id = s.on /\ d.job = j
    \/ /\ s.op = "lvcreate" /\ pos[j] > b + 2 /\ vgs' = vgs
       /\ \E v : /\ vgs = {v} /\ v.job = j
                 /\ dev' = dev \cup {[id |-> RootVg, on |-> v.on, job |-> j]}

\* A command of the body does one of these things to the devices.
LEMMA OpenBlocks ==
  ASSUME Safe, NEW j \in Job, InSetup(j), NEW s, s = Step(j),
         NEW P, NEW b, NEW m, AtStep(j, s, P, b, m), Possible(s), OpenOnHost(j, s)
  PROVE  Rebuild(j, s, b)
  <1>1. /\ Stage(cfg[j], j, s, pos[j], b, m) /\ b = Start(cfg[j], j) /\ b \in Nat
        /\ pos[j] \in Nat /\ Sane(s) /\ m \in Nat /\ m >= b + 5
    BY DEF AtStep
  <1>2. CASE s.op \notin {"open", "create", "vgcreate", "lvcreate"}
    BY <1>2 DEF OpenOnHost, Rebuild
  <1>3. CASE s.op \in {"open", "create"}
    <2>1. s \in Early(cfg[j], j) /\ pos[j] <= b
      BY <1>1, <1>3 DEF Stage, RootCmd
    <2>2. vgs' = vgs /\ dev' = dev \cup {[id |-> s.id, on |-> s.on, job |-> j]}
      BY <1>3 DEF OpenOnHost
    <2>3. \A d \in dev : d.id # s.id
      BY <1>3 DEF Possible
    <2> QED
      BY <1>3, <2>1, <2>2, <2>3 DEF Rebuild
  <1>4. CASE s.op = "vgcreate"
    <2>1. pos[j] = b + 1 /\ s.on = RootPv(cfg[j], j)
      BY <1>1, <1>4 DEF Stage, RootCmd
    <2>2. vgs = {} /\ Active(s.on)
      BY <1>4 DEF Possible
    <2>3. dev' = dev /\ vgs' = {[on |-> s.on, job |-> j]}
      BY <1>4 DEF OpenOnHost
    <2>4. s.on \in {Loop(j), Array("root"), Crypt}
      <3>1. doc[j] \in Doc /\ Accepted(doc[j]) /\ cfg[j] = Parse(doc[j])
        BY DEF AtStep
      <3> QED
        BY <2>1, <3>1, ParseTyped, DevicesBelow
    <2>5. s.on # NoId
      BY <2>4 DEF Loop, Array, Crypt, NoId
    <2>6. PICK d \in dev : d.id = s.on
      BY <2>2, <2>5 DEF Active
    <2>7. d.job = j
      BY <2>1, <2>6, OwnPv
    <2> QED
      BY <1>4, <2>1, <2>2, <2>3, <2>4, <2>6, <2>7 DEF Rebuild
  <1>5. CASE s.op = "lvcreate"
    <2>1. pos[j] > b + 2
      BY <1>1, <1>5 DEF Stage, RootCmd
    <2>2. Owner(j)
      BY <1>1, <2>1, AtMount
    <2>3. PICK v \in vgs : v.job = j /\ vgs = {v}
      BY <2>2, OwnGroup
    <2>4. vgs' = vgs /\ dev' = dev \cup {[id |-> RootVg, on |-> w.on, job |-> w.job] : w \in vgs}
      BY <1>5 DEF OpenOnHost
    <2>5. dev' = dev \cup {[id |-> RootVg, on |-> v.on, job |-> j]}
      BY <2>3, <2>4
    <2> QED
      BY <1>5, <2>1, <2>3, <2>4, <2>5 DEF Rebuild
  <1> QED
    BY <1>2, <1>3, <1>4, <1>5

\* None of them does harm to the devices, or to what another job has.
LEMMA BlocksSafe ==
  ASSUME Safe, NEW j \in Job, InSetup(j), NEW s, s = Step(j),
         NEW P, NEW b, NEW m, AtStep(j, s, P, b, m), Rebuild(j, s, b), doc' = doc
  PROVE  /\ Devices' /\ dev \subseteq dev'
         /\ \A d \in dev' : d.job # j => d \in dev
         /\ \A v \in vgs : v.job # j => v \in vgs'
  <1>1. /\ \A d, e \in dev : d.id = e.id => d = e
        /\ \A d \in dev :
              /\ d.id.kind = "loop" => d.id = Loop(d.job) /\ d.on = NoId
              /\ d.on.kind = "loop" => d.on = Loop(d.job)
              /\ d.id = Array("root") => IsOn(doc[d.job].root_vg_raid)
              /\ d.id = RootVg => [on |-> d.on, job |-> d.job] \in vgs
        /\ \A v, w \in vgs : v = w
        /\ \A v \in vgs :
              /\ v.on \in {Loop(v.job), Array("root"), Crypt}
              /\ \E d \in dev : d.id = v.on /\ d.job = v.job
    BY DEF Safe, Devices
  <1>2. \A d \in dev : d = [id |-> d.id, on |-> d.on, job |-> d.job]
    BY DEF Safe, TypeOK, HostOK
  <1>3. CASE s.op \notin {"open", "create", "vgcreate", "lvcreate"} /\ dev' = dev /\ vgs' = vgs
    BY <1>3 DEF Safe, Devices
  <1>4. CASE /\ s.op \in {"open", "create"} /\ s \in Early(cfg[j], j) /\ pos[j] <= b /\ vgs' = vgs
             /\ dev' = dev \cup {[id |-> s.id, on |-> s.on, job |-> j]}
             /\ \A d \in dev : d.id # s.id
    <2> DEFINE n == [id |-> s.id, on |-> s.on, job |-> j]
    <2>1. Sane(s) /\ doc[j] \in Doc /\ Accepted(doc[j]) /\ cfg[j] = Parse(doc[j])
      BY DEF AtStep
    <2>2. /\ cfg[j].bootRaid \in BOOLEAN /\ cfg[j].rootRaid \in BOOLEAN /\ cfg[j].luks \in BOOLEAN
          /\ cfg[j].rootRaid = IsOn(doc[j].root_vg_raid)
      BY <2>1, ParseTyped
    <2>3. RaidDev(cfg[j], j) \in {Array("root"), Loop(j)}
      BY <2>2, DevicesBelow
    <2>4. \/ s.id = Loop(j) /\ s.on = NoId
          \/ s.id = Array("boot") /\ s.on = Loop(j)
          \/ s.id = Array("root") /\ s.on = Loop(j) /\ IsOn(doc[j].root_vg_raid)
          \/ s.id = Crypt /\ s.on \in {Array("root"), Loop(j)}
      BY <1>4, <2>2, <2>3 DEF Early
    <2>5. /\ s.id.kind = "loop" => s.id = Loop(j) /\ s.on = NoId
          /\ s.on.kind = "loop" => s.on = Loop(j)
          /\ s.id = Array("root") => IsOn(doc[j].root_vg_raid)
          /\ s.id # RootVg
      BY <2>4 DEF Loop, Array, Crypt, RootVg, NoId
    <2>6. n.id = s.id /\ n.on = s.on /\ n.job = j
      OBVIOUS
    <2> HIDE DEF n
    <2>7. dev' = dev \cup {n} /\ vgs' = vgs /\ doc' = doc
      BY <1>4 DEF n
    <2>8. Devices'
      BY <1>1, <1>4, <2>5, <2>6, <2>7 DEF Devices
    <2> QED
      BY <2>6, <2>7, <2>8
  <1>5. CASE /\ s.op = "vgcreate" /\ pos[j] = b + 1 /\ dev' = dev /\ vgs = {}
             /\ vgs' = {[on |-> s.on, job |-> j]} /\ s.on \in {Loop(j), Array("root"), Crypt}
             /\ \E d \in dev : d.id = s.on /\ d.job = j
    <2>1. Devices'
      BY <1>1, <1>5 DEF Devices
    <2> QED
      BY <1>5, <2>1
  <1>6. ASSUME NEW v, vgs = {v}, v.job = j, vgs' = vgs,
               dev' = dev \cup {[id |-> RootVg, on |-> v.on, job |-> j]}
        PROVE  /\ Devices' /\ dev \subseteq dev'
               /\ \A d \in dev' : d.job # j => d \in dev
               /\ \A w \in vgs : w.job # j => w \in vgs'
    <2> DEFINE n == [id |-> RootVg, on |-> v.on, job |-> j]
    <2>1. /\ n.id = RootVg /\ n.on = v.on /\ n.job = j
          /\ RootVg.kind # "loop" /\ RootVg # Array("root")
      BY DEF RootVg, Array
    <2>2. v = [on |-> v.on, job |-> v.job]
      BY <1>6 DEF Safe, TypeOK, HostOK
    <2>3. v.on \in {Loop(j), Array("root"), Crypt} /\ (v.on.kind = "loop" => v.on = Loop(j))
      <3>1. v.on \in {Loop(j), Array("root"), Crypt}
        BY <1>1, <1>6
      <3> QED
        BY <3>1 DEF Array, Crypt
    <2>4. \A d \in dev : d.id = RootVg => d = n
      <3> TAKE d \in dev
      <3> HAVE d.id = RootVg
      <3>1. [on |-> d.on, job |-> d.job] = v
        BY <1>1, <1>6
      <3>2. d.on = v.on /\ d.job = j
        BY <3>1, <1>6
      <3> QED
        BY <3>2, <1>2
    <2> HIDE DEF n
    <2>5. dev' = dev \cup {n}
      BY <1>6 DEF n
    <2>6. [on |-> n.on, job |-> n.job] \in vgs
      BY <2>1, <2>2, <1>6
    <2>7. Devices'
      BY <1>1, <1>6, <2>1, <2>3, <2>4, <2>5, <2>6 DEF Devices
    <2> QED
      BY <1>6, <2>1, <2>5, <2>7
  <1> QED
    BY <1>3, <1>4, <1>5, <1>6 DEF Rebuild

\* A command of the body.
LEMMA OpenSafe ==
  ASSUME Safe, NEW j \in Job, InSetup(j), NEW s, s = Step(j), NEW P, NEW b, NEW m,
         AtStep(j, s, P, b, m), Remount(j, s, b, m), Rebuild(j, s, b), doc' = doc
  PROVE  HostSafe(j)
  <1>1. /\ Devices' /\ dev \subseteq dev'
        /\ \A d \in dev' : d.job # j => d \in dev
        /\ \A v \in vgs : v.job # j => v \in vgs'
    BY BlocksSafe
  <1>2. MountTree' /\ (mounts' = mounts \/ (Owner(j) /\ \A i \in DOMAIN mounts' : mounts'[i].job = j))
    <2>1. CASE mounts' = mounts
      BY <2>1, <1>1 DEF Safe, MountTree
    <2>2. CASE mounts' = <<AtRoot(j)>> /\ Owner(j) /\ \E d \in dev : d.id = RootVg
      <3>1. DOMAIN mounts' = {1} /\ mounts'[1] = AtRoot(j)
        BY <2>2
      <3>2. AtRoot(j).dir = "/" /\ AtRoot(j).on = RootVg /\ AtRoot(j).job = j /\ RootVg.kind # "loop"
        BY DEF AtRoot, RootVg
      <3>3. MountTree'
        BY <1>1, <2>2, <3>1, <3>2 DEF MountTree
      <3> QED
        BY <2>2, <3>1, <3>2, <3>3
    <2>3. CASE mounts' = <<>> /\ Owner(j)
      BY <2>3 DEF MountTree
    <2>4. CASE RootStays(j) /\ Owner(j)
      <3>1. /\ mounts # <<>> /\ mounts'[1] = mounts[1]
            /\ \A i \in DOMAIN mounts' :
                  /\ mounts'[i].job = j
                  /\ mounts'[i].on.kind = "loop" => mounts'[i].on = Loop(j)
        BY <2>4 DEF RootStays
      <3>2. mounts[1].dir = "/" /\ mounts[1].on = RootVg /\ \E d \in dev : d.id = RootVg
        BY <3>1 DEF Safe, MountTree
      <3>3. MountTree'
        BY <1>1, <3>1, <3>2 DEF MountTree
      <3> QED
        BY <2>4, <3>1, <3>3
    <2> QED
      BY <2>1, <2>2, <2>3, <2>4 DEF Remount
  <1> QED
    BY <1>1, <1>2 DEF HostSafe, HostChange

-----------------------------------------------------------------------------
(* What closing a resource does to the host.                               *)

\* What was open is closed: the last mount, another one than the first, or a device that
\* nothing is on.
Closed(j, id) ==
    \/ /\ id.kind = "mount" /\ Owner(j) /\ dev' = dev /\ vgs' = vgs
       /\ \/ mounts' = <<>>
          \/ HasMounts(j) /\ RootStays(j)
    \/ /\ id.kind # "mount" /\ mounts' = mounts
       /\ dev' = {d \in dev : d.id # id} /\ vgs' = {v \in vgs : v.on # id}
       /\ (\A d \in dev : d.on # id) /\ \A i \in DOMAIN mounts : mounts[i].on # id

\* What __exit__ visits next is the first of what the job still has to close.
LEMMA ClosingMine ==
  ASSUME Safe, NEW j \in Job, InCleanup(j)
  PROVE  /\ closing[j] \in Seq(Id) /\ closing[j] # <<>> /\ Closing(j) = closing[j][1]
         /\ Closing(j) \in Id /\ Closing(j) \in Mine(j) /\ Mine(j) = Range(closing[j])
         /\ Sorted(closing[j]) /\ 1 \in DOMAIN closing[j]
  <1>1. closing[j] \in Seq(Id) /\ closing[j] # <<>> /\ phase[j] = "cleanup"
    BY DEF Safe, TypeOK, InCleanup
  <1>2. Closing(j) = closing[j][1] /\ 1 \in DOMAIN closing[j]
    BY <1>1 DEF Closing
  <1>3. Mine(j) = Range(closing[j])
    BY <1>1 DEF Mine
  <1>4. Closing(j) \in Id /\ Closing(j) \in Range(closing[j])
    BY <1>1, <1>2 DEF Range
  <1>5. Sorted(closing[j])
    BY <1>1 DEF Safe, JobInv, RegistersOf
  <1> QED
    BY <1>1, <1>2, <1>3, <1>4, <1>5

\* An id of a mount is that of a directory.
LEMMA MountId ==
  ASSUME NEW id \in Id, id.kind = "mount"
  PROVE  \E d \in Dir : id = MountAt(d) /\ id.name = d
  BY DEF Id, MountAt, Loop, Array, Crypt, RootVg

\* When something is closed, one of these two happens.
LEMMA CloseEffect ==
  ASSUME Safe, NEW j \in Job, InCleanup(j), NEW id, id = Closing(j),
         Present(id), ~ Held(id), CloseOnHost(id)
  PROVE  Closed(j, id)
  <1>1. id \in Id /\ id \in Mine(j) /\ phase[j] = "cleanup"
    BY ClosingMine DEF InCleanup
  <1>2. CASE id.kind = "mount"
    <2>1. PICK d \in Dir : id = MountAt(d) /\ id.name = d
      BY <1>1, <1>2, MountId
    <2>2. Owner(j)
      BY <1>1, <1>2 DEF Owner, MayMount
    <2>3. MountPoint(d) /\ ~ Inside(d)
      BY <1>2, <2>1 DEF Present, Held
    <2>4. /\ mounts' = RemoveAt(mounts, CHOOSE i \in DOMAIN mounts : Visible(i, d))
          /\ dev' = dev /\ vgs' = vgs
      BY <1>2, <2>1 DEF CloseOnHost
    <2>5. mounts # <<>>
      BY <2>3, MountsTyped DEF MountPoint
    <2>6. HasMounts(j)
      BY <2>2, <2>5, MountsTyped, OwnerMounts DEF HasMounts
    <2>7. mounts' = <<>> \/ RootStays(j)
      <3>1. CASE d = "/"
        BY <2>2, <2>3, <2>4, <3>1, UnmountRoot
      <3>2. CASE d # "/"
        BY <2>2, <2>3, <2>4, <3>2, UnmountBeside
      <3> QED
        BY <3>1, <3>2
    <2> QED
      BY <1>2, <2>2, <2>4, <2>6, <2>7 DEF Closed
  <1>3. CASE id.kind # "mount"
    <2>1. ~ Busy(id)
      BY <1>3 DEF Held
    <2> QED
      BY <1>3, <2>1 DEF Closed, Busy, CloseOnHost
  <1> QED
    BY <1>2, <1>3

\* What is mounted keeps the volume group in use.
LEMMA GroupInUse ==
  ASSUME Safe, mounts # <<>>, NEW id, \A d \in dev : d.on # id
  PROVE  \A v \in vgs : v.on # id
  <1>1. PICK d \in dev : d.id = RootVg
    BY DEF Safe, MountTree
  <1>2. [on |-> d.on, job |-> d.job] \in vgs
    BY <1>1 DEF Safe, Devices
  <1>3. \A v \in vgs : v.on = d.on
    BY <1>2 DEF Safe, Devices
  <1> QED
    BY <1>3

\* Closing does no harm to the devices or mounts, or to what another job has.
LEMMA CloseSafe ==
  ASSUME Safe, NEW j \in Job, InCleanup(j), NEW id, id = Closing(j), Closed(j, id), doc' = doc
  PROVE  HostSafe(j)
  <1>1. CASE /\ id.kind = "mount" /\ Owner(j) /\ dev' = dev /\ vgs' = vgs
             /\ mounts' = <<>> \/ RootStays(j)
    <2>1. Devices'
      BY <1>1 DEF Safe, Devices
    <2>2. CASE mounts' = <<>>
      BY <1>1, <2>1, <2>2 DEF HostSafe, HostChange, MountTree
    <2>3. CASE RootStays(j)
      <3>1. /\ mounts # <<>> /\ mounts'[1] = mounts[1]
            /\ \A i \in DOMAIN mounts' :
                  /\ mounts'[i].job = j
                  /\ mounts'[i].on.kind = "loop" => mounts'[i].on = Loop(j)
        BY <2>3 DEF RootStays
      <3>2. mounts[1].dir = "/" /\ mounts[1].on = RootVg /\ \E d \in dev : d.id = RootVg
        BY <3>1 DEF Safe, MountTree
      <3>3. MountTree'
        BY <1>1, <3>1, <3>2 DEF MountTree
      <3> QED
        BY <1>1, <2>1, <3>1, <3>3 DEF HostSafe, HostChange
    <2> QED
      BY <1>1, <2>2, <2>3
  <1>2. CASE /\ id.kind # "mount" /\ mounts' = mounts
             /\ dev' = {d \in dev : d.id # id} /\ vgs' = {v \in vgs : v.on # id}
             /\ (\A d \in dev : d.on # id) /\ \A i \in DOMAIN mounts : mounts[i].on # id
    <2>1. /\ \A d, e \in dev : d.id = e.id => d = e
          /\ \A d \in dev :
                /\ d.id.kind = "loop" => d.id = Loop(d.job) /\ d.on = NoId
                /\ d.on.kind = "loop" => d.on = Loop(d.job)
                /\ d.id = Array("root") => IsOn(doc[d.job].root_vg_raid)
                /\ d.id = RootVg => [on |-> d.on, job |-> d.job] \in vgs
          /\ \A v, w \in vgs : v = w
          /\ \A v \in vgs :
                /\ v.on \in {Loop(v.job), Array("root"), Crypt}
                /\ \E d \in dev : d.id = v.on /\ d.job = v.job
      BY DEF Safe, Devices
    <2>2. \A d \in dev' : d \in dev /\ d.id # id /\ d.on # id
      BY <1>2
    <2>3. \A v \in vgs' : v \in vgs /\ v.on # id
      BY <1>2
    <2>4. \A d \in dev' : d.id = RootVg => [on |-> d.on, job |-> d.job] \in vgs'
      <3> TAKE d \in dev'
      <3> HAVE d.id = RootVg
      <3>1. [on |-> d.on, job |-> d.job] \in vgs /\ d.on # id
        BY <2>1, <2>2
      <3> QED
        BY <1>2, <3>1
    <2>5. \A v \in vgs' : \E d \in dev' : d.id = v.on /\ d.job = v.job
      <3> TAKE v \in vgs'
      <3>1. PICK d \in dev : d.id = v.on /\ d.job = v.job
        BY <2>1, <2>3
      <3>2. d \in dev'
        BY <1>2, <2>3, <3>1
      <3> QED
        BY <3>1, <3>2
    <2>6. Devices'
      BY <2>1, <2>2, <2>3, <2>4, <2>5 DEF Devices
    <2>7. MountTree'
      <3>1. mounts # <<>> => \E d \in dev' : d.id = RootVg
        <4> HAVE mounts # <<>>
        <4>1. mounts[1].on = RootVg /\ 1 \in DOMAIN mounts
          BY MountsTyped DEF Safe, MountTree
        <4>2. PICK d \in dev : d.id = RootVg
          BY DEF Safe, MountTree
        <4>3. id # RootVg
          BY <1>2, <4>1
        <4> QED
          BY <1>2, <4>2, <4>3
      <3> QED
        BY <1>2, <3>1 DEF Safe, MountTree
    <2>8. id \in Mine(j) /\ RegistersOf(j)
      BY ClosingMine DEF Safe, JobInv
    <2>9. ASSUME NEW d \in dev, d.job # j, d.id = Crypt PROVE d \in dev'
      <3>1. id # Crypt
        <4> SUFFICES ASSUME id = Crypt PROVE FALSE
          OBVIOUS
        <4>1. PICK e \in dev : e.id = Crypt /\ e.job = j
          BY <2>8 DEF RegistersOf
        <4> QED
          BY <2>1, <2>9, <4>1
      <3> QED
        BY <1>2, <2>9, <3>1
    <2>10. ASSUME NEW v \in vgs, v.job # j PROVE v \in vgs'
      <3>1. PICK d \in dev : d.id = v.on /\ d.job = v.job
        BY <2>1
      <3>2. v.on \in {Loop(v.job), Array("root"), Crypt}
        BY <2>1
      <3>3. v.on = id => v.on # Loop(v.job)
        BY <2>8, <2>10 DEF RegistersOf, Loop
      <3>4. v.on = id => v.on # Crypt
        <4> SUFFICES ASSUME id = Crypt, v.on = id PROVE FALSE
          OBVIOUS
        <4>1. PICK e \in dev : e.id = Crypt /\ e.job = j
          BY <2>8 DEF RegistersOf
        <4> QED
          BY <2>1, <2>10, <3>1, <4>1
      <3>5. v.on = id => v.on # Array("root")
        <4> SUFFICES ASSUME id = Array("root"), v.on = id PROVE FALSE
          OBVIOUS
        <4>1. IsOn(doc[j].root_vg_raid) /\ IsOn(doc[v.job].root_vg_raid) /\ v.job \in Job
          BY <2>1, <2>8, <3>1 DEF RegistersOf, Safe, TypeOK, HostOK
        <4> QED
          BY <2>10, <4>1 DEF Safe, OneRootArray
      <3> QED
        BY <1>2, <3>2, <3>3, <3>4, <3>5
    <2> QED
      BY <1>2, <2>2, <2>6, <2>7, <2>9, <2>10 DEF HostSafe, HostChange
  <1> QED
    BY <1>1, <1>2 DEF Closed

-----------------------------------------------------------------------------
(* The other jobs.                                                         *)

Untouched(k) == /\ doc'[k] = doc[k] /\ cfg'[k] = cfg[k] /\ phase'[k] = phase[k]
                /\ pos'[k] = pos[k] /\ reg'[k] = reg[k] /\ closing'[k] = closing[k]
                /\ errors'[k] = errors[k] /\ hit'[k] = hit[k] /\ unseen'[k] = unseen[k]

\* What a job does to the host keeps the invariant of every other job.
LEMMA Others ==
  ASSUME Safe, NEW j \in Job, NEW k \in Job, k # j, Untouched(k), HostChange(j)
  PROVE  JobInv(k)'
  <1>1. /\ doc'[k] = doc[k] /\ cfg'[k] = cfg[k] /\ phase'[k] = phase[k]
        /\ pos'[k] = pos[k] /\ reg'[k] = reg[k] /\ closing'[k] = closing[k]
        /\ errors'[k] = errors[k] /\ hit'[k] = hit[k]
    BY DEF Untouched
  <1>2. Mine(k)' = Mine(k)
    BY <1>1 DEF Mine
  <1>3. HasMounts(k)' => HasMounts(k) /\ mounts' = mounts
    BY DEF HostChange, HasMounts
  <1>4. MayMount(k)' = MayMount(k)
    BY <1>2 DEF MayMount
  <1>5. Owner(k) => mounts' = mounts
    BY OwnersAlone DEF HostChange
  <1>6. RegistersOf(k)'
    <2>1. RegistersOf(k)
      BY DEF Safe, JobInv
    <2>2. Crypt \in Mine(k) => \E d \in dev' : d.id = Crypt /\ d.job = k
      BY <2>1 DEF RegistersOf, HostChange
    <2> QED
      BY <1>1, <1>2, <2>1, <2>2 DEF RegistersOf
  <1>7. LockOf(k)'
    <2>1. Owner(k)' => Owner(k)
      BY <1>1, <1>3, <1>4 DEF Owner
    <2>2. Owner(k) => \E v \in vgs' : v.job = k
      BY DEF Safe, JobInv, LockOf, HostChange
    <2> QED
      BY <2>1, <2>2 DEF LockOf
  <1>8. PositionsOf(k)'
    <2> DEFINE c == cfg[k]
               b == Start(c, k)
    <2>1. /\ phase[k] = "parse" => pos[k] = 1
          /\ phase[k] = "setup" =>
             /\ pos[k] <= Len(Plan(c, k)) + 1
             /\ \A p \in 1..(pos[k] - 1) :
                   Plan(c, k)[p].op \in {"open", "create", "vgchange"} =>
                       Plan(c, k)[p].id \in Mine(k)
             /\ pos[k] <= b + 5 => ~ HasMounts(k) /\ ~ MayMount(k)
             /\ Btrfs(c) /\ pos[k] \in {b + 6, b + 7} => Len(mounts) = 1
             /\ pos[k] > Rooted(c, k) => HasMounts(k)
      BY DEF Safe, JobInv, PositionsOf
    <2>2. phase[k] = "setup" /\ Btrfs(c) /\ pos[k] \in {b + 6, b + 7} => Len(mounts') = 1
      <3> SUFFICES ASSUME phase[k] = "setup", Btrfs(c), pos[k] \in {b + 6, b + 7}
                   PROVE  Len(mounts') = 1
        OBVIOUS
      <3>1. b \in Nat
        <4>1. doc[k] \in Doc /\ Accepted(doc[k]) /\ c = Parse(doc[k])
          BY DocSpaceAssumption DEF Safe, TypeOK, Configured
        <4> QED
          BY <4>1, PlanShape DEF Shape
      <3>2. Owner(k)
        BY <3>1 DEF Owner
      <3> QED
        BY <2>1, <3>2, <1>5
    <2>3. phase[k] = "setup" /\ pos[k] > Rooted(c, k) => HasMounts(k)'
      <3> SUFFICES ASSUME phase[k] = "setup", pos[k] > Rooted(c, k)
                   PROVE  HasMounts(k)'
        OBVIOUS
      <3>1. HasMounts(k) /\ mounts' = mounts
        BY <2>1, <1>5 DEF Owner
      <3> QED
        BY <3>1 DEF HasMounts
    <2> HIDE DEF b
    <2>4. cfg'[k] = c /\ b = Start(c, k)
      BY <1>1 DEF b
    <2> HIDE DEF c
    <2>5. /\ phase'[k] = "parse" => pos'[k] = 1
          /\ phase'[k] = "setup" =>
             /\ pos'[k] <= Len(Plan(c, k)) + 1
             /\ \A p \in 1..(pos'[k] - 1) :
                   Plan(c, k)[p].op \in {"open", "create", "vgchange"} =>
                       Plan(c, k)[p].id \in Mine(k)'
             /\ pos'[k] <= b + 5 => ~ HasMounts(k)' /\ ~ MayMount(k)'
             /\ Btrfs(c) /\ pos'[k] \in {b + 6, b + 7} => Len(mounts') = 1
             /\ pos'[k] > Rooted(c, k) => HasMounts(k)'
      BY <1>1, <1>2, <1>3, <1>4, <2>1, <2>2, <2>3
    <2> QED
      BY <2>4, <2>5 DEF PositionsOf
  <1>9. AccountedOf(k)'
    <2>1. AccountedOf(k)
      BY DEF Safe, JobInv
    <2>2. \A d \in dev' : d.job = k => d \in dev
      BY DEF HostChange
    <2>3. Clean(k) => Clean(k)'
      BY <1>3, <2>2 DEF Clean, OwnDevices, OwnMounts, HasMounts
    <2>4. Untroubled(k)' = Untroubled(k)
      BY <1>1 DEF Untroubled
    <2> QED
      BY <1>1, <1>2, <1>3, <2>1, <2>2, <2>3, <2>4 DEF AccountedOf
  <1> QED
    BY <1>6, <1>7, <1>8, <1>9 DEF JobInv

-----------------------------------------------------------------------------
(* A command that succeeds, or that is taken for one that did.             *)

Advance(j) == RunStep(j) \/ PassUnmount(j)

\* What a command may register.
Registrable(j, s) ==
    /\ s.op \in Registering => /\ s.id.kind = "loop" => s.id = Loop(j)
                               /\ s.id = Array("boot") => IsOn(doc[j].boot_raid)
                               /\ s.id = Array("root") => IsOn(doc[j].root_vg_raid)
                               /\ s.id = Crypt => s.op = "open"
    /\ s.op \in {"open", "create", "vgchange"} => s.id.kind # "mount"
    /\ s.op \in {"mount", "umount"} => s.id.kind = "mount"
    /\ s.op = "vgchange" => s.id = RootVg

\* The next command registers nothing that is another job's.
LEMMA StepIds ==
  ASSUME Safe, NEW j \in Job, InSetup(j), NEW s, s = Step(j),
         NEW P, NEW b, NEW m, AtStep(j, s, P, b, m)
  PROVE  Registrable(j, s)
  <1>1. /\ Stage(cfg[j], j, s, pos[j], b, m) /\ Shape(cfg[j], j, P, b, m) /\ s = P[pos[j]]
        /\ doc[j] \in Doc /\ Accepted(doc[j]) /\ cfg[j] = Parse(doc[j]) /\ Sane(s)
    BY DEF AtStep
  <1>2. /\ cfg[j].bootRaid \in BOOLEAN /\ cfg[j].rootRaid \in BOOLEAN /\ cfg[j].luks \in BOOLEAN
        /\ cfg[j].bootRaid = IsOn(doc[j].boot_raid)
        /\ cfg[j].rootRaid = IsOn(doc[j].root_vg_raid)
    BY <1>1, ParseTyped
  <1>3. CASE s.op \in {"open", "create"}
    <2>1. s \in Early(cfg[j], j)
      BY <1>1, <1>3 DEF Stage, RootCmd
    <2>2. \/ s.id = Loop(j)
          \/ s.id = Array("boot") /\ IsOn(doc[j].boot_raid)
          \/ s.id = Array("root") /\ IsOn(doc[j].root_vg_raid)
          \/ s.op = "open" /\ s.id = Crypt
      BY <1>2, <1>3, <2>1 DEF Early
    <2> QED
      BY <1>3, <2>2 DEF Registrable, Loop, Array, Crypt, RootVg
  <1>4. CASE s.op = "vgchange"
    <2>1. pos[j] = b + 2
      BY <1>1, <1>4 DEF Stage, RootCmd
    <2>2. s.id = RootVg
      BY <1>1, <2>1 DEF Shape
    <2> QED
      BY <1>4, <2>2 DEF Registrable, Loop, Array, Crypt, RootVg
  <1>5. CASE s.op \in {"mount", "umount"}
    <2>0. PICK d \in Dir : s.id = MountAt(d)
      BY <1>1, <1>5 DEF Sane
    <2>1. s.id.kind = "mount"
      BY <2>0 DEF MountAt
    <2> QED
      BY <1>5, <2>1 DEF Registrable, Loop, Array, Crypt
  <1>6. CASE s.op \notin Registering \cup {"umount"}
    BY <1>6 DEF Registrable, Registering
  <1> QED
    BY <1>3, <1>4, <1>5, <1>6 DEF Registering

\* What is registered after a command has succeeded.
LEMMA RunMine ==
  ASSUME Safe, NEW j \in Job, Advance(j), NEW s, s = Step(j)
  PROVE  Mine(j)' = IF s.op = "umount" THEN Mine(j) \ {s.id}
                    ELSE IF s.op \in Registering THEN Mine(j) \cup {s.id} ELSE Mine(j)
  <1>1. /\ InSetup(j) /\ phase[j] = "setup" /\ phase' = phase
        /\ reg' = [reg EXCEPT ![j] = Register(@, Step(j))]
    BY DEF Advance, RunStep, PassUnmount, InSetup
  <1>2. Sane(s)
    BY <1>1, StepSane DEF Safe
  <1>3. RegisterOK(reg[j]) /\ reg'[j] = Register(reg[j], s)
    BY <1>1 DEF Safe, TypeOK
  <1>4. Registered(reg'[j]) = IF s.op = "umount" THEN Registered(reg[j]) \ {s.id}
                              ELSE IF s.op \in Registering THEN Registered(reg[j]) \cup {s.id}
                              ELSE Registered(reg[j])
    BY <1>2, <1>3, RegisterKeeps DEF Sane
  <1>5. Mine(j) = Registered(reg[j]) /\ Mine(j)' = Registered(reg'[j])
    BY <1>1 DEF Mine
  <1> QED
    BY <1>4, <1>5

\* All that is known of a command that succeeds.
Ran(j, s, P, b, m) ==
    /\ AtStep(j, s, P, b, m) /\ Remount(j, s, b, m) /\ Rebuild(j, s, b)
    /\ Registrable(j, s) /\ dev \subseteq dev'
    /\ \A d \in dev' : d.job # j => d \in dev

\* A command that succeeds does what the lemmas above say.
LEMMA Running ==
  ASSUME Safe, NEW j \in Job, InSetup(j), doc' = doc,
         Possible(Step(j)), OpenOnHost(j, Step(j))
  PROVE  /\ HostSafe(j)
         /\ Ran(j, Step(j), Plan(cfg[j], j), Start(cfg[j], j), Rooted(cfg[j], j))
  <1> DEFINE s == Step(j)
             P == Plan(cfg[j], j)
             b == Start(cfg[j], j)
             m == Rooted(cfg[j], j)
  <1>1. AtStep(j, s, P, b, m) /\ s = Step(j) /\ Possible(s) /\ OpenOnHost(j, s)
    BY StepStage DEF Safe
  <1> HIDE DEF s, P, b, m
  <1>2. Remount(j, s, b, m)
    BY <1>1, OpenMounts
  <1>3. Rebuild(j, s, b)
    BY <1>1, OpenBlocks
  <1>4. HostSafe(j)
    BY <1>1, <1>2, <1>3, OpenSafe
  <1>5. Registrable(j, s)
    BY <1>1, StepIds
  <1>6. dev \subseteq dev' /\ \A d \in dev' : d.job # j => d \in dev
    BY <1>1, <1>3, BlocksSafe
  <1>7. Ran(j, s, P, b, m)
    BY <1>1, <1>2, <1>3, <1>5, <1>6 DEF Ran
  <1> QED
    BY <1>4, <1>7 DEF s, P, b, m

\* They hold of a umount that is passed over, too.
LEMMA RunRan ==
  ASSUME Safe, NEW j \in Job, Advance(j)
  PROVE  /\ HostSafe(j)
         /\ Ran(j, Step(j), Plan(cfg[j], j), Start(cfg[j], j), Rooted(cfg[j], j))
  <1>1. CASE RunStep(j)
    BY <1>1, Running DEF RunStep
  <1>2. CASE PassUnmount(j)
    <2> DEFINE s == Step(j)
               P == Plan(cfg[j], j)
               b == Start(cfg[j], j)
               m == Rooted(cfg[j], j)
    <2>1. InSetup(j) /\ s.op = "umount" /\ UNCHANGED host /\ doc' = doc
      BY <1>2 DEF PassUnmount
    <2>2. AtStep(j, s, P, b, m) /\ s = Step(j)
      BY <2>1, StepStage DEF Safe
    <2>3. HostSafe(j)
      BY <2>1, SameHost
    <2> HIDE DEF s, P, b, m
    <2>4. dev' = dev /\ vgs' = vgs /\ mounts' = mounts
      BY <2>1 DEF host
    <2>5. /\ Stage(cfg[j], j, s, pos[j], b, m) /\ b = Start(cfg[j], j) /\ b \in Nat
          /\ m \in Nat /\ m >= b + 5 /\ pos[j] \in Nat
      BY <2>2 DEF AtStep
    <2>6. (pos[j] = b + 7 /\ Btrfs(cfg[j])) \/ pos[j] > m
      BY <2>1, <2>5 DEF Stage, RootCmd
    <2>7. Owner(j)
      <3>1. pos[j] > b + 1
        BY <2>5, <2>6
      <3> QED
        BY <2>1, <2>5, <3>1, AtMount
    <2>8. Remount(j, s, b, m)
      BY <2>1, <2>4, <2>6, <2>7 DEF Remount
    <2>9. Rebuild(j, s, b)
      BY <2>1, <2>4 DEF Rebuild
    <2>10. Registrable(j, s)
      BY <2>1, <2>2, StepIds
    <2>11. Ran(j, s, P, b, m)
      BY <2>2, <2>4, <2>8, <2>9, <2>10 DEF Ran
    <2> QED
      BY <2>3, <2>11 DEF s, P, b, m
  <1> QED
    BY <1>1, <1>2 DEF Advance

\* What is registered after it is the job's own.
LEMMA RunRegisters ==
  ASSUME Safe, NEW j \in Job, Advance(j), NEW s, s = Step(j),
         NEW P, NEW b, NEW m, Ran(j, s, P, b, m)
  PROVE  RegistersOf(j)'
  <1>1. phase[j] = "setup" /\ phase' = phase /\ doc' = doc
    BY DEF Advance, RunStep, PassUnmount, InSetup
  <1>2. /\ \A id \in Mine(j) : id.kind = "loop" => id = Loop(j)
        /\ Array("root") \in Mine(j) => IsOn(doc[j].root_vg_raid)
        /\ Crypt \in Mine(j) => \E d \in dev : d.id = Crypt /\ d.job = j
    BY DEF Safe, JobInv, RegistersOf
  <1>3. \A id \in Mine(j)' : id \in Mine(j) \/ (s.op \in Registering /\ id = s.id)
    BY RunMine
  <1>4. /\ s.op \in Registering => /\ s.id.kind = "loop" => s.id = Loop(j)
                                   /\ s.id = Array("root") => IsOn(doc[j].root_vg_raid)
                                   /\ s.id = Crypt => s.op = "open"
        /\ dev \subseteq dev'
    BY DEF Ran, Registrable
  <1>5. s.op = "open" => [id |-> s.id, on |-> s.on, job |-> j] \in dev'
    BY DEF Ran, Rebuild
  <1>6. Crypt \in Mine(j)' => \E d \in dev' : d.id = Crypt /\ d.job = j
    <2>1. CASE Crypt \in Mine(j)
      BY <2>1, <1>2, <1>4
    <2>2. CASE s.op = "open" /\ s.id = Crypt
      <3>1. [id |-> s.id, on |-> s.on, job |-> j].id = Crypt /\ [id |-> s.id, on |-> s.on, job |-> j].job = j
        BY <2>2
      <3> QED
        BY <2>2, <3>1, <1>5
    <2> QED
      BY <2>1, <2>2, <1>3, <1>4
  <1>7. Array("root") \in Mine(j)' => IsOn(doc'[j].root_vg_raid)
    BY <1>1, <1>2, <1>3, <1>4
  <1>8. \A id \in Mine(j)' : id.kind = "loop" => id = Loop(j)
    BY <1>2, <1>3, <1>4
  <1>9. phase'[j] # "parse" /\ phase'[j] # "cleanup"
    BY <1>1
  <1> QED
    BY <1>6, <1>7, <1>8, <1>9 DEF RegistersOf

\* A job has a volume group from vgcreate on.
LEMMA RunLock ==
  ASSUME Safe, NEW j \in Job, Advance(j), NEW s, s = Step(j),
         NEW P, NEW b, NEW m, Ran(j, s, P, b, m)
  PROVE  LockOf(j)'
  <1>1. phase[j] = "setup" /\ phase' = phase /\ cfg' = cfg /\ pos'[j] = pos[j] + 1 /\ pos[j] \in Nat
    BY DEF Advance, RunStep, PassUnmount, InSetup, Safe, TypeOK
  <1>2. /\ b = Start(cfg[j], j) /\ b \in Nat /\ s = P[pos[j]] /\ Shape(cfg[j], j, P, b, m)
        /\ m \in Nat /\ m >= b + 5
    BY DEF Ran, AtStep
  <1>3. Owner(j)' => pos[j] > b \/ HasMounts(j)'
    <2>1. Start(cfg[j], j)' = b
      BY <1>1, <1>2
    <2> QED
      BY <1>1, <1>2, <2>1 DEF Owner
  <1>4. CASE pos[j] = b + 1
    <2>1. s.op = "vgcreate"
      BY <1>2, <1>4 DEF Shape
    <2>2. vgs' = {[on |-> s.on, job |-> j]}
      BY <2>1 DEF Ran, Rebuild
    <2>3. [on |-> s.on, job |-> j] \in vgs' /\ [on |-> s.on, job |-> j].job = j
      BY <2>2
    <2> QED
      BY <2>3 DEF LockOf
  <1>5. CASE pos[j] > b + 1
    <2>1. Owner(j)
      BY <1>1, <1>2, <1>5 DEF Owner
    <2>2. \E v \in vgs : v.job = j
      BY <2>1 DEF Safe, JobInv, LockOf
    <2>3. vgs' = vgs
      <3>1. Rebuild(j, s, b)
        BY DEF Ran
      <3> QED
        BY <3>1, <2>2 DEF Rebuild
    <2> QED
      BY <2>2, <2>3 DEF LockOf
  <1>6. CASE pos[j] <= b
    <2>1. ~ HasMounts(j)
      <3>1. InSetup(j)
        BY DEF Advance, RunStep, PassUnmount
      <3> QED
        BY <3>1, <1>1, <1>2, <1>6, AtMount
    <2>2. mounts' = mounts
      <3>1. pos[j] # b + 5 /\ pos[j] # b + 8 /\ pos[j] # b + 7 /\ ~ (pos[j] > m)
        BY <1>1, <1>2, <1>6
      <3> QED
        BY <3>1 DEF Ran, Remount
    <2>3. ~ HasMounts(j)'
      BY <2>1, <2>2 DEF HasMounts
    <2>4. ~ Owner(j)'
      BY <1>1, <1>2, <1>3, <1>6, <2>3
    <2> QED
      BY <2>4 DEF LockOf
  <1> QED
    BY <1>1, <1>2, <1>4, <1>5, <1>6

\* What is registered and mounted goes with the position in the plan.
LEMMA RunPositions ==
  ASSUME Safe, NEW j \in Job, Advance(j), NEW s, s = Step(j),
         NEW P, NEW b, NEW m, Ran(j, s, P, b, m)
  PROVE  PositionsOf(j)'
  <1> DEFINE p == pos[j]
             c == cfg[j]
  <1>1. /\ InSetup(j) /\ phase[j] = "setup" /\ phase' = phase /\ cfg' = cfg
        /\ pos'[j] = p + 1 /\ p \in Nat \ {0} /\ p <= Len(Plan(c, j))
    BY DEF Advance, RunStep, PassUnmount, InSetup, Safe, TypeOK
  <1>2. /\ b = Start(c, j) /\ m = Rooted(c, j) /\ b \in Nat /\ m \in Nat /\ m >= b + 5
        /\ P = Plan(c, j) /\ s = P[p] /\ Shape(c, j, P, b, m)
        /\ m = IF Btrfs(c) THEN b + 8 ELSE b + 5
    BY DEF Ran, AtStep, Shape
  <1>3. P \in Seq(Command) /\ Len(P) \in Nat
    BY <1>2 DEF Shape
  <1>4. /\ \A q \in 1..(p - 1) : P[q].op \in {"open", "create", "vgchange"} => P[q].id \in Mine(j)
        /\ p <= b + 5 => ~ HasMounts(j) /\ ~ MayMount(j)
        /\ p > m => HasMounts(j)
    BY <1>1, <1>2 DEF Safe, JobInv, PositionsOf
  <1>5. Mine(j)' = IF s.op = "umount" THEN Mine(j) \ {s.id}
                   ELSE IF s.op \in Registering THEN Mine(j) \cup {s.id} ELSE Mine(j)
    BY RunMine
  <1>6. Remount(j, s, b, m) /\ Registrable(j, s)
    BY DEF Ran
  <1> DEFINE root == AtRoot(j)
  <1>7. root.job = j
    BY DEF AtRoot
  <1>8. \/ s.op \notin {"mount", "umount"} /\ mounts' = mounts
        \/ /\ s = RootCmd("mount", MountAt("/")) /\ (p = b + 5 \/ (p = b + 8 /\ Btrfs(c)))
           /\ p = b + 5 => mounts' = <<root>>
           /\ mounts' = <<root>> \/ RootStays(j)
        \/ s = RootCmd("umount", MountAt("/")) /\ p = b + 7 /\ Btrfs(c) /\ mounts' = <<>>
        \/ s.op \in {"mount", "umount"} /\ p > m /\ RootStays(j)
        \/ s.op = "umount" /\ ((p = b + 7 /\ Btrfs(c)) \/ p > m) /\ mounts' = mounts
    BY <1>6 DEF Remount
  <1> HIDE DEF root, c, p
  <1>9. ASSUME NEW q \in 1..p, P[q].op \in {"open", "create", "vgchange"}
        PROVE  P[q].id \in Mine(j)'
    <2>1. CASE q = p
      <3>1. s.op \in Registering /\ s.op # "umount" /\ P[q].id = s.id
        BY <1>2, <1>9, <2>1 DEF Registering
      <3> QED
        BY <3>1, <1>5
    <2>2. CASE q # p
      <3>1. q \in 1..(p - 1)
        BY <1>1, <2>2
      <3>2. P[q].id \in Mine(j)
        BY <1>4, <1>9, <3>1
      <3>3. P[q].id.kind # "mount"
        <4>1. q \in 1..Len(P)
          BY <1>1, <1>2, <1>3
        <4>2. Sane(P[q])
          BY <1>2, <4>1, PlanSane DEF Ran, AtStep, c
        <4> QED
          BY <1>9, <4>2 DEF Sane
      <3>4. s.op = "umount" => s.id.kind = "mount"
        BY <1>6 DEF Registrable
      <3> QED
        BY <3>2, <3>3, <3>4, <1>5
    <2> QED
      BY <2>1, <2>2
  <1>10. p + 1 <= b + 5 => ~ HasMounts(j)' /\ ~ MayMount(j)'
    <2> HAVE p + 1 <= b + 5
    <2>1. s.op \notin {"mount", "umount"} /\ mounts' = mounts
      <3>1. p # b + 5 /\ p # b + 8 /\ p # b + 7 /\ ~ (p > m)
        BY <1>1, <1>2
      <3> QED
        BY <1>8, <3>1
    <2>2. ~ HasMounts(j) /\ ~ MayMount(j)
      BY <1>1, <1>2, <1>4
    <2>3. \A id \in Mine(j)' : id \in Mine(j) \/ (s.op \in {"open", "create", "vgchange"} /\ id = s.id)
      BY <1>5, <2>1 DEF Registering
    <2>4. s.op \in {"open", "create", "vgchange"} => s.id.kind # "mount"
      BY <1>6 DEF Registrable
    <2>5. ~ MayMount(j)'
      BY <2>2, <2>3, <2>4 DEF MayMount
    <2>6. ~ HasMounts(j)'
      BY <2>1, <2>2 DEF HasMounts
    <2> QED
      BY <2>5, <2>6
  <1>11. Btrfs(c) /\ p + 1 \in {b + 6, b + 7} => Len(mounts') = 1
    <2> SUFFICES ASSUME Btrfs(c), p + 1 \in {b + 6, b + 7} PROVE Len(mounts') = 1
      OBVIOUS
    <2>0. m = b + 8
      BY <1>2
    <2>1. CASE p = b + 5
      <3>1. s = RootCmd("mount", MountAt("/"))
        BY <1>2, <2>1 DEF Shape
      <3>2. s.op = "mount"
        BY <3>1 DEF RootCmd
      <3>3. ~ (p > m) /\ p # b + 7
        BY <1>1, <1>2, <2>1
      <3>4. mounts' = <<root>>
        BY <1>8, <2>1, <3>2, <3>3
      <3> QED
        BY <3>4
    <2>2. CASE p = b + 6
      <3>1. s = RootCmd("run", NoId)
        BY <1>2, <2>2 DEF Shape
      <3>2. s.op = "run"
        BY <3>1 DEF RootCmd
      <3>3. mounts' = mounts
        BY <3>2, <1>6 DEF Remount, RootCmd
      <3>4. Len(mounts) = 1
        BY <1>1, <1>2, <2>2 DEF Safe, JobInv, PositionsOf, p, c
      <3> QED
        BY <3>3, <3>4
    <2> QED
      BY <1>1, <1>2, <2>1, <2>2
  <1>12. RootStays(j) => HasMounts(j)'
    <2> HAVE RootStays(j)
    <2>1. mounts' # <<>>
      BY DEF RootStays
    <2>2. HostOK'
      BY StepTyped DEF Safe, TypeOK, Next, Progress, Fault, Advance
    <2>3. 1 \in DOMAIN mounts'
      BY <2>1, <2>2 DEF HostOK
    <2> QED
      BY <2>3 DEF RootStays, HasMounts
  <1>13. p + 1 > m => HasMounts(j)'
    <2> SUFFICES ASSUME p + 1 > m PROVE HasMounts(j)'
      OBVIOUS
    <2>1. CASE p = m
      <3>1. s = RootCmd("mount", MountAt("/"))
        <4>1. CASE Btrfs(c)
          <5>1. p = b + 8
            BY <1>2, <2>1, <4>1
          <5> QED
            BY <1>2, <4>1, <5>1 DEF Shape
        <4>2. CASE ~ Btrfs(c)
          <5>1. p = b + 5
            BY <1>2, <2>1, <4>2
          <5> QED
            BY <1>2, <5>1 DEF Shape
        <4> QED
          BY <4>1, <4>2
      <3>2. s.op = "mount" /\ s # RootCmd("umount", MountAt("/"))
        BY <3>1 DEF RootCmd
      <3>3. ~ (p > m)
        BY <1>1, <1>2, <2>1
      <3>4. mounts' = <<root>> \/ RootStays(j)
        BY <1>8, <3>2, <3>3
      <3>5. mounts' = <<root>> => 1 \in DOMAIN mounts' /\ mounts'[1].job = j
        BY <1>7
      <3> QED
        BY <3>4, <3>5, <1>12 DEF HasMounts
    <2>2. CASE p > m
      <3>1. HasMounts(j)
        BY <1>4, <2>2
      <3>2. p # b + 5 /\ ~ (p = b + 8 /\ Btrfs(c)) /\ ~ (p = b + 7 /\ Btrfs(c))
        BY <1>1, <1>2, <2>2
      <3>3. mounts' = mounts \/ RootStays(j)
        BY <1>8, <3>2
      <3>4. CASE mounts' = mounts
        BY <3>1, <3>4 DEF HasMounts
      <3> QED
        BY <3>3, <3>4, <1>12
    <2> QED
      BY <1>1, <1>2, <2>1, <2>2
  <1>14. cfg'[j] = c /\ b = Start(c, j) /\ m = Rooted(c, j) /\ P = Plan(c, j)
         /\ pos'[j] = p + 1 /\ phase'[j] = "setup"
    BY <1>1, <1>2 DEF c, p
  <1>15. p + 1 <= Len(P) + 1 /\ (p + 1) - 1 = p
    BY <1>1, <1>2, <1>3 DEF c
  <1>16. \A q \in 1..((p + 1) - 1) : P[q].op \in {"open", "create", "vgchange"} => P[q].id \in Mine(j)'
    BY <1>9, <1>15
  <1> QED
    BY <1>10, <1>11, <1>13, <1>14, <1>15, <1>16 DEF PositionsOf

\* What is open after it is registered.
LEMMA RunAccounted ==
  ASSUME Safe, NEW j \in Job, Advance(j), NEW s, s = Step(j),
         NEW P, NEW b, NEW m, Ran(j, s, P, b, m)
  PROVE  AccountedOf(j)'
  <1>1. /\ InSetup(j) /\ phase[j] = "setup" /\ phase' = phase /\ errors' = errors /\ pos[j] \in Nat
    BY DEF Advance, RunStep, PassUnmount, InSetup, Safe, TypeOK
  <1>2. /\ errors[j] = {}
        /\ \A d \in dev : d.job = j => d.id \in Mine(j)
        /\ HasMounts(j) => RootVg \in Mine(j)
    BY <1>1 DEF Safe, JobInv, AccountedOf, Untroubled
  <1>3. Mine(j)' = IF s.op = "umount" THEN Mine(j) \ {s.id}
                   ELSE IF s.op \in Registering THEN Mine(j) \cup {s.id} ELSE Mine(j)
    BY RunMine
  <1>4. Remount(j, s, b, m) /\ Registrable(j, s) /\ Rebuild(j, s, b)
    BY DEF Ran
  <1>5. pos[j] > b + 2 => RootVg \in Mine(j)
    <2> HAVE pos[j] > b + 2
    <2>1. /\ b \in Nat /\ P = Plan(cfg[j], j) /\ Shape(cfg[j], j, P, b, m)
      BY DEF Ran, AtStep
    <2>2. b + 2 \in 1..(pos[j] - 1)
      BY <1>1, <2>1
    <2>3. P[b + 2].op = "vgchange" /\ P[b + 2].id = RootVg
      BY <2>1 DEF Shape
    <2>4. \A n \in 1..(pos[j] - 1) : P[n].op \in {"open", "create", "vgchange"} => P[n].id \in Mine(j)
      BY <1>1, <2>1 DEF Safe, JobInv, PositionsOf
    <2> QED
      BY <2>2, <2>3, <2>4
  <1>6. ASSUME NEW d \in dev', d.job = j PROVE d.id \in Mine(j)'
    <2>1. CASE d \in dev
      <3>1. d.id \in Mine(j) /\ d.id.kind # "mount"
        BY <1>2, <1>6, <2>1 DEF Safe, TypeOK, HostOK
      <3>2. s.op = "umount" => s.id.kind = "mount"
        BY <1>4 DEF Registrable
      <3> QED
        BY <3>1, <3>2, <1>3
    <2>2. CASE s.op \in {"open", "create"} /\ d = [id |-> s.id, on |-> s.on, job |-> j]
      <3>1. s.op \in Registering /\ s.op # "umount" /\ d.id = s.id
        BY <2>2 DEF Registering
      <3> QED
        BY <3>1, <1>3
    <2>3. ASSUME s.op = "lvcreate", pos[j] > b + 2, NEW v, d = [id |-> RootVg, on |-> v.on, job |-> j]
          PROVE  d.id \in Mine(j)'
      <3>1. RootVg \in Mine(j)
        BY <1>5, <2>3
      <3>2. s.op # "umount" /\ s.op \notin Registering /\ d.id = RootVg
        BY <2>3 DEF Registering
      <3> QED
        BY <3>1, <3>2, <1>3
    <2>4. \/ d \in dev
          \/ s.op \in {"open", "create"} /\ d = [id |-> s.id, on |-> s.on, job |-> j]
          \/ s.op = "lvcreate" /\ pos[j] > b + 2 /\ \E v : d = [id |-> RootVg, on |-> v.on, job |-> j]
      BY <1>4, <1>6 DEF Rebuild
    <2> QED
      BY <2>1, <2>2, <2>3, <2>4
  <1>7. HasMounts(j)' => RootVg \in Mine(j)'
    <2> HAVE HasMounts(j)'
    <2>1. HasMounts(j) \/ pos[j] > b + 2
      <3>1. CASE mounts' = mounts
        BY <3>1 DEF HasMounts
      <3>2. CASE mounts' # mounts
        <4>1. b \in Nat /\ m \in Nat /\ m >= b + 5
          BY DEF Ran, AtStep
        <4>2. mounts' = <<>> => ~ HasMounts(j)'
          BY DEF HasMounts
        <4>3. pos[j] = b + 5 \/ pos[j] = b + 8 \/ HasMounts(j)
          BY <1>4, <3>2, <4>2 DEF Remount
        <4> QED
          BY <1>1, <4>1, <4>3
      <3> QED
        BY <3>1, <3>2
    <2>2. RootVg \in Mine(j)
      BY <2>1, <1>2, <1>5
    <2>3. s.op = "umount" => s.id # RootVg
      BY <1>4 DEF Registrable, RootVg
    <2> QED
      BY <2>2, <2>3, <1>3
  <1>8. phase'[j] = "setup" /\ errors'[j] = {}
    BY <1>1, <1>2
  <1> QED
    BY <1>6, <1>7, <1>8 DEF AccountedOf

\* Such a command keeps the job's invariant.
LEMMA RunSelf ==
  ASSUME Safe, NEW j \in Job, Advance(j)
  PROVE  HostSafe(j) /\ JobInv(j)'
  <1>1. /\ HostSafe(j)
        /\ Ran(j, Step(j), Plan(cfg[j], j), Start(cfg[j], j), Rooted(cfg[j], j))
    BY RunRan
  <1>2. RegistersOf(j)'
    BY <1>1, RunRegisters
  <1>3. LockOf(j)'
    BY <1>1, RunLock
  <1>4. PositionsOf(j)'
    BY <1>1, RunPositions
  <1>5. AccountedOf(j)'
    BY <1>1, RunAccounted
  <1> QED
    BY <1>1, <1>2, <1>3, <1>4, <1>5 DEF JobInv

-----------------------------------------------------------------------------
(* The body ends.                                                          *)

\* With the registers as they are, or with an array registered that mdadm may
\* not have created.
LEMMA LeaveSelf ==
  ASSUME Safe, NEW j \in Job, phase[j] = "setup", NEW r, NEW how, NEW id, Leave(j, r, how, id),
         r = reg[j] \/ (InSetup(j) /\ how # "completed" /\ r = RegisterEarly(reg[j], Step(j))),
         HostSafe(j), dev \subseteq dev', vgs = {} \/ vgs' = vgs,
         how = "completed" => UNCHANGED host
  PROVE  JobInv(j)'
  <1>1. /\ doc' = doc /\ cfg' = cfg /\ pos' = pos /\ errors' = errors
        /\ phase'[j] = "cleanup" /\ closing'[j] = CloseOrder(r) /\ hit'[j].how = how
    BY DEF Leave, Safe, TypeOK
  <1>2. /\ RegistersOf(j) /\ AccountedOf(j) /\ LockOf(j) /\ PositionsOf(j)
        /\ RegisterOK(reg[j]) /\ Mine(j) = Registered(reg[j])
    BY DEF Safe, JobInv, TypeOK, Mine
  <1> DEFINE s == Step(j)
             P == Plan(cfg[j], j)
             b == Start(cfg[j], j)
             m == Rooted(cfg[j], j)
  <1>3. InSetup(j) => Registrable(j, s) /\ Sane(s)
    <2> HAVE InSetup(j)
    <2>1. AtStep(j, s, P, b, m) /\ s = Step(j)
      BY StepStage DEF Safe
    <2> HIDE DEF s, P, b, m
    <2> QED
      BY <2>1, StepIds DEF AtStep
  <1> HIDE DEF s, P, b, m
  <1>4. RegisterOK(r) /\ (Registered(r) = Mine(j) \/
                          (/\ how # "completed" /\ InSetup(j) /\ s.op = "create"
                           /\ Registered(r) = Mine(j) \cup {s.id}))
    <2>1. CASE r = reg[j]
      BY <1>2, <2>1
    <2>2. CASE InSetup(j) /\ how # "completed" /\ r = RegisterEarly(reg[j], s)
      <3>1. s \in Command /\ (s.op \in Registering \cup {"umount"} => s.id \in Id)
        BY <1>3, <2>2 DEF Sane
      <3>2. /\ RegisterOK(r)
            /\ Registered(r) = IF s.op = "create" THEN Registered(reg[j]) \cup {s.id}
                               ELSE Registered(reg[j])
        BY <1>2, <2>2, <3>1, RegisterEarlyKeeps
      <3> QED
        BY <1>2, <2>2, <3>2
    <2> QED
      BY <2>1, <2>2 DEF s
  <1>5. closing'[j] \in Seq(Id) /\ Sorted(closing'[j]) /\ Mine(j)' = Registered(r)
    BY <1>1, <1>4, ClosingOrder DEF Mine
  <1>6. \A x \in Mine(j)' : x \in Mine(j) \/ (InSetup(j) /\ s.op = "create" /\ x = s.id)
    BY <1>4, <1>5
  <1>7. InSetup(j) /\ s.op = "create" =>
           /\ s.id.kind = "loop" => s.id = Loop(j)
           /\ s.id = Array("root") => IsOn(doc[j].root_vg_raid)
           /\ s.id # Crypt /\ s.id.kind # "mount"
    BY <1>3 DEF Registrable, Registering
  <1>8. RegistersOf(j)'
    <2>1. \A x \in Mine(j)' : x.kind = "loop" => x = Loop(j)
      BY <1>2, <1>6, <1>7 DEF RegistersOf
    <2>2. Array("root") \in Mine(j)' => IsOn(doc'[j].root_vg_raid)
      BY <1>1, <1>2, <1>6, <1>7 DEF RegistersOf
    <2>3. Crypt \in Mine(j)' => \E d \in dev' : d.id = Crypt /\ d.job = j
      BY <1>2, <1>6, <1>7 DEF RegistersOf
    <2> QED
      BY <1>1, <1>5, <2>1, <2>2, <2>3 DEF RegistersOf
  <1>9. MayMount(j)' => MayMount(j)
    BY <1>6, <1>7 DEF MayMount
  <1>10. Owner(j)' => Owner(j)
    <2>1. MayMount(j) => Owner(j)
      <3> HAVE MayMount(j)
      <3>1. b \in Nat /\ pos[j] \in Nat
        <4>1. doc[j] \in Doc /\ Accepted(doc[j]) /\ cfg[j] = Parse(doc[j])
          BY DocSpaceAssumption DEF Safe, TypeOK, Configured
        <4> QED
          BY <4>1, PlanShape DEF Shape, Safe, TypeOK, b
      <3>2. pos[j] > b + 5
        BY <1>2, <3>1 DEF PositionsOf, b
      <3> QED
        BY <3>1, <3>2 DEF Owner, b
    <2>2. HasMounts(j)' => Owner(j)
      BY DEF HostSafe, HostChange, HasMounts, Owner
    <2> QED
      BY <1>1, <1>9, <2>1, <2>2 DEF Owner
  <1>11. LockOf(j)'
    BY <1>2, <1>10 DEF LockOf
  <1>12. PositionsOf(j)'
    BY <1>1 DEF PositionsOf
  <1>13. AccountedOf(j)'
    <2>1. CASE how # "completed"
      <3>1. ~ Untroubled(j)'
        BY <1>1, <2>1 DEF Untroubled
      <3> QED
        BY <1>1, <3>1 DEF AccountedOf
    <2>2. CASE how = "completed"
      <3>1. Mine(j)' = Mine(j)
        BY <1>4, <1>5, <2>2
      <3>2. dev' = dev /\ mounts' = mounts
        BY <2>2 DEF host
      <3>3. /\ \A d \in dev : d.job = j => d.id \in Mine(j)
            /\ HasMounts(j) => RootVg \in Mine(j)
        BY <1>2 DEF AccountedOf, Untroubled
      <3>4. HasMounts(j)' = HasMounts(j)
        BY <3>2 DEF HasMounts
      <3> QED
        BY <1>1, <3>1, <3>2, <3>3, <3>4 DEF AccountedOf
    <2> QED
      BY <2>1, <2>2
  <1> QED
    BY <1>8, <1>11, <1>12, <1>13 DEF JobInv

\* A command is refused, fails or is interrupted.
LEMMA AbortSelf ==
  ASSUME Safe, NEW j \in Job, RefuseStep(j) \/ FailStep(j) \/ InterruptStep(j)
  PROVE  HostSafe(j) /\ JobInv(j)'
  <1>1. /\ InSetup(j) /\ phase[j] = "setup" /\ doc' = doc
        /\ \E how \in {"refused", "failed", "interrupted"} :
              Leave(j, RegisterEarly(reg[j], Step(j)), how, Step(j).id)
        /\ (Possible(Step(j)) /\ OpenOnHost(j, Step(j))) \/ UNCHANGED host
    BY DEF RefuseStep, FailStep, InterruptStep, InSetup, Leave
  <1>2. CASE UNCHANGED host
    <2>1. HostSafe(j) /\ dev \subseteq dev' /\ vgs' = vgs
      BY <1>1, <1>2, SameHost DEF host
    <2> QED
      BY <1>1, <2>1, LeaveSelf
  <1>3. CASE Possible(Step(j)) /\ OpenOnHost(j, Step(j))
    <2>1. /\ HostSafe(j)
          /\ Ran(j, Step(j), Plan(cfg[j], j), Start(cfg[j], j), Rooted(cfg[j], j))
      BY <1>1, <1>3, Running
    <2>2. dev \subseteq dev' /\ (vgs = {} \/ vgs' = vgs)
      BY <2>1 DEF Ran, Rebuild
    <2> QED
      BY <1>1, <2>1, <2>2, LeaveSelf
  <1> QED
    BY <1>1, <1>2, <1>3

\* The body ends without an error.
LEMMA DoneSelf ==
  ASSUME Safe, NEW j \in Job, SetupDone(j)
  PROVE  HostSafe(j) /\ JobInv(j)'
  <1>1. /\ phase[j] = "setup" /\ Leave(j, reg[j], "completed", NoId) /\ UNCHANGED host /\ doc' = doc
    BY DEF SetupDone, Leave
  <1>2. HostSafe(j) /\ dev \subseteq dev' /\ vgs' = vgs
    BY <1>1, SameHost DEF host
  <1> QED
    BY <1>1, <1>2, LeaveSelf

-----------------------------------------------------------------------------
(* A resource is visited.                                                  *)

\* The tail of what is to be closed: without the first, which is of the first kind.
LEMMA TailSorted ==
  ASSUME NEW s \in Seq(Id), s # <<>>, Sorted(s)
  PROVE  /\ Tail(s) \in Seq(Id) /\ Sorted(Tail(s)) /\ Range(Tail(s)) = Range(s) \ {s[1]}
         /\ \A x \in Range(s) : Rank(s[1].kind) <= Rank(x.kind)
  <1> DEFINE t == Tail(s)
  <1>1. /\ Len(s) \in Nat /\ DOMAIN s = 1..Len(s) /\ Len(s) > 0
        /\ t \in Seq(Id) /\ DOMAIN t = 1..(Len(s) - 1)
        /\ \A i \in 1..(Len(s) - 1) : t[i] = s[i + 1]
    OBVIOUS
  <1> HIDE DEF t
  <1>2. \A a, b \in DOMAIN s : a < b => s[a] # s[b] /\ Rank(s[a].kind) <= Rank(s[b].kind)
    BY DEF Sorted
  <1>3. \A i \in DOMAIN t : i + 1 \in DOMAIN s /\ 1 < i + 1 /\ t[i] = s[i + 1]
    BY <1>1
  <1>4. 1 \in DOMAIN s
    BY <1>1
  <1>5. Sorted(t)
    <2> SUFFICES ASSUME NEW a \in DOMAIN t, NEW b \in DOMAIN t, a < b
                 PROVE  t[a] # t[b] /\ Rank(t[a].kind) <= Rank(t[b].kind)
      BY DEF Sorted
    <2>1. a + 1 < b + 1 /\ a + 1 \in DOMAIN s /\ b + 1 \in DOMAIN s
      BY <1>1
    <2>2. t[a] = s[a + 1] /\ t[b] = s[b + 1]
      BY <1>3
    <2> QED
      BY <1>2, <2>1, <2>2
  <1>6. Range(t) = Range(s) \ {s[1]}
    <2>1. \A i \in DOMAIN t : t[i] \in Range(s) /\ t[i] # s[1]
      <3> TAKE i \in DOMAIN t
      <3>1. i + 1 \in DOMAIN s /\ 1 < i + 1 /\ t[i] = s[i + 1]
        BY <1>3
      <3>2. s[1] # s[i + 1]
        BY <3>1, <1>2, <1>4
      <3> QED
        BY <3>1, <3>2 DEF Range
    <2>2. \A i \in DOMAIN s : s[i] # s[1] => s[i] \in Range(t)
      <3> TAKE i \in DOMAIN s
      <3> HAVE s[i] # s[1]
      <3>1. i - 1 \in 1..(Len(s) - 1) /\ (i - 1) + 1 = i
        BY <1>1
      <3>2. t[i - 1] = s[i] /\ i - 1 \in DOMAIN t
        BY <1>1, <3>1
      <3> QED
        BY <3>2 DEF Range
    <2> QED
      BY <2>1, <2>2 DEF Range
  <1>7. ASSUME NEW x \in Range(s) PROVE Rank(s[1].kind) <= Rank(x.kind)
    <2>1. PICK i \in DOMAIN s : x = s[i]
      BY DEF Range
    <2>2. Rank(x.kind) \in Nat
      BY DEF Rank
    <2>3. CASE i = 1
      BY <2>1, <2>2, <2>3
    <2>4. CASE i # 1
      <3>1. 1 < i
        BY <1>1, <2>4
      <3> QED
        BY <3>1, <2>1, <1>2, <1>4
    <2> QED
      BY <2>3, <2>4
  <1> QED
    BY <1>1, <1>5, <1>6, <1>7 DEF t

\* Why the program takes it for closed although nothing was closed.
Passed(j, id) == UNCHANGED host /\ (id.kind = "mount" \/ (id.kind = "loop" /\ Busy(id)))

\* A visit keeps the job's invariant: what is not closed is a reason for an error, unless
\* the program can know that nothing is left of it.
LEMMA VisitSelf ==
  ASSUME Safe, NEW j \in Job, InCleanup(j), NEW id, id = Closing(j), Visit(j), HostSafe(j),
         UNCHANGED host \/ Closed(j, id),
         errors'[j] = {} => errors[j] = {} /\ (Closed(j, id) \/ Passed(j, id))
  PROVE  JobInv(j)'
  <1>1. /\ doc' = doc /\ cfg' = cfg /\ pos' = pos /\ phase' = phase /\ hit' = hit
        /\ phase[j] = "cleanup" /\ closing'[j] = Tail(closing[j])
    BY DEF Visit, InCleanup, Safe, TypeOK
  <1>2. /\ closing[j] \in Seq(Id) /\ closing[j] # <<>> /\ id = closing[j][1]
        /\ id \in Id /\ id \in Mine(j) /\ Mine(j) = Range(closing[j]) /\ Sorted(closing[j])
    BY ClosingMine
  <1>3. Mine(j)' = Range(closing'[j])
    BY <1>1 DEF Mine
  <1>4. /\ Sorted(closing'[j]) /\ Mine(j)' = Mine(j) \ {id}
        /\ \A x \in Mine(j) : Rank(id.kind) <= Rank(x.kind)
    BY <1>1, <1>2, <1>3, TailSorted
  <1>5. /\ RegistersOf(j) /\ AccountedOf(j) /\ LockOf(j)
    BY DEF Safe, JobInv
  <1>6. ASSUME NEW d \in dev, d.id # id PROVE d \in dev'
    BY <1>6 DEF Closed, host
  <1>7. dev' \subseteq dev
    BY DEF Closed, host
  <1>8. RegistersOf(j)'
    <2>1. \A x \in Mine(j)' : x.kind = "loop" => x = Loop(j)
      BY <1>4, <1>5 DEF RegistersOf
    <2>2. Array("root") \in Mine(j)' => IsOn(doc'[j].root_vg_raid)
      BY <1>1, <1>4, <1>5 DEF RegistersOf
    <2>3. Crypt \in Mine(j)' => \E d \in dev' : d.id = Crypt /\ d.job = j
      BY <1>4, <1>5, <1>6 DEF RegistersOf
    <2> QED
      BY <1>1, <1>4, <2>1, <2>2, <2>3 DEF RegistersOf
  <1>9. LockOf(j)'
    <2>1. CASE UNCHANGED host
      <3>1. vgs' = vgs /\ mounts' = mounts
        BY <2>1 DEF host
      <3>2. Owner(j)' => Owner(j)
        BY <1>1, <1>4, <3>1 DEF Owner, MayMount, HasMounts
      <3> QED
        BY <3>1, <3>2, <1>5 DEF LockOf
    <2>2. CASE id.kind = "mount" /\ Owner(j) /\ vgs' = vgs
      BY <2>2, <1>5 DEF LockOf
    <2>3. CASE /\ id.kind # "mount" /\ mounts' = mounts /\ vgs' = {v \in vgs : v.on # id}
               /\ \A d \in dev : d.on # id
      <3>1. ~ MayMount(j)'
        <4>1. \A x \in Mine(j) : x.kind # "mount"
          BY <1>4, <2>3 DEF Rank
        <4> QED
          BY <4>1, <1>4 DEF MayMount
      <3>2. Owner(j)' => HasMounts(j)
        BY <1>1, <2>3, <3>1 DEF Owner, HasMounts
      <3>3. HasMounts(j) => vgs' = vgs
        <4> HAVE HasMounts(j)
        <4>1. mounts # <<>>
          BY MountsTyped DEF HasMounts
        <4>2. \A v \in vgs : v.on # id
          BY <2>3, <4>1, GroupInUse
        <4> QED
          BY <2>3, <4>2
      <3> QED
        BY <1>5, <3>2, <3>3 DEF LockOf, Owner
    <2> QED
      BY <2>1, <2>2, <2>3 DEF Closed
  <1>10. PositionsOf(j)'
    BY <1>1 DEF PositionsOf
  <1>11. ASSUME Untroubled(j)'
         PROVE  /\ \A d \in dev' : d.job = j => d.id \in Mine(j)'
                /\ HasMounts(j)' => RootVg \in Mine(j)'
    <2>1. errors'[j] = {} /\ errors[j] = {} /\ Untroubled(j)
      BY <1>1, <1>11 DEF Untroubled
    <2>2. /\ \A d \in dev : d.job = j => d.id \in Mine(j)
          /\ HasMounts(j) => RootVg \in Mine(j)
      BY <1>5, <2>1 DEF AccountedOf
    <2>3. \A d \in dev : d.id.kind # "mount"
      BY DEF Safe, TypeOK, HostOK
    <2>4. RootVg.kind = "vg"
      BY DEF RootVg
    <2>5. CASE id.kind = "mount" /\ dev' = dev /\ mounts' = <<>>
      BY <2>5, <2>2, <2>3, <1>4 DEF HasMounts
    <2>6. CASE id.kind = "mount" /\ dev' = dev /\ HasMounts(j)
      BY <2>6, <2>2, <2>3, <2>4, <1>4
    <2>7. CASE /\ id.kind # "mount" /\ mounts' = mounts /\ dev' = {d \in dev : d.id # id}
               /\ \A i \in DOMAIN mounts : mounts[i].on # id
      <3>1. HasMounts(j)' = HasMounts(j)
        BY <2>7 DEF HasMounts
      <3>2. HasMounts(j) => id # RootVg
        <4> HAVE HasMounts(j)
        <4>1. mounts # <<>> /\ 1 \in DOMAIN mounts
          BY MountsTyped DEF HasMounts
        <4>2. mounts[1].on = RootVg
          BY <4>1 DEF Safe, MountTree
        <4> QED
          BY <2>7, <4>1, <4>2
      <3> QED
        BY <2>7, <3>1, <3>2, <2>2, <1>4
    <2>8. CASE UNCHANGED host /\ id.kind = "mount"
      <3>1. dev' = dev /\ mounts' = mounts
        BY <2>8 DEF host
      <3>2. HasMounts(j)' = HasMounts(j)
        BY <3>1 DEF HasMounts
      <3> QED
        BY <2>8, <3>1, <3>2, <2>2, <2>3, <2>4, <1>4
    <2>9. CASE id.kind = "loop" /\ Busy(id)
      <3>1. id = Loop(j) /\ Loop(j).kind = "loop"
        BY <1>2, <1>5, <2>9 DEF RegistersOf, Loop
      <3>2. \A x \in Mine(j) : x.kind = "loop"
        <4>1. Rank("loop") = 5
          BY DEF Rank
        <4>2. ASSUME NEW x \in Mine(j) PROVE x.kind = "loop"
          <5>1. 5 <= Rank(x.kind)
            BY <1>4, <2>9, <4>1
          <5>2. x.kind \in Kind
            BY <1>2, KindOfId DEF Range
          <5> QED
            BY <5>1, <5>2 DEF Rank, Kind
        <4> QED
          BY <4>2
      <3>3. \A d \in dev : d.on # id
        <4> SUFFICES ASSUME NEW d \in dev, d.on = id PROVE FALSE
          OBVIOUS
        <4>1. d.on = Loop(d.job) /\ d.on.kind = "loop"
          BY <2>9 DEF Safe, Devices
        <4>2. d.job = j
          BY <3>1, <4>1 DEF Loop
        <4>3. d.id.kind = "loop"
          BY <2>2, <3>2, <4>2
        <4>4. d.on = NoId
          BY <4>3 DEF Safe, Devices
        <4> QED
          BY <4>1, <4>4 DEF NoId
      <3>4. \A i \in DOMAIN mounts : mounts[i].on # id
        <4> SUFFICES ASSUME NEW i \in DOMAIN mounts, mounts[i].on = id PROVE FALSE
          OBVIOUS
        <4>1. mounts[i].on = Loop(mounts[i].job)
          BY <2>9 DEF Safe, MountTree
        <4>2. mounts[i].job = j
          BY <3>1, <4>1 DEF Loop
        <4>3. RootVg \in Mine(j)
          BY <2>2, <4>2 DEF HasMounts
        <4>4. RootVg.kind = "loop"
          BY <3>2, <4>3
        <4> QED
          BY <2>4, <4>4
      <3> QED
        BY <2>9, <3>3, <3>4 DEF Busy
    <2> QED
      BY <2>1, <2>5, <2>6, <2>7, <2>8, <2>9 DEF Closed, Passed
  <1>12. AccountedOf(j)'
    <2>1. phase'[j] = "cleanup"
      BY <1>1
    <2> QED
      BY <2>1, <1>11 DEF AccountedOf
  <1> QED
    BY <1>8, <1>9, <1>10, <1>12 DEF JobInv

\* Each way to visit a resource is such a visit.
LEMMA CleanupSelf ==
  ASSUME Safe, NEW j \in Job,
         \/ CloseNext(j) \/ CloseGoneMount(j) \/ CloseRefused(j) \/ CloseDeferred(j)
         \/ CloseFails(j) \/ CloseUnseen(j)
  PROVE  HostSafe(j) /\ JobInv(j)'
  <1> DEFINE id == Closing(j)
  <1>1. InCleanup(j) /\ Visit(j) /\ doc' = doc
    BY DEF CloseNext, CloseGoneMount, CloseRefused, CloseDeferred, CloseFails, CloseUnseen, Visit
  <1>2. UNCHANGED host \/ (Present(id) /\ ~ Held(id) /\ CloseOnHost(id))
    BY DEF CloseNext, CloseGoneMount, CloseRefused, CloseDeferred, CloseFails, CloseUnseen
  <1>3. /\ UNCHANGED host \/ Closed(j, id)
        /\ Present(id) /\ ~ Held(id) /\ CloseOnHost(id) => Closed(j, id)
    BY <1>1, <1>2, CloseEffect
  <1>4. HostSafe(j)
    BY <1>1, <1>3, SameHost, CloseSafe
  <1>5. errors'[j] = {} => errors[j] = {} /\ (Closed(j, id) \/ Passed(j, id))
    <2>0. errors \in [Job -> SUBSET Cause]
      BY DEF Safe, TypeOK
    <2>1. CASE CloseNext(j)
      BY <2>1, <1>3 DEF CloseNext
    <2>2. CASE CloseGoneMount(j) \/ CloseUnseen(j)
      <3>1. id.kind = "mount" /\ UNCHANGED host /\ errors' = errors
        BY <2>2 DEF CloseGoneMount, CloseUnseen
      <3> HIDE DEF id
      <3> QED
        BY <3>1 DEF Passed
    <2>3. CASE CloseRefused(j)
      <3> DEFINE x == IF Present(id) THEN "held" ELSE "absent"
      <3>1. errors' = [errors EXCEPT ![j] = @ \cup {x}]
        BY <2>3 DEF CloseRefused
      <3> HIDE DEF x
      <3>2. x \in errors'[j]
        BY <3>1, <2>0
      <3> QED
        BY <3>2
    <2>4. CASE CloseDeferred(j)
      <3>1. id.kind = "loop" /\ Held(id) /\ UNCHANGED host /\ errors' = errors
        BY <2>4 DEF CloseDeferred
      <3>2. Busy(id)
        BY <3>1 DEF Held
      <3> QED
        BY <3>1, <3>2 DEF Passed
    <2>5. CASE CloseFails(j)
      <3>1. "failed" \in errors'[j]
        BY <2>5, <2>0 DEF CloseFails
      <3> QED
        BY <3>1
    <2> QED
      BY <2>1, <2>2, <2>3, <2>4, <2>5
  <1> QED
    BY <1>1, <1>3, <1>4, <1>5, VisitSelf

-----------------------------------------------------------------------------
(* The steps that leave the host alone.                                    *)

\* A job begins with nothing open.
LEMMA LoadSelf ==
  ASSUME Safe, NEW j \in Job, LoadConfig(j)
  PROVE  HostSafe(j) /\ JobInv(j)'
  <1>1. /\ phase[j] = "parse" /\ Accepted(doc[j]) /\ cfg'[j] = Parse(doc[j]) /\ phase'[j] = "setup"
        /\ doc' = doc /\ pos' = pos /\ reg' = reg /\ errors' = errors
        /\ UNCHANGED host /\ dev' = dev /\ mounts' = mounts
    BY DEF LoadConfig, Safe, TypeOK, host
  <1>2. HostSafe(j)
    BY <1>1, SameHost
  <1>3. reg[j] = NoneRegistered /\ pos[j] = 1 /\ Clean(j) /\ errors[j] = {}
    BY <1>1 DEF Safe, JobInv, RegistersOf, PositionsOf, AccountedOf
  <1>4. Mine(j)' = {}
    BY <1>1, <1>3, NothingRegistered DEF Mine
  <1>5. (\A d \in dev' : d.job # j) /\ ~ HasMounts(j)'
    BY <1>1, <1>3 DEF Clean, OwnDevices, OwnMounts, HasMounts
  <1> DEFINE c == cfg'[j]
             P == Plan(c, j)
             b == Start(c, j)
             m == Rooted(c, j)
  <1>6. Shape(c, j, P, b, m)
    <2>1. doc[j] \in Doc
      BY DocSpaceAssumption DEF Safe, TypeOK
    <2> QED
      BY <2>1, <1>1, PlanShape
  <1> HIDE DEF c, P, b, m
  <1>7. b \in Nat /\ m \in Nat /\ m >= b + 5 /\ Len(P) \in Nat
    <2>1. P \in Seq(Command) /\ b \in Nat /\ m \in Nat /\ (m = b + 8 \/ m = b + 5)
      BY <1>6 DEF Shape
    <2> QED
      BY <2>1
  <1>8. ~ MayMount(j)'
    BY <1>4 DEF MayMount
  <1>9. pos'[j] = 1 /\ phase'[j] = "setup" /\ ~ (1 > b + 1) /\ ~ (1 > m)
        /\ 1 <= Len(P) + 1 /\ (\A q : q \notin 1..(1 - 1)) /\ 1 \notin {b + 6, b + 7}
    BY <1>1, <1>3, <1>7
  <1>10. ~ Owner(j)'
    BY <1>5, <1>9 DEF Owner, b, c
  <1>11. LockOf(j)'
    BY <1>10 DEF LockOf
  <1>12. RegistersOf(j)'
    BY <1>4, <1>9 DEF RegistersOf
  <1>13. PositionsOf(j)'
    BY <1>5, <1>8, <1>9 DEF PositionsOf, P, b, m, c
  <1>14. AccountedOf(j)'
    BY <1>1, <1>3, <1>5, <1>9 DEF AccountedOf
  <1> QED
    BY <1>2, <1>11, <1>12, <1>13, <1>14 DEF JobInv

\* The program ends, or goes on to pack the image.
LEMMA EndSelf ==
  ASSUME Safe, NEW j \in Job, NEW to \in {"pack", "done", "failed"},
         phase' = [phase EXCEPT ![j] = to],
         UNCHANGED <<doc, cfg, pos, reg, closing, errors, hit, unseen, dev, vgs, mounts>>,
         to # "failed" => Clean(j)
  PROVE  HostSafe(j) /\ JobInv(j)'
  <1>1. phase'[j] = to
    BY DEF Safe, TypeOK
  <1>2. HostSafe(j)
    BY SameHost DEF host
  <1>3. Mine(j)' = {}
    BY <1>1 DEF Mine
  <1>4. RegistersOf(j)'
    BY <1>1, <1>3 DEF RegistersOf
  <1>5. LockOf(j)'
    <2>1. Owner(j)' => Owner(j)
      BY <1>1 DEF Owner, HasMounts
    <2> QED
      BY <2>1 DEF Safe, JobInv, LockOf
  <1>6. PositionsOf(j)'
    BY <1>1 DEF PositionsOf
  <1>7. AccountedOf(j)'
    <2>1. Clean(j)' = Clean(j)
      BY DEF Clean, OwnDevices, OwnMounts
    <2>2. ~ Untroubled(j)'
      BY <1>1 DEF Untroubled
    <2> QED
      BY <1>1, <2>1, <2>2 DEF AccountedOf
  <1> QED
    BY <1>2, <1>4, <1>5, <1>6, <1>7 DEF JobInv

\* The four ways to end: only a job with nothing open goes on to pack its image.
LEMMA OutcomeSelf ==
  ASSUME Safe, NEW j \in Job, RefuseConfig(j) \/ CleanupDone(j) \/ Pack(j) \/ PackFails(j)
  PROVE  HostSafe(j) /\ JobInv(j)'
  <1>1. UNCHANGED <<doc, cfg, pos, reg, closing, errors, hit, unseen, dev, vgs, mounts>>
    BY DEF RefuseConfig, CleanupDone, Pack, PackFails, host
  <1>2. AccountedOf(j)
    BY DEF Safe, JobInv
  <1>3. CASE RefuseConfig(j) \/ PackFails(j)
    <2>1. phase' = [phase EXCEPT ![j] = "failed"]
      BY <1>3 DEF RefuseConfig, PackFails
    <2> QED
      BY <1>1, <2>1, EndSelf
  <1>4. CASE Pack(j)
    <2>1. phase' = [phase EXCEPT ![j] = "done"] /\ phase[j] = "pack"
      BY <1>4 DEF Pack
    <2>2. Clean(j)
      BY <1>2, <2>1 DEF AccountedOf
    <2> QED
      BY <1>1, <2>1, <2>2, EndSelf
  <1>5. CASE CleanupDone(j)
    <2> DEFINE to == IF hit[j].how = "completed" /\ errors[j] = {} THEN "pack" ELSE "failed"
    <2>1. phase' = [phase EXCEPT ![j] = to] /\ phase[j] = "cleanup" /\ closing[j] = <<>>
      BY <1>5 DEF CleanupDone
    <2>2. to \in {"pack", "done", "failed"}
      OBVIOUS
    <2>3. to # "failed" => Untroubled(j)
      BY <2>1 DEF Untroubled
    <2> HIDE DEF to
    <2>4. Untroubled(j) => Clean(j)
      <3> HAVE Untroubled(j)
      <3>1. Mine(j) = {}
        BY <2>1 DEF Mine, Range
      <3>2. (\A d \in dev : d.job # j) /\ ~ HasMounts(j)
        BY <1>2, <3>1 DEF AccountedOf
      <3> QED
        BY <3>2 DEF Clean, OwnDevices, OwnMounts, HasMounts
    <2> QED
      BY <1>1, <2>1, <2>2, <2>3, <2>4, EndSelf
  <1> QED
    BY <1>3, <1>4, <1>5

-----------------------------------------------------------------------------
(* The invariant.                                                          *)

\* A step of a job leaves the variables of the others alone.
LEMMA StepOfOne ==
  ASSUME TypeOK, NEW j \in Job, Progress(j) \/ Fault(j)
  PROVE  doc' = doc /\ \A k \in Job \ {j} : Untouched(k)
  <1> SUFFICES ASSUME NEW k \in Job \ {j} PROVE doc' = doc /\ Untouched(k)
    <2>1. doc' = doc
      BY DEF Progress, Fault, LoadConfig, RefuseConfig, RunStep, RefuseStep, SetupDone, CloseNext,
             CloseGoneMount, CloseRefused, CloseDeferred, CleanupDone, Pack, FailStep,
             InterruptStep, PassUnmount, CloseFails, CloseUnseen, PackFails, Leave, Visit
    <2> QED
      BY <2>1
  <1>1. CASE LoadConfig(j) \/ RefuseConfig(j) \/ CleanupDone(j) \/ Pack(j) \/ PackFails(j)
    BY <1>1 DEF LoadConfig, RefuseConfig, CleanupDone, Pack, PackFails, TypeOK, Untouched
  <1>2. CASE RunStep(j) \/ PassUnmount(j)
    BY <1>2 DEF RunStep, PassUnmount, TypeOK, Untouched
  <1>3. ASSUME NEW r, NEW how, NEW id, Leave(j, r, how, id) PROVE doc' = doc /\ Untouched(k)
    BY <1>3 DEF Leave, TypeOK, Untouched
  <1>4. CASE RefuseStep(j) \/ FailStep(j) \/ InterruptStep(j) \/ SetupDone(j)
    BY <1>3, <1>4 DEF RefuseStep, FailStep, InterruptStep, SetupDone
  <1>5. ASSUME Visit(j), reg' = reg \/ reg' = [reg EXCEPT ![j] = Drop(@, Closing(j))],
               errors' = errors \/ \E x : errors' = [errors EXCEPT ![j] = @ \cup {x}],
               unseen' = unseen \/ unseen' = [unseen EXCEPT ![j] = TRUE]
        PROVE  doc' = doc /\ Untouched(k)
    <2>1. reg'[k] = reg[k] /\ errors'[k] = errors[k] /\ unseen'[k] = unseen[k]
      BY <1>5 DEF TypeOK
    <2> QED
      BY <1>5, <2>1 DEF Visit, TypeOK, Untouched
  <1>6. CASE CloseNext(j) \/ CloseGoneMount(j) \/ CloseDeferred(j) \/ CloseUnseen(j)
    BY <1>5, <1>6 DEF CloseNext, CloseGoneMount, CloseDeferred, CloseUnseen
  <1>7. CASE CloseRefused(j)
    <2>1. \E x : errors' = [errors EXCEPT ![j] = @ \cup {x}]
      BY <1>7 DEF CloseRefused
    <2> QED
      BY <1>5, <1>7, <2>1 DEF CloseRefused
  <1>8. CASE CloseFails(j)
    <2>1. \E x : errors' = [errors EXCEPT ![j] = @ \cup {x}]
      BY <1>8 DEF CloseFails
    <2> QED
      BY <1>5, <1>8, <2>1 DEF CloseFails
  <1> QED
    BY <1>1, <1>2, <1>4, <1>6, <1>7, <1>8 DEF Progress, Fault

\* What a step of a job does to the host, and to what is known of the job.
LEMMA StepSelf ==
  ASSUME Safe, NEW j \in Job, Progress(j) \/ Fault(j)
  PROVE  HostSafe(j) /\ JobInv(j)'
  <1>1. LoadConfig(j) => HostSafe(j) /\ JobInv(j)'
    BY LoadSelf
  <1>2. RunStep(j) \/ PassUnmount(j) => HostSafe(j) /\ JobInv(j)'
    BY RunSelf DEF Advance
  <1>3. RefuseStep(j) \/ FailStep(j) \/ InterruptStep(j) => HostSafe(j) /\ JobInv(j)'
    BY AbortSelf
  <1>4. SetupDone(j) => HostSafe(j) /\ JobInv(j)'
    BY DoneSelf
  <1>5. \/ CloseNext(j) \/ CloseGoneMount(j) \/ CloseRefused(j) \/ CloseDeferred(j)
        \/ CloseFails(j) \/ CloseUnseen(j)
        => HostSafe(j) /\ JobInv(j)'
    BY CleanupSelf
  <1>6. RefuseConfig(j) \/ CleanupDone(j) \/ Pack(j) \/ PackFails(j) => HostSafe(j) /\ JobInv(j)'
    BY OutcomeSelf
  <1> QED
    BY <1>1, <1>2, <1>3, <1>4, <1>5, <1>6 DEF Progress, Fault

\* Initially nothing is open, and no job has anything registered.
THEOREM InitInv == Init => IInv
  <1> SUFFICES ASSUME Init PROVE IInv
    OBVIOUS
  <1>1. TypeOK /\ Configured
    BY InitTyped
  <1>2. dev = {} /\ vgs = {} /\ mounts = <<>> /\ DOMAIN mounts = {}
    BY DEF Init
  <1>3. Devices /\ MountTree
    BY <1>2 DEF Devices, MountTree
  <1>4. ASSUME NEW j \in Job PROVE JobInv(j)
    <2>1. phase[j] = "parse" /\ pos[j] = 1 /\ reg[j] = NoneRegistered /\ errors[j] = {}
      BY DEF Init
    <2>2. Mine(j) = {}
      BY <2>1 DEF Mine
    <2>3. ~ HasMounts(j) /\ Clean(j)
      BY <1>2 DEF HasMounts, Clean, OwnDevices, OwnMounts
    <2>4. RegistersOf(j)
      BY <2>1, <2>2 DEF RegistersOf
    <2>5. LockOf(j)
      BY <2>1, <2>3 DEF LockOf, Owner
    <2>6. PositionsOf(j)
      BY <2>1 DEF PositionsOf
    <2>7. AccountedOf(j)
      BY <2>1, <2>3 DEF AccountedOf, Untroubled
    <2> QED
      BY <2>4, <2>5, <2>6, <2>7 DEF JobInv
  <1> QED
    BY <1>1, <1>3, <1>4 DEF IInv

\* Every step keeps it: what a job does with the host leaves the other jobs what is theirs.
THEOREM StepInv == IInv /\ [Next]_vars => IInv'
  <1> SUFFICES ASSUME IInv, [Next]_vars PROVE IInv'
    OBVIOUS
  <1>1. TypeOK /\ Configured /\ TypeOK' /\ Configured'
    BY StepTyped DEF IInv
  <1>2. CASE UNCHANGED vars
    <2>1. UNCHANGED <<doc, cfg, phase, pos, reg, closing, errors, hit, unseen, dev, vgs, mounts, faults>>
      BY <1>2 DEF vars
    <2>2. OneRootArray' = OneRootArray
      BY <2>1 DEF OneRootArray
    <2>3. (Devices /\ MountTree)' = (Devices /\ MountTree)
      BY <2>1 DEF Devices, MountTree
    <2>4. \A j \in Job : Mine(j)' = Mine(j) /\ HasMounts(j)' = HasMounts(j)
      BY <2>1 DEF Mine, HasMounts
    <2>5. \A j \in Job : MayMount(j)' = MayMount(j)
      BY <2>4 DEF MayMount
    <2>6. \A j \in Job : Owner(j)' = Owner(j) /\ Untroubled(j)' = Untroubled(j) /\ Clean(j)' = Clean(j)
      BY <2>1, <2>4, <2>5 DEF Owner, Untroubled, Clean, OwnDevices, OwnMounts
    <2>7. \A j \in Job : JobInv(j) => JobInv(j)'
      BY <2>1, <2>4, <2>5, <2>6 DEF JobInv, RegistersOf, LockOf, PositionsOf, AccountedOf
    <2> QED
      BY <1>1, <2>2, <2>3, <2>7 DEF IInv
  <1>3. ASSUME NEW j \in Job, Progress(j) \/ Fault(j) PROVE IInv'
    <2>1. doc' = doc /\ \A k \in Job \ {j} : Untouched(k)
      BY <1>1, <1>3, StepOfOne
    <2>2. OneRootArray' = OneRootArray
      BY <2>1 DEF OneRootArray
    <2>3. OneRootArray => Devices' /\ MountTree' /\ \A k \in Job : JobInv(k)'
      <3> HAVE OneRootArray
      <3>1. Safe
        BY DEF Safe, IInv
      <3>2. HostSafe(j) /\ JobInv(j)'
        BY <1>3, <3>1, StepSelf
      <3>3. ASSUME NEW k \in Job, k # j PROVE JobInv(k)'
        BY <2>1, <3>1, <3>2, <3>3, Others DEF HostSafe
      <3> QED
        BY <3>2, <3>3 DEF HostSafe
    <2> QED
      BY <1>1, <2>2, <2>3 DEF IInv
  <1> QED
    BY <1>2, <1>3 DEF Next, AllEnded

\* The invariant holds in every state of every behaviour.
THEOREM Invariance == Spec => []IInv
  BY InitInv, StepInv, PTL DEF Spec

\* No two jobs ever have something mounted below the mount root that they share.
THEOREM MountRootLocked == Spec => [](OneRootArray => MountRootExclusive)
  <1>1. IInv => (OneRootArray => MountRootExclusive)
    <2> SUFFICES ASSUME IInv, OneRootArray PROVE MountRootExclusive
      OBVIOUS
    <2>1. Safe
      BY DEF Safe, IInv
    <2> QED
      BY <2>1, MountsOfOne DEF MountRootExclusive
  <1> QED
    BY <1>1, Invariance, PTL

\* An image is packed only after all that the job opened is closed.
THEOREM PackedClosed == Spec => [](OneRootArray => PackedImageIsClosed)
  <1>1. IInv => (OneRootArray => PackedImageIsClosed)
    BY DEF IInv, JobInv, AccountedOf, PackedImageIsClosed
  <1> QED
    BY <1>1, Invariance, PTL

-----------------------------------------------------------------------------
(* What a job leaves behind, and what it refuses, while no two jobs have   *)
(* an array: all boot arrays have one name, and so have all root arrays.   *)

\* No two jobs have an array for /boot.
OneBootArray == \A j, k \in Job : IsOn(doc[j].boot_raid) /\ IsOn(doc[k].boot_raid) => j = k

\* What a job does not share with others: its loop device, and the arrays, as one job has them.
MayHave(id, j) ==
    /\ id.kind = "loop" => id = Loop(j)
    /\ id = Array("boot") => IsOn(doc[j].boot_raid)
    /\ id = Array("root") => IsOn(doc[j].root_vg_raid)

\* A device is on one of the same job, which __exit__ closes later; a mount is on a device of
\* the same job, too, and never on the LUKS mapping itself.
Layers ==
    /\ \A d \in dev : /\ d.on # NoId => Rank(d.id.kind) < Rank(d.on.kind)
                      /\ MayHave(d.id, d.job) /\ MayHave(d.on, d.job)
    /\ \A i \in DOMAIN mounts : MayHave(mounts[i].on, mounts[i].job) /\ mounts[i].on # Crypt

\* What is registered is there, except the array that mdadm may not have created.
PresentOf(j) ==
    \A id \in Mine(j) :
        /\ MayHave(id, j)
        /\ id.kind = "vg" => \E v \in vgs : v.job = j
        /\ id.kind \in {"loop", "md", "luks"} =>
              \/ \E d \in OwnDevices(j) : d.id = id
              \/ /\ phase[j] = "cleanup" /\ hit[j].how # "completed"
                 /\ id = hit[j].id /\ id.kind = "md"

\* The register of the mounts lists them as they are.
Listed(r, ms) == Len(r) = Len(ms) /\ \A i \in 1..Len(ms) : r[i] = MountAt(ms[i].dir)

\* While the job is at its plan, past vgcreate, the register is true unless a umount was
\* passed over, and the plan mounts nothing where something is mounted.
MirrorOf(j) ==
    (phase[j] = "setup" /\ ~ SharedKey(cfg[j]) /\ ~ unseen[j] /\ Owner(j)) =>
        LET P == Plan(cfg[j], j)  r == reg[j]["mount"] IN
        /\ Listed(r, mounts)
        /\ \A q \in pos[j]..Len(P) :
              P[q].op = "mount" /\ P[q].id \in Range(r) => Freed(P, pos[j], q, P[q].id)

Tame(j) == ~ CloseFailed(j) /\ ~ SharedKey(cfg[j])
Cut(j) == hit[j].how = "interrupted"

\* A mount that is still to be visited, and one that stays because of an interrupt.
Kept(j, i) == MountAt(mounts[i].dir) \in Range(closing[j])
Left(j, i) == \/ MountAt(mounts[i].dir) = hit[j].id
              \/ Inside(mounts[i].dir)
              \/ ~ Visible(i, mounts[i].dir)

OneEach(j) == \A i, k \in OwnMounts(j) : mounts[i].dir = mounts[k].dir => i = k

\* The mounts that are still to be visited are the oldest ones, and come newest first.
NewestFirst(j) ==
    /\ \A a, b \in DOMAIN closing[j], i, k \in OwnMounts(j) :
          a < b /\ closing[j][a] = MountAt(mounts[i].dir) /\ closing[j][b] = MountAt(mounts[k].dir)
             => k < i
    /\ \A i, k \in OwnMounts(j) : i < k /\ Kept(j, k) => Kept(j, i)

\* A device that stays because of an interrupt: above it, all has been visited.
Stuck(j, d) == \/ d.id = hit[j].id
               \/ Busy(d.id) /\ \A y \in Range(closing[j]) : Rank(d.id.kind) <= Rank(y.kind)

\* All that the job has open is still to be visited, or stays because of an interrupt.
StackOf(j) ==
    (phase[j] = "cleanup" /\ Tame(j)) =>
        /\ OneEach(j) /\ NewestFirst(j)
        /\ \A i \in OwnMounts(j) : Kept(j, i) \/ (Cut(j) /\ Left(j, i))
        /\ \A d \in OwnDevices(j) : d.id \in Range(closing[j]) \/ (Cut(j) /\ Stuck(j, d))

\* Why something was refused.
RefusalsOf(j) ==
    /\ "held" \in errors[j] => Cut(j) \/ ~ Tame(j)
    /\ "absent" \in errors[j] => hit[j].how # "completed" /\ hit[j].id.kind = "md"

\* What the job has left on the host when the program has failed.
RestOf(j) ==
    (phase[j] = "failed" /\ Tame(j)) =>
        /\ \A i \in OwnMounts(j) : Cut(j) /\ Left(j, i)
        /\ \A d \in OwnDevices(j) : Cut(j) /\ (d.id = hit[j].id \/ Busy(d.id))

HoldingsOf(j) == PresentOf(j) /\ MirrorOf(j) /\ StackOf(j) /\ RefusalsOf(j) /\ RestOf(j)

HoldingsInv == Layers /\ \A j \in Job : HoldingsOf(j)

\* What is the job's own by its name, or as it has opened the one that there is.
Owned(id, j) ==
    /\ id \in Id /\ id.kind # "mount" /\ MayHave(id, j)
    /\ id = Crypt => \E d \in dev : d.id = Crypt /\ d.job = j
    /\ id = RootVg => \E v \in vgs : v.job = j

\* What a job has registered, and its devices, are its own.
LEMMA OwnedBy ==
  ASSUME Safe, Layers, NEW j \in Job
  PROVE  /\ \A d \in OwnDevices(j) : Owned(d.id, j)
         /\ PresentOf(j) => \A id \in Mine(j) : id \in Id /\ id.kind # "mount" => Owned(id, j)
  <1>1. ASSUME NEW d \in OwnDevices(j) PROVE Owned(d.id, j)
    <2>1. d \in dev /\ d.job = j
      BY DEF OwnDevices
    <2>2. d.id \in Id /\ d.id.kind # "mount" /\ MayHave(d.id, j)
      BY <2>1 DEF Safe, TypeOK, HostOK, Layers
    <2>3. d.id = RootVg => [on |-> d.on, job |-> d.job] \in vgs
      BY <2>1 DEF Safe, Devices
    <2> QED
      BY <2>1, <2>2, <2>3 DEF Owned
  <1>2. ASSUME PresentOf(j), NEW id \in Mine(j), id \in Id, id.kind # "mount" PROVE Owned(id, j)
    <2>1. id = Crypt => \E d \in dev : d.id = Crypt /\ d.job = j
      BY <1>2 DEF Safe, JobInv, RegistersOf
    <2>2. id = RootVg => \E v \in vgs : v.job = j
      BY <1>2 DEF PresentOf, RootVg
    <2> QED
      BY <1>2, <2>1, <2>2 DEF Owned, PresentOf
  <1> QED
    BY <1>1, <1>2

\* Of what can be there for both, two jobs have no loop device and no array.
LEMMA HaveApart ==
  ASSUME Safe, OneBootArray, NEW j \in Job, NEW k \in Job, NEW id \in Id,
         id.kind \in {"loop", "md"}, MayHave(id, j), MayHave(id, k)
  PROVE  j = k
  <1>1. CASE id.kind = "loop"
    BY <1>1 DEF MayHave, Loop
  <1>2. CASE id.kind = "md"
    <2>1. id = Array("boot") \/ id = Array("root")
      BY <1>2 DEF Id, Loop, Array, Crypt, RootVg, MountAt
    <2> QED
      BY <2>1 DEF MayHave, OneBootArray, Safe, OneRootArray
  <1> QED
    BY <1>1, <1>2

\* What is on a job's own device or volume group is of that job, and so is the device.
LEMMA OnOwned ==
  ASSUME Safe, OneBootArray, Layers, NEW j \in Job, NEW id, Owned(id, j)
  PROVE  /\ \A d \in dev : d.id = id \/ d.on = id => d.job = j
         /\ \A i \in DOMAIN mounts : mounts[i].on = id => mounts[i].job = j
  <1>1. id \in Id /\ id.kind # "mount" /\ MayHave(id, j) /\ id # NoId /\ id.kind \in Kind
    BY KindOfId DEF Owned, Kind, NoId
  <1>2. /\ \A d \in dev : d.job \in Job /\ d.id \in Id /\ d.id.kind \in Kind /\ d.id.kind # "mount"
        /\ \A i \in DOMAIN mounts : mounts[i].job \in Job
    BY MountsTyped, KindOfId DEF Safe, TypeOK, HostOK
  <1>3. CASE id.kind \in {"loop", "md"}
    BY <1>1, <1>2, <1>3, HaveApart DEF Layers
  <1>4. CASE id = Crypt
    <2>1. PICK e \in dev : e.id = Crypt /\ e.job = j
      BY <1>4 DEF Owned
    <2>2. \A d \in dev : d.id = Crypt => d.job = j
      BY <2>1 DEF Safe, Devices
    <2>3. ASSUME NEW d \in dev, d.on = Crypt PROVE d.job = j
      <3>1. Rank(d.id.kind) < Rank("luks")
        BY <1>1, <1>4, <2>3 DEF Layers, Crypt
      <3>2. d.id.kind = "vg"
        BY <1>2, <3>1 DEF Rank, Kind
      <3>3. d.id = RootVg
        BY <1>2, <3>2 DEF Id, Loop, Array, Crypt, RootVg, MountAt
      <3>4. [on |-> d.on, job |-> d.job] \in vgs
        BY <3>3 DEF Safe, Devices
      <3>5. PICK e2 \in dev : e2.id = d.on /\ e2.job = d.job
        BY <3>4 DEF Safe, Devices
      <3> QED
        BY <2>2, <2>3, <3>5
    <2> QED
      BY <1>4, <2>2, <2>3 DEF Layers
  <1>5. CASE id = RootVg
    <2>1. PICK v \in vgs : v.job = j
      BY <1>5 DEF Owned
    <2>2. ASSUME NEW d \in dev, d.id = RootVg PROVE d.job = j
      <3>1. [on |-> d.on, job |-> d.job] \in vgs
        BY <2>2 DEF Safe, Devices
      <3>2. [on |-> d.on, job |-> d.job] = v
        BY <2>1, <3>1 DEF Safe, Devices
      <3> QED
        BY <2>1, <3>2
    <2>3. ASSUME NEW d \in dev, d.on = RootVg PROVE FALSE
      <3>1. Rank(d.id.kind) < Rank("vg")
        BY <1>1, <1>5, <2>3 DEF Layers, RootVg
      <3> QED
        BY <1>2, <3>1 DEF Rank, Kind
    <2>4. ASSUME NEW i \in DOMAIN mounts PROVE mounts[i].job = j
      <3>1. mounts # <<>>
        BY <2>4, MountsTyped
      <3>2. Owner(mounts[i].job) /\ mounts[i].job \in Job
        BY <1>2, <2>4 DEF Owner, HasMounts
      <3>3. PICK w \in vgs : w.job = mounts[i].job
        BY <3>2, OwnGroup
      <3> QED
        BY <2>1, <3>3 DEF Safe, Devices
    <2> QED
      BY <1>5, <2>2, <2>3, <2>4
  <1>6. id.kind \in {"loop", "md"} \/ id = Crypt \/ id = RootVg
    BY <1>1 DEF Id, Loop, Array, Crypt, RootVg, MountAt
  <1> QED
    BY <1>3, <1>4, <1>5, <1>6

\* A job that may have mounts has all that there are; another one has none.
LEMMA MountsOwn ==
  ASSUME Safe, NEW j \in Job
  PROVE  IF Owner(j) THEN OwnMounts(j) = DOMAIN mounts ELSE OwnMounts(j) = {}
  BY OwnerMounts DEF OwnMounts, Owner, HasMounts

\* The mounts come first in the closing order, the newest one first of all.
LEMMA MountsFirst ==
  ASSUME NEW r, RegisterOK(r), NEW a \in DOMAIN CloseOrder(r), NEW b \in DOMAIN CloseOrder(r), a < b,
         NEW x \in DOMAIN r["mount"], NEW y \in DOMAIN r["mount"],
         CloseOrder(r)[a] = r["mount"][x], CloseOrder(r)[b] = r["mount"][y]
  PROVE  y < x
  <1>1. \A k \in Kind : r[k] \in Seq(Id) /\ Reverse(r[k]) \in Seq(Id) /\ Len(Reverse(r[k])) = Len(r[k])
    BY Reversed DEF RegisterOK
  <1>2. "mount" \in Kind /\ "vg" \in Kind /\ "luks" \in Kind /\ "md" \in Kind /\ "loop" \in Kind
    BY DEF Kind
  <1> DEFINE s == r["mount"]
             n == Len(s)
             w == CloseOrder(r)
             m == Reverse(s)
             t2 == m \o Reverse(r["vg"])
             t3 == t2 \o Reverse(r["luks"])
             t4 == t3 \o Reverse(r["md"])
  <1>3. s \in Seq(Id) /\ m \in Seq(Id) /\ Len(m) = n /\ n \in Nat /\ DOMAIN s = 1..n
    BY <1>1, <1>2
  <1>4. \A i \in 1..n : m[i] = s[(n - i) + 1]
    BY <1>3 DEF Reverse
  <1>5. w = t4 \o Reverse(r["loop"])
    BY DEF CloseOrder
  <1>6. t2 \in Seq(Id) /\ Parts(t2, m, Reverse(r["vg"]))
    BY <1>1, <1>2, <1>3, ConcatParts
  <1> HIDE DEF t2
  <1>7. t3 \in Seq(Id) /\ Parts(t3, t2, Reverse(r["luks"]))
    BY <1>1, <1>2, <1>6, ConcatParts
  <1> HIDE DEF t3
  <1>8. t4 \in Seq(Id) /\ Parts(t4, t3, Reverse(r["md"]))
    BY <1>1, <1>2, <1>7, ConcatParts
  <1> HIDE DEF t4
  <1>9. w \in Seq(Id) /\ Parts(w, t4, Reverse(r["loop"]))
    BY <1>1, <1>2, <1>5, <1>8, ConcatParts
  <1>10. Sorted(w)
    BY ClosingOrder
  <1> HIDE DEF w, m, s, n
  <1>11. \A i \in 1..n : i \in 1..Len(w) /\ w[i] = m[i]
    <2> TAKE i \in 1..n
    <2>1. i \in 1..Len(m)
      BY <1>3
    <2>2. i \in 1..Len(t2) /\ t2[i] = m[i]
      BY <2>1, <1>6 DEF Parts
    <2>3. i \in 1..Len(t3) /\ t3[i] = m[i]
      BY <2>2, <1>7 DEF Parts
    <2>4. i \in 1..Len(t4) /\ t4[i] = m[i]
      BY <2>3, <1>8 DEF Parts
    <2> QED
      BY <2>4, <1>9 DEF Parts
  <1>12. DOMAIN w = 1..Len(w) /\ Len(w) \in Nat
    BY <1>9
  <1>13. ASSUME NEW i \in DOMAIN w, NEW z \in 1..n, w[i] = s[z]
         PROVE  i = (n - z) + 1
    <2>1. (n - z) + 1 \in 1..n /\ (n - ((n - z) + 1)) + 1 = z
      BY <1>3
    <2>2. (n - z) + 1 \in 1..Len(w) /\ w[(n - z) + 1] = s[z]
      BY <2>1, <1>4, <1>11
    <2>3. w[i] = w[(n - z) + 1]
      BY <2>2, <1>13
    <2> QED
      BY <2>2, <2>3, <1>10, <1>12, <1>13 DEF Sorted
  <1>14. a = (n - x) + 1 /\ b = (n - y) + 1
    BY <1>3, <1>13 DEF w, s, n
  <1>15. x \in 1..n /\ y \in 1..n
    BY <1>3 DEF s, n
  <1> QED
    BY <1>3, <1>14, <1>15

\* A mount that stays still does so when an older one goes.
LEMMA LeftStays ==
  ASSUME HostOK, NEW j \in Job, hit' = hit, NEW n \in DOMAIN mounts, mounts' = RemoveAt(mounts, n),
         NEW i \in DOMAIN mounts, n < i, Left(j, i)
  PROVE  i - 1 \in DOMAIN mounts' /\ mounts'[i - 1] = mounts[i] /\ Left(j, i - 1)'
  <1>1. mounts \in Seq(Mount) /\ DOMAIN mounts = 1..Len(mounts) /\ Len(mounts) \in Nat
    BY DEF HostOK
  <1>2. /\ mounts' \in Seq(Mount) /\ Len(mounts') = Len(mounts) - 1
        /\ \A k \in 1..Len(mounts) - 1 : mounts'[k] = IF k < n THEN mounts[k] ELSE mounts[k + 1]
    <2>1. n \in 1..Len(mounts)
      BY <1>1
    <2>2. /\ RemoveAt(mounts, n) \in Seq(Mount) /\ Len(RemoveAt(mounts, n)) = Len(mounts) - 1
          /\ \A k \in 1..Len(mounts) - 1 :
                RemoveAt(mounts, n)[k] = IF k < n THEN mounts[k] ELSE mounts[k + 1]
      BY <1>1, <2>1, RemovedAt
    <2> QED
      BY <2>2
  <1>3. DOMAIN mounts' = 1..(Len(mounts) - 1)
    BY <1>1, <1>2
  <1>4. /\ \A k \in DOMAIN mounts : k > n => k - 1 \in DOMAIN mounts' /\ mounts'[k - 1] = mounts[k]
        /\ \A k \in DOMAIN mounts' : k >= n => k + 1 \in DOMAIN mounts /\ mounts'[k] = mounts[k + 1]
    BY <1>1, <1>2, <1>3
  <1>0. PICK d : d = mounts[i].dir
    OBVIOUS
  <1>5. i - 1 \in DOMAIN mounts' /\ mounts'[i - 1] = mounts[i]
    BY <1>4
  <1>6. Covers(i, d)
    BY <1>0 DEF Covers
  <1>7. /\ \A k \in DOMAIN mounts : k > n /\ Covers(k, d) => Covers(k - 1, d)'
        /\ \A k \in DOMAIN mounts' : k >= n /\ Covers(k, d)' => Covers(k + 1, d)
    BY <1>4 DEF Covers
  <1>8. CASE ~ Visible(i, d)
    <2>1. PICK k \in DOMAIN mounts : Covers(k, d) /\ ~ (k <= i)
      BY <1>6, <1>8 DEF Visible
    <2>2. k - 1 \in DOMAIN mounts' /\ Covers(k - 1, d)' /\ ~ (k - 1 <= i - 1)
      BY <2>1, <1>1, <1>4, <1>7
    <2>3. ~ Visible(i - 1, d)'
      BY <2>2 DEF Visible
    <2> QED
      BY <1>0, <1>5, <2>3 DEF Left
  <1>9. CASE Inside(d)
    <2>1. PICK p \in DOMAIN mounts, q \in DOMAIN mounts : p < q /\ Visible(p, d) /\ d \in Above[mounts[q].dir]
      BY <1>9 DEF Inside
    <2>2. i <= p
      BY <2>1, <1>6 DEF Visible
    <2>3. p > n /\ q > n /\ p - 1 < q - 1
      BY <2>1, <2>2, <1>1
    <2>4. p - 1 \in DOMAIN mounts' /\ Covers(p - 1, d)'
      BY <2>1, <2>3, <1>4, <1>7 DEF Visible
    <2>5. ASSUME NEW k \in DOMAIN mounts', Covers(k, d)' PROVE k <= p - 1
      <3>1. CASE k < n
        BY <3>1, <2>3, <1>1, <1>3
      <3>2. CASE k >= n
        <4>1. k + 1 \in DOMAIN mounts /\ Covers(k + 1, d)
          BY <3>2, <2>5, <1>4, <1>7
        <4>2. k + 1 <= p
          BY <4>1, <2>1 DEF Visible
        <4> QED
          BY <4>2, <1>1, <1>3
      <3> QED
        BY <3>1, <3>2, <1>1, <1>3
    <2>6. Visible(p - 1, d)'
      BY <2>4, <2>5 DEF Visible
    <2>7. q - 1 \in DOMAIN mounts' /\ d \in Above[mounts'[q - 1].dir]
      BY <2>1, <2>3, <1>4
    <2>8. Inside(d)'
      BY <2>3, <2>4, <2>6, <2>7 DEF Inside
    <2> QED
      BY <1>0, <1>5, <2>8 DEF Left
  <1>10. CASE MountAt(d) = hit[j].id
    BY <1>0, <1>5, <1>10 DEF Left
  <1> QED
    BY <1>0, <1>5, <1>8, <1>9, <1>10 DEF Left

\* Nothing else is mounted when one mount has gone.
LEMMA RemovedOnly ==
  ASSUME Safe, NEW n \in DOMAIN mounts, mounts' = RemoveAt(mounts, n)
  PROVE  \A i \in DOMAIN mounts' : \E k \in DOMAIN mounts : mounts'[i] = mounts[k]
  <1>1. mounts \in Seq(Mount) /\ DOMAIN mounts = 1..Len(mounts) /\ Len(mounts) \in Nat
    BY MountsTyped
  <1>2. /\ mounts' \in Seq(Mount) /\ Len(mounts') = Len(mounts) - 1
        /\ \A k \in 1..Len(mounts) - 1 : mounts'[k] = IF k < n THEN mounts[k] ELSE mounts[k + 1]
    BY <1>1, RemovedAt
  <1>3. DOMAIN mounts' = 1..(Len(mounts) - 1)
    BY <1>1, <1>2
  <1> TAKE i \in DOMAIN mounts'
  <1>4. i \in DOMAIN mounts /\ i + 1 \in DOMAIN mounts
    BY <1>1, <1>3
  <1> QED
    BY <1>2, <1>3, <1>4

\* A command that mounts or unmounts is one of a job that may.
LEMMA MountsOwner ==
  ASSUME Safe, NEW j \in Job, InSetup(j), Step(j).op \in {"mount", "umount"}
  PROVE  Owner(j)
  <1>1. PICK s, P, b, m : s = Step(j) /\ AtStep(j, s, P, b, m)
    BY StepStage DEF Safe
  <1>2. /\ Stage(cfg[j], j, s, pos[j], b, m) /\ b = Start(cfg[j], j)
        /\ b \in Nat /\ m \in Nat /\ m >= b + 5 /\ pos[j] \in Nat
    BY <1>1 DEF AtStep
  <1>3. pos[j] > b + 1
    BY <1>1, <1>2 DEF Stage, RootCmd
  <1> QED
    BY <1>2, <1>3, AtMount

\* The partitions and the arrays that a job works on are its own.
LEMMA ChoicesOwn ==
  ASSUME NEW j \in Job, NEW c, c.bootRaid = IsOn(doc[j].boot_raid),
         c.rootRaid = IsOn(doc[j].root_vg_raid)
  PROVE  /\ MayHave(BootDev(c, j), j) /\ MayHave(RaidDev(c, j), j)
         /\ MayHave(NoId, j) /\ MayHave(Loop(j), j) /\ MayHave(Crypt, j) /\ MayHave(RootVg, j)
         /\ BootDev(c, j) # Crypt
  <1>1. MayHave(NoId, j) /\ MayHave(Loop(j), j) /\ MayHave(Crypt, j) /\ MayHave(RootVg, j)
    BY DEF MayHave, NoId, Loop, Crypt, RootVg, Array
  <1>2. Loop(j) # Crypt /\ \A part : Array(part) # Crypt
    BY DEF Loop, Crypt, Array
  <1>3. MayHave(BootDev(c, j), j) /\ BootDev(c, j) # Crypt
    <2>1. CASE c.bootRaid
      <3>1. MayHave(Array("boot"), j)
        BY <2>1 DEF MayHave, Array
      <3>2. BootDev(c, j) = Array("boot")
        BY <2>1, Zenon DEF BootDev
      <3> QED
        BY <1>2, <3>1, <3>2
    <2>2. CASE ~ c.bootRaid
      <3>1. BootDev(c, j) = Loop(j)
        BY <2>2, Zenon DEF BootDev
      <3> QED
        BY <1>1, <1>2, <3>1
    <2> QED
      BY <2>1, <2>2
  <1>4. MayHave(RaidDev(c, j), j)
    <2>1. CASE c.rootRaid
      <3>1. MayHave(Array("root"), j)
        BY <2>1 DEF MayHave, Array
      <3>2. RaidDev(c, j) = Array("root")
        BY <2>1, Zenon DEF RaidDev
      <3> QED
        BY <3>1, <3>2
    <2>2. CASE ~ c.rootRaid
      <3>1. RaidDev(c, j) = Loop(j)
        BY <2>2, Zenon DEF RaidDev
      <3> QED
        BY <1>1, <3>1
    <2> QED
      BY <2>1, <2>2
  <1> QED
    BY <1>1, <1>3, <1>4

\* Devices are opened on those of the job that are closed later, and mounts, too.
LEMMA LayersOpened ==
  ASSUME Safe, Layers, NEW j \in Job, InSetup(j), doc' = doc,
         NEW s, s = Step(j), Possible(s), OpenOnHost(j, s),
         NEW P, NEW b, NEW m, Ran(j, s, P, b, m)
  PROVE  Layers' /\ vgs \subseteq vgs'
  <1>0. \A id : \A k : MayHave(id, k)' <=> MayHave(id, k)
    BY DEF MayHave
  <1>1. Rank("vg") = 2 /\ Rank("luks") = 3 /\ Rank("md") = 4 /\ Rank("loop") = 5
    BY DEF Rank
  <1>2. Rebuild(j, s, b) /\ Stage(cfg[j], j, s, pos[j], b, m)
    BY DEF Ran, AtStep
  <1>3. /\ cfg[j].bootRaid = IsOn(doc[j].boot_raid) /\ cfg[j].rootRaid = IsOn(doc[j].root_vg_raid)
    BY ParseTyped DEF Ran, AtStep
  <1>4. /\ MayHave(BootDev(cfg[j], j), j) /\ MayHave(RaidDev(cfg[j], j), j)
        /\ MayHave(NoId, j) /\ MayHave(Loop(j), j) /\ MayHave(Crypt, j) /\ MayHave(RootVg, j)
        /\ BootDev(cfg[j], j) # Crypt
    BY <1>3, ChoicesOwn
  <1> HIDE DEF Rank
  <1> DEFINE Fine(d) == /\ d.on # NoId => Rank(d.id.kind) < Rank(d.on.kind)
                        /\ MayHave(d.id, d.job) /\ MayHave(d.on, d.job)
             Sound(x) == MayHave(x.on, x.job) /\ x.on # Crypt
  <1>5. (\A d \in dev : Fine(d)) /\ \A i \in DOMAIN mounts : Sound(mounts[i])
    BY DEF Layers
  <1>6. (\A d \in dev' : d \in dev \/ Fine(d)) /\ vgs \subseteq vgs'
    <2>1. CASE s.op \notin {"open", "create", "vgcreate", "lvcreate"} /\ dev' = dev /\ vgs' = vgs
      BY <2>1
    <2>2. CASE /\ s.op \in {"open", "create"} /\ s \in Early(cfg[j], j) /\ pos[j] <= b /\ vgs' = vgs
               /\ dev' = dev \cup {[id |-> s.id, on |-> s.on, job |-> j]} /\ \A d \in dev : d.id # s.id
      <3>1. (s.on # NoId => Rank(s.id.kind) < Rank(s.on.kind)) /\ MayHave(s.id, j) /\ MayHave(s.on, j)
        <4>1. CASE s.op = "create"
          <5>1. /\ s.on = Loop(j)
                /\ \/ s.id = Array("boot") /\ cfg[j].bootRaid
                   \/ s.id = Array("root") /\ cfg[j].rootRaid
            BY <2>2, <4>1 DEF Early
          <5>2. MayHave(s.id, j)
            BY <1>3, <5>1 DEF MayHave, Array
          <5>3. Rank(s.id.kind) < Rank(s.on.kind)
            BY <1>1, <5>1 DEF Loop, Array
          <5> QED
            BY <1>4, <5>1, <5>2, <5>3
        <4>2. CASE s.op = "open"
          <5>1. \/ s.id = Loop(j) /\ s.on = NoId
                \/ s.id = Crypt /\ s.on = RaidDev(cfg[j], j)
            BY <2>2, <4>2 DEF Early
          <5>2. RaidDev(cfg[j], j) \in {Array("root"), Loop(j)}
            BY DeviceChoices
          <5>3. s.on # NoId => Rank(s.id.kind) < Rank(s.on.kind)
            BY <1>1, <5>1, <5>2 DEF Crypt, Array, Loop
          <5> QED
            BY <1>4, <5>1, <5>3
        <4> QED
          BY <2>2, <4>1, <4>2
      <3>2. Fine([id |-> s.id, on |-> s.on, job |-> j])
        BY <3>1
      <3> QED
        BY <2>2, <3>2
    <2>3. CASE s.op = "vgcreate" /\ dev' = dev /\ vgs = {}
      BY <2>3
    <2>4. ASSUME NEW v, vgs = {v}, v.job = j, vgs' = vgs,
                 dev' = dev \cup {[id |-> RootVg, on |-> v.on, job |-> j]}
          PROVE  (\A d \in dev' : d \in dev \/ Fine(d)) /\ vgs \subseteq vgs'
      <3>1. v.on \in {Loop(v.job), Array("root"), Crypt} /\ \E d \in dev : d.id = v.on /\ d.job = v.job
        BY <2>4 DEF Safe, Devices
      <3>2. Rank(RootVg.kind) < Rank(v.on.kind)
        BY <1>1, <3>1 DEF RootVg, Loop, Array, Crypt
      <3>3. MayHave(v.on, j)
        BY <1>5, <2>4, <3>1
      <3>4. Fine([id |-> RootVg, on |-> v.on, job |-> j])
        BY <1>4, <3>2, <3>3
      <3> QED
        BY <2>4, <3>4
    <2> QED
      BY <1>2, <2>1, <2>2, <2>3, <2>4 DEF Rebuild
  <1>7. \A i \in DOMAIN mounts' : Sound(mounts'[i])
    <2>1. CASE s.op = "mount"
      <3> DEFINE y == [dir |-> s.id.name, on |-> s.on, job |-> j]
      <3>1. mounts' = Append(mounts, y)
        BY <2>1 DEF OpenOnHost
      <3>2. s.on \in {NoId, RootVg, BootDev(cfg[j], j), Loop(j)}
        BY <1>2, <2>1 DEF Stage, RootCmd
      <3>3. Sound(y)
        BY <1>4, <3>2 DEF NoId, RootVg, Loop, Crypt
      <3>4. \A i \in DOMAIN mounts' : \/ i \in DOMAIN mounts /\ mounts'[i] = mounts[i]
                                      \/ mounts'[i] = y
        <4> HIDE DEF y
        <4>1. mounts \in Seq(Mount) /\ DOMAIN mounts = 1..Len(mounts) /\ Len(mounts) \in Nat
          BY MountsTyped
        <4> QED
          BY <3>1, <4>1
      <3> QED
        BY <1>5, <3>3, <3>4
    <2>2. CASE s.op = "umount"
      <3>1. PICK d \in Dir : s.id = MountAt(d)
        BY <2>2 DEF Ran, AtStep, Sane
      <3>2. s.id.name = d
        BY <3>1 DEF MountAt
      <3>3. MountPoint(d) /\ mounts' = RemoveAt(mounts, CHOOSE i \in DOMAIN mounts : Visible(i, d))
        BY <2>2, <3>2 DEF Possible, OpenOnHost
      <3>4. PICK n \in DOMAIN mounts : mounts' = RemoveAt(mounts, n)
        BY <3>3, MountPointAt DEF Safe, TypeOK
      <3> QED
        BY <1>5, <3>4, RemovedOnly
    <2>3. CASE s.op \notin {"mount", "umount"}
      BY <1>5, <2>3 DEF OpenOnHost
    <2> QED
      BY <2>1, <2>2, <2>3
  <1>8. (\A d \in dev' : Fine(d)) /\ \A i \in DOMAIN mounts' : Sound(mounts'[i])
    BY <1>5, <1>6, <1>7
  <1> QED
    BY <1>0, <1>6, <1>8 DEF Layers

\* What a command registers is there.
LEMMA RunPresent ==
  ASSUME Safe, Layers, NEW j \in Job, RunStep(j), PresentOf(j), NEW s, s = Step(j),
         NEW P, NEW b, NEW m, Ran(j, s, P, b, m)
  PROVE  PresentOf(j)'
  <1>1. phase[j] = "setup" /\ phase' = phase /\ doc' = doc /\ InSetup(j) /\ Possible(s) /\ OpenOnHost(j, s)
    BY DEF RunStep, InSetup
  <1>2. Mine(j)' \subseteq Mine(j) \cup {s.id} /\ (s.op \notin Registering => Mine(j)' \subseteq Mine(j))
    BY RunMine DEF Advance
  <1>3. dev \subseteq dev' /\ Rebuild(j, s, b) /\ Registrable(j, s) /\ vgs \subseteq vgs'
    BY <1>1, LayersOpened DEF Ran
  <1> SUFFICES ASSUME NEW id \in Mine(j)'
               PROVE  /\ MayHave(id, j)
                      /\ id.kind = "vg" => \E v \in vgs' : v.job = j
                      /\ id.kind \in {"loop", "md", "luks"} => \E d \in dev' : d.job = j /\ d.id = id
    <2>1. ASSUME NEW id, MayHave(id, j) PROVE MayHave(id, j)'
      BY <1>1, <2>1 DEF MayHave
    <2> QED
      BY <2>1 DEF PresentOf, OwnDevices
  <1>4. CASE id \in Mine(j)
    <2>1. /\ MayHave(id, j)
          /\ id.kind = "vg" => \E v \in vgs : v.job = j
          /\ id.kind \in {"loop", "md", "luks"} => \E d \in dev : d.job = j /\ d.id = id
      BY <1>1, <1>4 DEF PresentOf, OwnDevices
    <2> QED
      BY <1>3, <2>1
  <1>5. ASSUME id = s.id, s.op \in Registering PROVE MayHave(id, j)
    BY <1>3, <1>5 DEF Registrable, MayHave
  <1>6. CASE id = s.id /\ s.op \in {"open", "create"}
    <2>1. [id |-> s.id, on |-> s.on, job |-> j] \in dev'
      BY <1>3, <1>6 DEF Rebuild
    <2>2. \E d \in dev' : d.job = j /\ d.id = id
      BY <1>6, <2>1
    <2>3. s.id.kind # "vg"
      <3>1. s \in Early(cfg[j], j)
        BY <1>3, <1>6 DEF Rebuild
      <3> QED
        BY <1>6, <3>1 DEF Early, Loop, Array, Crypt
    <2> QED
      BY <1>5, <1>6, <2>2, <2>3 DEF Registering
  <1>7. CASE id = s.id /\ s.op = "vgchange"
    <2>1. /\ Stage(cfg[j], j, s, pos[j], b, m) /\ b = Start(cfg[j], j)
          /\ b \in Nat /\ m \in Nat /\ m >= b + 5 /\ pos[j] \in Nat
      BY DEF Ran, AtStep
    <2>2. pos[j] = b + 2
      BY <1>7, <2>1 DEF Stage, RootCmd
    <2>3. Owner(j)
      BY <1>1, <2>1, <2>2, AtMount
    <2>4. \E v \in vgs : v.job = j
      BY <2>3, OwnGroup
    <2>5. id.kind = "vg"
      BY <1>3, <1>7 DEF Registrable, RootVg
    <2> QED
      BY <1>3, <1>5, <1>7, <2>4, <2>5 DEF Registering
  <1>8. CASE id = s.id /\ s.op = "mount"
    <2>1. id.kind = "mount"
      BY <1>3, <1>8 DEF Registrable
    <2> QED
      BY <1>5, <1>8, <2>1 DEF Registering
  <1> QED
    BY <1>2, <1>4, <1>6, <1>7, <1>8 DEF Registering

\* What a command does to the register of the mounts.
LEMMA MountRegister ==
  ASSUME NEW r, RegisterOK(r), NEW s, Sane(s)
  PROVE  /\ RegisterEarly(r, s)["mount"] = r["mount"]
         /\ Register(r, s)["mount"] =
               IF s.op = "umount" THEN RemoveFirst(r["mount"], s.id)
               ELSE IF s.op = "mount" /\ s.id \notin Range(r["mount"]) THEN Append(r["mount"], s.id)
               ELSE r["mount"]
  <1>1. r \in [Kind -> Seq(Id)] /\ "mount" \in Kind
    BY DEF RegisterOK, Kind
  <1>2. s.op \in {"mount", "umount"} => s.id.kind = "mount"
    <2> HAVE s.op \in {"mount", "umount"}
    <2>1. PICK d \in Dir : s.id = MountAt(d)
      BY DEF Sane
    <2>2. MountAt(d).kind = "mount"
      BY DEF MountAt
    <2> QED
      BY <2>1, <2>2
  <1>3. s.op \in {"open", "create", "vgchange"} => s.id.kind # "mount"
    BY DEF Sane
  <1>4. CASE s.op = "umount"
    BY <1>1, <1>2, <1>4 DEF Register, RegisterEarly, Drop
  <1>5. CASE s.op = "mount"
    BY <1>1, <1>2, <1>5 DEF Register, RegisterEarly
  <1>6. CASE s.op \in {"open", "create", "vgchange"}
    <2>1. Register(r, s) = r \/ Register(r, s) = [r EXCEPT ![s.id.kind] = Append(@, s.id)]
      BY <1>6 DEF Register
    <2>2. Register(r, s)["mount"] = r["mount"]
      BY <1>1, <1>3, <1>6, <2>1
    <2> QED
      BY <1>6, <2>2 DEF RegisterEarly
  <1>7. CASE s.op \notin {"open", "create", "vgchange", "mount", "umount"}
    BY <1>7 DEF Register, RegisterEarly
  <1> QED
    BY <1>4, <1>5, <1>6, <1>7

\* In a list without repetitions the first place of an element is its only one.
LEMMA RemovedThere ==
  ASSUME NEW S, NEW s \in Seq(S), Distinct(s), NEW n \in 1..Len(s)
  PROVE  RemoveFirst(s, s[n]) = RemoveAt(s, n)
  <1>1. PICK e : e = s[n]
    OBVIOUS
  <1> DEFINE i == SelectInSeq(s, LAMBDA v : v = e)
  <1>2. \E k \in 1..Len(s) : s[k] = e
    BY <1>1
  <1>3. i \in 1..Len(s) /\ s[i] = e
    BY <1>2, FirstPlace
  <1>4. RemoveFirst(s, e) = RemoveAt(s, i)
    BY <1>2 DEF RemoveFirst
  <1> HIDE DEF i
  <1>5. i = n
    BY <1>1, <1>3 DEF Distinct
  <1> QED
    BY <1>1, <1>4, <1>5

\* One more mount.
LEMMA ListedMore ==
  ASSUME NEW S, NEW r \in Seq(S), NEW T, NEW ms \in Seq(T), Listed(r, ms),
         NEW x \in S, NEW y \in T, x = MountAt(y.dir)
  PROVE  Listed(Append(r, x), Append(ms, y))
  <1>1. /\ Len(Append(r, x)) = Len(r) + 1 /\ Len(Append(ms, y)) = Len(ms) + 1
        /\ Len(r) \in Nat /\ Len(ms) = Len(r)
    BY DEF Listed
  <1>2. ASSUME NEW i \in 1..(Len(r) + 1) PROVE Append(r, x)[i] = MountAt(Append(ms, y)[i].dir)
    <2>1. CASE i = Len(r) + 1
      BY <1>1, <2>1
    <2>2. CASE i # Len(r) + 1
      <3>1. i \in 1..Len(r)
        BY <1>1, <2>2
      <3>2. Append(r, x)[i] = r[i] /\ Append(ms, y)[i] = ms[i]
        BY <1>1, <3>1
      <3> QED
        BY <1>1, <3>1, <3>2 DEF Listed
    <2> QED
      BY <2>1, <2>2
  <1> QED
    BY <1>1, <1>2 DEF Listed

\* One less.
LEMMA ListedLess ==
  ASSUME NEW S, NEW r \in Seq(S), NEW T, NEW ms \in Seq(T), Listed(r, ms), NEW n \in 1..Len(ms)
  PROVE  Listed(RemoveAt(r, n), RemoveAt(ms, n))
  <1>1. Len(r) = Len(ms) /\ Len(ms) \in Nat
    BY DEF Listed
  <1>2. /\ Len(RemoveAt(r, n)) = Len(ms) - 1
        /\ \A i \in 1..Len(ms) - 1 : RemoveAt(r, n)[i] = IF i < n THEN r[i] ELSE r[i + 1]
    BY <1>1, RemovedAt
  <1>3. /\ Len(RemoveAt(ms, n)) = Len(ms) - 1
        /\ \A i \in 1..Len(ms) - 1 : RemoveAt(ms, n)[i] = IF i < n THEN ms[i] ELSE ms[i + 1]
    BY RemovedAt
  <1>4. ASSUME NEW i \in 1..(Len(ms) - 1) PROVE RemoveAt(r, n)[i] = MountAt(RemoveAt(ms, n)[i].dir)
    <2>1. i \in 1..Len(ms) /\ i + 1 \in 1..Len(ms)
      BY <1>1
    <2>2. r[i] = MountAt(ms[i].dir) /\ r[i + 1] = MountAt(ms[i + 1].dir)
      BY <2>1 DEF Listed
    <2> QED
      BY <1>2, <1>3, <2>2
  <1> QED
    BY <1>2, <1>3, <1>4 DEF Listed

\* The plan and the register, and what is listed in it.
LEMMA Mirrored ==
  ASSUME Safe, NEW j \in Job, phase[j] = "setup", ~ SharedKey(cfg[j]), ~ unseen[j], Owner(j),
         MirrorOf(j), NEW r, r = reg[j]["mount"]
  PROVE  /\ r \in Seq(Id) /\ Distinct(r) /\ Listed(r, mounts) /\ DOMAIN r = DOMAIN mounts
         /\ mounts \in Seq(Mount) /\ DOMAIN mounts = 1..Len(mounts) /\ Len(mounts) \in Nat
         /\ \A i \in DOMAIN mounts : r[i] = MountAt(mounts[i].dir)
         /\ Plan(cfg[j], j) \in Seq(Command) /\ Parted(Plan(cfg[j], j))
         /\ OneEach(j)
  <1>1. r \in Seq(Id) /\ Distinct(r)
    BY DEF Safe, TypeOK, RegisterOK, Kind
  <1>2. Listed(r, mounts)
    BY DEF MirrorOf
  <1>3. mounts \in Seq(Mount) /\ DOMAIN mounts = 1..Len(mounts) /\ Len(mounts) \in Nat
    BY MountsTyped
  <1>4. DOMAIN r = DOMAIN mounts /\ \A i \in DOMAIN mounts : r[i] = MountAt(mounts[i].dir)
    BY <1>1, <1>2, <1>3 DEF Listed
  <1>5. Plan(cfg[j], j) \in Seq(Command) /\ Parted(Plan(cfg[j], j))
    <2>1. doc[j] \in Doc /\ Accepted(doc[j]) /\ cfg[j] = Parse(doc[j])
      BY DocSpaceAssumption DEF Safe, TypeOK, Configured
    <2> QED
      BY <2>1, PlanShape, PlanParted DEF Shape
  <1>6. OneEach(j)
    BY <1>1, <1>4 DEF OneEach, OwnMounts, Distinct
  <1> QED
    BY <1>1, <1>2, <1>3, <1>4, <1>5, <1>6

\* A command that mounts makes the newest mount, at a place of its own.
LEMMA MountStep ==
  ASSUME Safe, NEW j \in Job, InSetup(j), ~ SharedKey(cfg[j]), ~ unseen[j], MirrorOf(j),
         NEW s, s = Step(j), s.op = "mount", NEW r, r = reg[j]["mount"], OpenOnHost(j, s)
  PROVE  /\ s.id \notin Range(r)
         /\ \E y : /\ y \in Mount /\ s.id = MountAt(y.dir) /\ mounts' = Append(mounts, y)
                   /\ Listed(Append(r, s.id), mounts')
  <1>0. Owner(j)
    BY MountsOwner
  <1>1. pos[j] \in 1..Len(Plan(cfg[j], j)) /\ Sane(s) /\ phase[j] = "setup" /\ s = Plan(cfg[j], j)[pos[j]]
    BY StepSane DEF Safe, InSetup, Step
  <1>2. s.id \notin Range(r)
    <2> SUFFICES ASSUME s.id \in Range(r) PROVE FALSE
      OBVIOUS
    <2>1. pos[j] \in pos[j]..Len(Plan(cfg[j], j))
      BY <1>1
    <2>2. Freed(Plan(cfg[j], j), pos[j], pos[j], s.id)
      BY <1>0, <1>1, <2>1 DEF MirrorOf
    <2> QED
      BY <1>1, <2>2 DEF Freed
  <1> DEFINE y == [dir |-> s.id.name, on |-> s.on, job |-> j]
  <1>3. mounts' = Append(mounts, y)
    BY DEF OpenOnHost
  <1>4. y \in Mount /\ s.id = MountAt(y.dir) /\ s.id \in Id
    <2>1. PICK d \in Dir : s.id = MountAt(d)
      BY <1>1 DEF Sane
    <2>2. s.on \in Id \cup {NoId}
      BY <1>1 DEF Sane, Command
    <2>3. s.id.name = d /\ s.id \in Id
      BY <2>1, Kinds DEF MountAt
    <2> QED
      BY <2>1, <2>2, <2>3 DEF Mount
  <1> HIDE DEF y
  <1>5. Listed(r, mounts) /\ r \in Seq(Id) /\ mounts \in Seq(Mount)
    BY <1>0, <1>1, Mirrored
  <1>6. Listed(Append(r, s.id), mounts')
    BY <1>3, <1>4, <1>5, ListedMore
  <1> QED
    BY <1>2, <1>3, <1>4, <1>6

\* A command that unmounts takes the mount away that is registered under its name.
LEMMA UnmountStep ==
  ASSUME Safe, NEW j \in Job, InSetup(j), ~ SharedKey(cfg[j]), ~ unseen[j], MirrorOf(j),
         NEW s, s = Step(j), s.op = "umount", NEW r, r = reg[j]["mount"], Possible(s),
         OpenOnHost(j, s)
  PROVE  \E n \in DOMAIN mounts :
            /\ s.id = MountAt(mounts[n].dir) /\ mounts' = RemoveAt(mounts, n)
            /\ Listed(RemoveFirst(r, s.id), mounts')
  <1>0. Owner(j)
    BY MountsOwner
  <1>1. PICK d \in Dir : s.id = MountAt(d) /\ s.id.name = d
    BY StepSane DEF Safe, Sane, MountAt
  <1>2. PICK n : n = CHOOSE i \in DOMAIN mounts : Visible(i, d)
    OBVIOUS
  <1>3. MountPoint(d)
    BY <1>1 DEF Possible
  <1>4. n \in DOMAIN mounts /\ mounts[n].dir = d
    BY <1>2, <1>3, MountPointAt DEF Safe, TypeOK
  <1>5. mounts' = RemoveAt(mounts, n)
    BY <1>1, <1>2 DEF OpenOnHost
  <1>6. /\ Listed(r, mounts) /\ r \in Seq(Id) /\ Distinct(r) /\ mounts \in Seq(Mount)
        /\ DOMAIN mounts = 1..Len(mounts) /\ r[n] = MountAt(d) /\ n \in 1..Len(r)
    <2>1. /\ Listed(r, mounts) /\ r \in Seq(Id) /\ Distinct(r) /\ mounts \in Seq(Mount)
          /\ DOMAIN mounts = 1..Len(mounts) /\ r[n] = MountAt(mounts[n].dir)
      BY <1>0, <1>4, Mirrored DEF InSetup
    <2> QED
      BY <1>4, <2>1 DEF Listed
  <1>7. RemoveFirst(r, s.id) = RemoveAt(r, n)
    BY <1>1, <1>6, RemovedThere
  <1>8. Listed(RemoveAt(r, n), mounts')
    BY <1>4, <1>5, <1>6, ListedLess
  <1> QED
    BY <1>1, <1>4, <1>5, <1>7, <1>8

\* While the job works through its plan the register of the mounts stays true.
LEMMA RunMirrored ==
  ASSUME Safe, NEW j \in Job, RunStep(j), Owner(j), MirrorOf(j)
  PROVE  MirrorOf(j)'
  <1>1. /\ InSetup(j) /\ phase[j] = "setup" /\ Possible(Step(j)) /\ OpenOnHost(j, Step(j))
        /\ cfg' = cfg /\ reg'[j] = Register(reg[j], Step(j)) /\ pos'[j] = pos[j] + 1
        /\ unseen' = unseen
    BY DEF RunStep, InSetup, Safe, TypeOK
  <1> SUFFICES ASSUME ~ SharedKey(cfg[j]), ~ unseen[j]
               PROVE  /\ Listed(reg'[j]["mount"], mounts')
                      /\ \A q \in pos'[j]..Len(Plan(cfg[j], j)) :
                            /\ Plan(cfg[j], j)[q].op = "mount"
                            /\ Plan(cfg[j], j)[q].id \in Range(reg'[j]["mount"])
                            => Freed(Plan(cfg[j], j), pos'[j], q, Plan(cfg[j], j)[q].id)
    BY <1>1 DEF MirrorOf
  <1>2. PICK s, P, r, p : s = Step(j) /\ P = Plan(cfg[j], j) /\ r = reg[j]["mount"] /\ p = pos[j]
    OBVIOUS
  <1>3. p \in 1..Len(P) /\ Sane(s) /\ s = P[p] /\ P \in Seq(Command)
    BY <1>1, <1>2, StepSane, Mirrored DEF Safe, Step
  <1>4. /\ r \in Seq(Id) /\ Distinct(r) /\ Listed(r, mounts) /\ Parted(P)
        /\ \A q \in p..Len(P) : P[q].op = "mount" /\ P[q].id \in Range(r) => Freed(P, p, q, P[q].id)
    BY <1>1, <1>2, Mirrored DEF MirrorOf
  <1>5. reg'[j]["mount"] = IF s.op = "umount" THEN RemoveFirst(r, s.id)
                           ELSE IF s.op = "mount" /\ s.id \notin Range(r) THEN Append(r, s.id)
                           ELSE r
    BY <1>1, <1>2, <1>3, MountRegister DEF Safe, TypeOK
  <1> SUFFICES ASSUME NEW t, t = reg'[j]["mount"]
               PROVE  /\ Listed(t, mounts')
                      /\ \A q \in (p + 1)..Len(P) :
                            P[q].op = "mount" /\ P[q].id \in Range(t) => Freed(P, p + 1, q, P[q].id)
    BY <1>1, <1>2
  \* Nothing that is still to be unmounted is unmounted by this command.
  <1>6. ASSUME NEW q \in (p + 1)..Len(P), P[q].op = "mount", P[q].id \in Range(r),
               s.op = "umount" => s.id # P[q].id
        PROVE  Freed(P, p + 1, q, P[q].id)
    <2>1. PICK x \in p..(q - 1) : P[x].op = "umount" /\ P[x].id = P[q].id
      BY <1>3, <1>4, <1>6 DEF Freed
    <2>2. x # p
      BY <1>3, <1>6, <2>1
    <2>3. x \in (p + 1)..(q - 1)
      BY <1>3, <2>1, <2>2
    <2> QED
      BY <2>1, <2>3 DEF Freed
  <1>7. CASE s.op = "mount"
    <2>1. s.id \notin Range(r) /\ Listed(Append(r, s.id), mounts')
      BY <1>1, <1>2, <1>7, MountStep
    <2>2. t = Append(r, s.id)
      BY <1>5, <1>7, <2>1
    <2>3. Range(t) \subseteq Range(r) \cup {s.id}
      <3>1. s.id \in Id
        BY <1>3, <1>7 DEF Sane, Registering
      <3> QED
        BY <1>4, <2>2, <3>1 DEF Range
    <2>4. ASSUME NEW q \in (p + 1)..Len(P), P[q].op = "mount", P[q].id \in Range(t)
          PROVE  Freed(P, p + 1, q, P[q].id)
      <3>1. CASE P[q].id \in Range(r)
        BY <1>6, <1>7, <2>4, <3>1
      <3>2. CASE P[q].id = s.id
        <4>1. p \in 1..Len(P) /\ q \in 1..Len(P) /\ p < q
          BY <1>3
        <4> QED
          BY <1>3, <1>4, <1>7, <2>4, <3>2, <4>1 DEF Parted
      <3> QED
        BY <2>3, <2>4, <3>1, <3>2
    <2> QED
      BY <2>1, <2>2, <2>4
  <1>8. CASE s.op = "umount"
    <2>1. Listed(RemoveFirst(r, s.id), mounts')
      BY <1>1, <1>2, <1>8, UnmountStep
    <2>2. t = RemoveFirst(r, s.id)
      BY <1>5, <1>8
    <2>3. Range(t) = Range(r) \ {s.id}
      BY <1>4, <2>2, RemovedFirst
    <2> QED
      BY <1>6, <2>1, <2>2, <2>3
  <1>9. CASE s.op \notin {"mount", "umount"}
    <2>1. mounts' = mounts
      BY <1>1, <1>2, <1>9 DEF OpenOnHost
    <2>2. t = r
      BY <1>5, <1>9
    <2> QED
      BY <1>4, <1>6, <1>9, <2>1, <2>2
  <1> QED
    BY <1>7, <1>8, <1>9

\* Before vgcreate nothing is mounted or registered as a mount that could be the job's.
LEMMA RunMirror ==
  ASSUME Safe, NEW j \in Job, RunStep(j), MirrorOf(j)
  PROVE  MirrorOf(j)'
  <1>1. CASE Owner(j)
    BY <1>1, RunMirrored
  <1>2. CASE ~ Owner(j)
    <2>1. /\ InSetup(j) /\ phase[j] = "setup" /\ Possible(Step(j)) /\ OpenOnHost(j, Step(j))
          /\ cfg' = cfg /\ reg'[j] = Register(reg[j], Step(j)) /\ pos'[j] = pos[j] + 1
          /\ phase' = phase /\ doc' = doc
      BY DEF RunStep, InSetup, Safe, TypeOK
    <2> SUFFICES ASSUME Owner(j)'
                 PROVE  reg'[j]["mount"] = <<>> /\ mounts' = <<>>
      <3>1. Listed(<<>>, <<>>) /\ Range(<<>>) = {}
        BY DEF Listed, Range
      <3> QED
        BY <3>1 DEF MirrorOf
    <2>2. PICK s, P, b, m : s = Step(j) /\ Ran(j, s, P, b, m)
      BY <2>1, Running
    <2>3. /\ Shape(cfg[j], j, P, b, m) /\ b = Start(cfg[j], j) /\ b \in Nat /\ pos[j] \in Nat
          /\ s = P[pos[j]] /\ Sane(s)
      BY <2>2 DEF Ran, AtStep
    <2>4. s.op \notin {"mount", "umount"}
      BY <1>2, <2>1, <2>2, MountsOwner
    <2>5. mounts' = mounts /\ reg'[j]["mount"] = reg[j]["mount"]
      BY <2>1, <2>2, <2>3, <2>4, MountRegister DEF OpenOnHost, Safe, TypeOK
    <2>6. pos[j] <= b + 1
      BY <1>2, <2>1, <2>3 DEF Owner
    <2>7. pos[j] = b + 1
      <3>1. ~ HasMounts(j)'
        BY <1>2, <2>5 DEF HasMounts, Owner
      <3>2. pos'[j] > b + 1
        BY <2>1, <2>3, <3>1 DEF Owner
      <3> QED
        BY <2>1, <2>3, <2>6, <3>2
    <2>8. vgs = {}
      <3>1. s.op = "vgcreate"
        BY <2>3, <2>7 DEF Shape
      <3> QED
        BY <2>1, <2>2, <3>1 DEF Possible
    <2>9. mounts = <<>>
      <3>1. mounts # <<>> => \E d \in dev : d.id = RootVg
        BY DEF Safe, MountTree
      <3>2. \A d \in dev : d.id = RootVg => [on |-> d.on, job |-> d.job] \in vgs
        BY DEF Safe, Devices
      <3> QED
        BY <2>8, <3>1, <3>2
    <2>10. reg[j]["mount"] = <<>>
      <3>1. ~ MayMount(j)
        BY <2>1, <2>3, <2>6, AtMount
      <3>2. reg[j]["mount"] \in Seq(Id) /\ "mount" \in Kind
        BY DEF Safe, TypeOK, RegisterOK, Kind
      <3>3. ASSUME reg[j]["mount"] # <<>> PROVE FALSE
        <4>0. 1 \in DOMAIN reg[j]["mount"]
          BY <3>2, <3>3
        <4>1. PICK x : x \in Range(reg[j]["mount"])
          BY <4>0 DEF Range
        <4>2. x \in Mine(j)
          BY <2>1, <3>2, <4>1 DEF Mine, Registered
        <4>3. x.kind = "mount"
          BY <3>2, <4>1 DEF Safe, TypeOK, RegisterOK, Range
        <4> QED
          BY <3>1, <4>2, <4>3 DEF MayMount
      <3> QED
        BY <3>3
    <2> QED
      BY <2>5, <2>9, <2>10
  <1> QED
    BY <1>1, <1>2

\* A step of the plan.
LEMMA RunHoldings ==
  ASSUME Safe, Layers, NEW j \in Job, RunStep(j), HoldingsOf(j)
  PROVE  Layers' /\ HoldingsOf(j)'
  <1>1. InSetup(j) /\ phase[j] = "setup" /\ phase' = phase /\ errors' = errors /\ doc' = doc
    BY DEF RunStep, InSetup
  <1>2. Ran(j, Step(j), Plan(cfg[j], j), Start(cfg[j], j), Rooted(cfg[j], j))
    BY <1>1, Running DEF RunStep
  <1>3. Layers'
    BY <1>1, <1>2, LayersOpened DEF RunStep
  <1>4. PresentOf(j)'
    BY <1>2, RunPresent DEF HoldingsOf
  <1>5. MirrorOf(j)'
    BY RunMirror DEF HoldingsOf
  <1>6. StackOf(j)' /\ RestOf(j)'
    BY <1>1 DEF StackOf, RestOf
  <1>7. RefusalsOf(j)'
    <2>1. errors[j] = {}
      BY <1>1 DEF Safe, JobInv, AccountedOf
    <2> QED
      BY <1>1, <2>1 DEF RefusalsOf
  <1> QED
    BY <1>3, <1>4, <1>5, <1>6, <1>7 DEF HoldingsOf

\* A umount that is passed over: what the register says of the mounts is no longer known.
LEMMA PassHoldings ==
  ASSUME Safe, Layers, NEW j \in Job, PassUnmount(j), HoldingsOf(j)
  PROVE  Layers' /\ HoldingsOf(j)'
  <1>1. /\ phase[j] = "setup" /\ phase' = phase /\ errors' = errors /\ doc' = doc /\ hit' = hit
        /\ dev' = dev /\ vgs' = vgs /\ mounts' = mounts /\ unseen'[j] = TRUE
    BY DEF PassUnmount, InSetup, host, Safe, TypeOK
  <1>2. Mine(j)' \subseteq Mine(j)
    <2>1. Step(j).op = "umount"
      BY DEF PassUnmount
    <2> QED
      BY <2>1, RunMine DEF Advance
  <1>3. \A id : MayHave(id, j)' <=> MayHave(id, j)
    BY <1>1 DEF MayHave
  <1>4. Layers'
    BY <1>1 DEF Layers, MayHave
  <1>5. PresentOf(j)'
    <2>1. PresentOf(j)
      BY DEF HoldingsOf
    <2> QED
      BY <1>1, <1>2, <1>3, <2>1 DEF PresentOf, OwnDevices
  <1>6. MirrorOf(j)' /\ StackOf(j)' /\ RestOf(j)'
    BY <1>1 DEF MirrorOf, StackOf, RestOf
  <1>7. RefusalsOf(j)'
    <2>1. errors[j] = {}
      BY <1>1 DEF Safe, JobInv, AccountedOf
    <2> QED
      BY <1>1, <2>1 DEF RefusalsOf
  <1> QED
    BY <1>4, <1>5, <1>6, <1>7 DEF HoldingsOf

\* A resource is registered with its kind.
LEMMA RegisteredThere ==
  ASSUME NEW r, RegisterOK(r), NEW id \in Registered(r)
  PROVE  id.kind \in Kind /\ id \in Range(r[id.kind])
  <1>1. PICK k \in Kind : id \in Range(r[k])
    BY DEF Registered
  <1>2. PICK i \in DOMAIN r[k] : id = r[k][i]
    BY <1>1 DEF Range
  <1>3. id.kind = k
    BY <1>2 DEF RegisterOK
  <1> QED
    BY <1>1, <1>3

\* The job's mounts after a step follow the register in order, but for the one that an
\* interrupted command made, which is the newest.
Mapped(j, f, R, how, id) ==
    /\ DOMAIN mounts' \subseteq Nat
    /\ \A i \in OwnMounts(j)' : \A k \in OwnMounts(j)' :
          (i < k => f[i] < f[k]) /\ (f[i] < f[k] => i < k)
    /\ \A i \in OwnMounts(j)' :
          \/ f[i] \in DOMAIN R /\ MountAt(mounts'[i].dir) = R[f[i]]
          \/ /\ how = "interrupted" /\ MountAt(mounts'[i].dir) = id /\ id \notin Range(R)
             /\ \A k \in OwnMounts(j)' : k <= i

\* The body ends: all that is open is registered, but for what an interrupted command made.
LEMMA LeaveStack ==
  ASSUME Safe, NEW j \in Job, NEW r, RegisterOK(r), NEW how, NEW id, Leave(j, r, how, id),
         NEW R, R = r["mount"], NEW f, Mapped(j, f, R, how, id),
         \A d \in OwnDevices(j)' : d.id \in Registered(r) \/ (how = "interrupted" /\ d.id = id)
  PROVE  StackOf(j)'
  <1>1. closing'[j] = CloseOrder(r) /\ hit'[j] = [how |-> how, id |-> id]
    BY DEF Leave, Safe, TypeOK
  <1>2. Range(CloseOrder(r)) = Registered(r)
    BY ClosingOrder
  <1>3. R \in Seq(Id) /\ Distinct(R) /\ DOMAIN R \subseteq Nat
    BY DEF RegisterOK, Kind
  <1> USE DEF Mapped
  <1>0. OwnMounts(j)' \subseteq Nat
    BY DEF OwnMounts
  <1> DEFINE in(i) == f[i] \in DOMAIN R /\ MountAt(mounts'[i].dir) = R[f[i]]
  <1>4. \A i \in OwnMounts(j)' : Kept(j, i)' <=> in(i)
    <2> TAKE i \in OwnMounts(j)'
    <2>1. Kept(j, i)' <=> MountAt(mounts'[i].dir) \in Registered(r)
      BY <1>1, <1>2 DEF Kept
    <2>2. MountAt(mounts'[i].dir) \in Registered(r) <=> MountAt(mounts'[i].dir) \in Range(R)
      <3>1. MountAt(mounts'[i].dir).kind = "mount" /\ "mount" \in Kind
        BY DEF MountAt, Kind
      <3> QED
        BY <3>1, RegisteredThere DEF Registered
    <2>3. in(i) => MountAt(mounts'[i].dir) \in Range(R)
      BY DEF Range
    <2> QED
      BY <2>1, <2>2, <2>3
  <1>5. OneEach(j)'
    <2> SUFFICES ASSUME NEW i \in OwnMounts(j)', NEW k \in OwnMounts(j)', mounts'[i].dir = mounts'[k].dir
                 PROVE  i = k
      BY DEF OneEach
    <2>1. CASE in(i) /\ in(k)
      <3>1. f[i] = f[k]
        BY <1>3, <2>1 DEF Distinct
      <3>2. ~ (i < k) /\ ~ (k < i)
        BY <1>3, <2>1, <3>1
      <3> QED
        BY <1>0, <3>2
    <2>2. CASE ~ in(i) /\ ~ in(k)
      <3>1. i <= k /\ k <= i
        BY <2>2
      <3> QED
        BY <1>0, <3>1
    <2>3. CASE in(i) /\ ~ in(k)
      BY <2>3 DEF Range
    <2>4. CASE ~ in(i) /\ in(k)
      BY <2>4 DEF Range
    <2> QED
      BY <2>1, <2>2, <2>3, <2>4
  <1>6. NewestFirst(j)'
    <2>1. ASSUME NEW a \in DOMAIN closing'[j], NEW b \in DOMAIN closing'[j],
                 NEW i \in OwnMounts(j)', NEW k \in OwnMounts(j)', a < b,
                 closing'[j][a] = MountAt(mounts'[i].dir), closing'[j][b] = MountAt(mounts'[k].dir)
          PROVE  k < i
      <3>1. in(i) /\ in(k)
        <4>1. Kept(j, i)' /\ Kept(j, k)'
          BY <2>1 DEF Kept, Range
        <4> QED
          BY <1>4, <4>1
      <3>2. f[k] < f[i]
        BY <1>1, <2>1, <3>1, MountsFirst
      <3> QED
        BY <3>2
    <2>2. ASSUME NEW i \in OwnMounts(j)', NEW k \in OwnMounts(j)', i < k, Kept(j, k)'
          PROVE  Kept(j, i)'
      <3>1. ~ (k <= i)
        BY <1>0, <2>2
      <3>2. in(i)
        BY <3>1
      <3> QED
        BY <1>4, <3>2
    <2> QED
      BY <2>1, <2>2 DEF NewestFirst
  <1>7. \A i \in OwnMounts(j)' : Kept(j, i)' \/ (Cut(j)' /\ Left(j, i)')
    BY <1>1, <1>4 DEF Cut, Left
  <1>8. \A d \in OwnDevices(j)' : d.id \in Range(closing'[j]) \/ (Cut(j)' /\ Stuck(j, d)')
    BY <1>1, <1>2 DEF Cut, Stuck
  <1> QED
    BY <1>5, <1>6, <1>7, <1>8 DEF StackOf

\* How the body of the "with" ends: completed, or by a command.
Ends(j, r, how, id) ==
    \/ how = "completed" /\ r = reg[j] /\ UNCHANGED host
    \/ /\ InSetup(j) /\ how # "completed" /\ r = RegisterEarly(reg[j], Step(j)) /\ id = Step(j).id
       /\ \/ UNCHANGED host
          \/ how = "interrupted" /\ Possible(Step(j)) /\ OpenOnHost(j, Step(j))

\* What is registered then: an array that is about to be created, too.
LEMMA LeaveRegisters ==
  ASSUME Safe, NEW j \in Job, phase[j] = "setup", NEW r, NEW how, NEW id, Ends(j, r, how, id)
  PROVE  /\ RegisterOK(r) /\ r["mount"] = reg[j]["mount"]
         /\ \/ Registered(r) = Mine(j)
            \/ /\ Registered(r) = Mine(j) \cup {id} /\ how # "completed" /\ id.kind = "md"
               /\ MayHave(id, j)
  <1>1. RegisterOK(reg[j]) /\ Mine(j) = Registered(reg[j])
    BY DEF Safe, TypeOK, Mine
  <1>2. CASE r = reg[j]
    BY <1>1, <1>2
  <1>3. CASE InSetup(j) /\ how # "completed" /\ r = RegisterEarly(reg[j], Step(j)) /\ id = Step(j).id
    <2>1. PICK s : s = Step(j)
      OBVIOUS
    <2>2. Sane(s)
      BY <1>3, <2>1, StepSane DEF Safe
    <2>3. s \in Command /\ (s.op \in Registering \cup {"umount"} => s.id \in Id)
      BY <2>2 DEF Sane
    <2>4. /\ RegisterOK(r)
          /\ Registered(r) = IF s.op = "create" THEN Registered(reg[j]) \cup {s.id}
                             ELSE Registered(reg[j])
      BY <1>1, <1>3, <2>1, <2>3, RegisterEarlyKeeps
    <2>5. r["mount"] = reg[j]["mount"]
      BY <1>1, <1>3, <2>1, <2>2, MountRegister
    <2>6. s.op = "create" => s.id.kind = "md" /\ MayHave(s.id, j)
      <3> HAVE s.op = "create"
      <3>1. AtStep(j, s, Plan(cfg[j], j), Start(cfg[j], j), Rooted(cfg[j], j))
        BY <1>3, <2>1, StepStage DEF Safe
      <3>2. s \in Early(cfg[j], j)
        BY <3>1 DEF AtStep, Stage, RootCmd
      <3>3. Registrable(j, s)
        BY <1>3, <2>1, <3>1, StepIds
      <3>4. MayHave(s.id, j)
        BY <3>3 DEF Registrable, Registering, MayHave
      <3> QED
        BY <3>2, <3>4 DEF Early, Array
    <2> QED
      BY <1>1, <1>3, <2>1, <2>4, <2>5, <2>6
  <1> QED
    BY <1>2, <1>3 DEF Ends

\* What is open then: what was, and what an interrupted command made.
LEMMA LeaveDevices ==
  ASSUME Safe, Layers, NEW j \in Job, phase[j] = "setup", NEW r, NEW how, NEW id,
         Ends(j, r, how, id), doc' = doc
  PROVE  /\ Layers' /\ dev \subseteq dev' /\ vgs \subseteq vgs'
         /\ \A d \in dev' : d \in dev \/ (how = "interrupted" /\ d.id = id)
  <1>1. CASE UNCHANGED host
    BY <1>1 DEF host, Layers, MayHave
  <1>2. CASE /\ InSetup(j) /\ id = Step(j).id
             /\ how = "interrupted" /\ Possible(Step(j)) /\ OpenOnHost(j, Step(j))
    <2>1. PICK s, P, b, m : s = Step(j) /\ Ran(j, s, P, b, m)
      BY <1>2, Running
    <2>2. Layers' /\ dev \subseteq dev' /\ vgs \subseteq vgs'
      BY <1>2, <2>1, LayersOpened DEF Ran
    <2>3. \A d \in dev' : d \in dev \/ d.id = s.id
      <3>1. Rebuild(j, s, b) /\ Stage(cfg[j], j, s, pos[j], b, m)
        BY <2>1 DEF Ran, AtStep
      <3>2. s.op = "lvcreate" => s.id = RootVg
        BY <3>1 DEF Stage, RootCmd
      <3> QED
        BY <3>1, <3>2 DEF Rebuild
    <2> QED
      BY <1>2, <2>1, <2>2, <2>3
  <1> QED
    BY <1>1, <1>2 DEF Ends

\* The mounts then: those that are registered, without the one that an interrupted command
\* took away, or with the one that it made as the newest.
LEMMA LeaveMounts ==
  ASSUME Safe, Layers, NEW j \in Job, phase[j] = "setup", NEW r, NEW how, NEW id,
         MirrorOf(j), Ends(j, r, how, id), Leave(j, r, how, id)
  PROVE  StackOf(j)'
  <1>1. /\ doc' = doc /\ cfg' = cfg /\ closing'[j] = CloseOrder(r) /\ unseen' = unseen
    BY DEF Leave, Safe, TypeOK
  <1>2. CASE SharedKey(cfg[j]) \/ unseen[j]
    BY <1>1, <1>2 DEF StackOf, Tame, CloseFailed
  <1>3. CASE ~ SharedKey(cfg[j]) /\ ~ unseen[j]
    <2>1. PICK R : R = r["mount"]
      OBVIOUS
    <2>2. RegisterOK(r) /\ R = reg[j]["mount"] /\ Mine(j) \subseteq Registered(r)
      BY <2>1, LeaveRegisters
    <2>3. \A d \in OwnDevices(j)' : d.id \in Registered(r) \/ (how = "interrupted" /\ d.id = id)
      <3>1. \A d \in dev' : d \in dev \/ (how = "interrupted" /\ d.id = id)
        BY <1>1, LeaveDevices
      <3>2. \A d \in dev : d.job = j => d.id \in Mine(j)
        BY DEF Safe, JobInv, AccountedOf, Untroubled
      <3> QED
        BY <2>2, <3>1, <3>2 DEF OwnDevices
    <2>9. OwnMounts(j)' \subseteq DOMAIN mounts'
      BY DEF OwnMounts
    <2>5. ASSUME NEW f, Mapped(j, f, R, how, id) PROVE StackOf(j)'
      BY <2>1, <2>2, <2>3, <2>5, LeaveStack
    <2>8. UNCHANGED host => mounts' = mounts
      BY DEF host
    <2>10. CASE Owner(j)
      <3>4. /\ R \in Seq(Id) /\ DOMAIN R = DOMAIN mounts
            /\ mounts \in Seq(Mount) /\ DOMAIN mounts = 1..Len(mounts) /\ Len(mounts) \in Nat
            /\ \A i \in DOMAIN mounts : R[i] = MountAt(mounts[i].dir)
        BY <1>3, <2>2, <2>10, Mirrored
      <3>6. ASSUME mounts' = mounts PROVE StackOf(j)'
        <4>1. Mapped(j, [i \in Nat |-> i], R, how, id)
          BY <2>9, <3>4, <3>6 DEF Mapped
        <4> QED
          BY <2>5, <4>1
      <3>7. ASSUME InSetup(j), id = Step(j).id, how = "interrupted", Possible(Step(j)), OpenOnHost(j, Step(j))
            PROVE  StackOf(j)'
        <4>1. PICK s : s = Step(j)
          OBVIOUS
        <4>2. CASE s.op = "mount"
          <5>1. PICK y : /\ id \notin Range(R) /\ y \in Mount /\ id = MountAt(y.dir)
                         /\ mounts' = Append(mounts, y)
            BY <1>3, <2>2, <3>7, <4>1, <4>2, MountStep
          <5>2. DOMAIN mounts' = 1..(Len(mounts) + 1)
            BY <3>4, <5>1
          <5>3. /\ \A i \in DOMAIN mounts : mounts'[i] = mounts[i]
                /\ mounts'[Len(mounts) + 1] = y
            BY <3>4, <5>1
          <5>4. Mapped(j, [i \in Nat |-> i], R, how, id)
            <6>1. \A i \in DOMAIN mounts' : i \in Nat /\ (i \in DOMAIN mounts \/ i = Len(mounts) + 1)
                                            /\ i <= Len(mounts) + 1
              BY <3>4, <5>2
            <6> QED
              BY <2>9, <3>4, <3>7, <5>1, <5>3, <6>1 DEF Mapped
          <5> QED
            BY <2>5, <5>4
        <4>3. CASE s.op = "umount"
          <5>1. PICK n \in DOMAIN mounts : mounts' = RemoveAt(mounts, n)
            BY <1>3, <2>2, <3>7, <4>1, <4>3, UnmountStep
          <5>2. /\ mounts' \in Seq(Mount) /\ Len(mounts') = Len(mounts) - 1
                /\ \A i \in 1..Len(mounts) - 1 : mounts'[i] = IF i < n THEN mounts[i] ELSE mounts[i + 1]
            BY <3>4, <5>1, RemovedAt
          <5>3. DOMAIN mounts' = 1..(Len(mounts) - 1)
            BY <3>4, <5>2
          <5> DEFINE f == [i \in Nat |-> IF i < n THEN i ELSE i + 1]
          <5>6. \A i \in DOMAIN mounts' : i \in Nat /\ f[i] = IF i < n THEN i ELSE i + 1
            BY <3>4, <5>3
          <5> HIDE DEF f
          <5>4. \A i \in DOMAIN mounts' : f[i] \in DOMAIN mounts /\ mounts'[i] = mounts[f[i]]
            BY <3>4, <5>2, <5>3, <5>6
          <5>5. \A i \in DOMAIN mounts' : \A k \in DOMAIN mounts' :
                   (i < k => f[i] < f[k]) /\ (f[i] < f[k] => i < k)
            BY <3>4, <5>6
          <5>7. Mapped(j, f, R, how, id)
            BY <2>9, <3>4, <5>4, <5>5, <5>6 DEF Mapped
          <5> QED
            BY <2>5, <5>7
        <4>4. CASE s.op \notin {"mount", "umount"}
          <5>1. mounts' = mounts
            BY <3>7, <4>1, <4>4 DEF OpenOnHost
          <5> QED
            BY <3>6, <5>1
        <4> QED
          BY <4>2, <4>3, <4>4
      <3> QED
        BY <2>8, <3>6, <3>7 DEF Ends
    <2>11. CASE ~ Owner(j)
      <3>1. mounts' = mounts
        BY <2>8, <2>11, MountsOwner DEF Ends, OpenOnHost
      <3>2. OwnMounts(j)' = {} /\ DOMAIN mounts' \subseteq Nat
        BY <2>11, <3>1, MountsOwn, MountsTyped DEF OwnMounts
      <3>3. Mapped(j, [i \in Nat |-> i], R, how, id)
        BY <3>2 DEF Mapped
      <3> QED
        BY <2>5, <3>3
    <2> QED
      BY <2>10, <2>11
  <1> QED
    BY <1>2, <1>3

\* The body ends, and closing begins.
LEMMA LeaveHoldings ==
  ASSUME Safe, Layers, NEW j \in Job, phase[j] = "setup", HoldingsOf(j), NEW r, NEW how, NEW id,
         Ends(j, r, how, id), Leave(j, r, how, id)
  PROVE  Layers' /\ HoldingsOf(j)'
  <1>1. /\ doc' = doc /\ errors' = errors /\ phase'[j] = "cleanup" /\ closing'[j] = CloseOrder(r)
        /\ hit'[j] = [how |-> how, id |-> id]
    BY DEF Leave, Safe, TypeOK
  <1>2. Layers' /\ dev \subseteq dev' /\ vgs \subseteq vgs'
    BY <1>1, LeaveDevices
  <1>3. StackOf(j)'
    BY LeaveMounts DEF HoldingsOf
  <1>4. MirrorOf(j)' /\ RestOf(j)'
    BY <1>1 DEF MirrorOf, RestOf
  <1>5. RefusalsOf(j)'
    <2>1. errors[j] = {}
      BY DEF Safe, JobInv, AccountedOf
    <2> QED
      BY <1>1, <2>1 DEF RefusalsOf
  <1>6. PresentOf(j)'
    <2>1. /\ RegisterOK(r)
          /\ \A x \in Registered(r) :
                x \in Mine(j) \/ (x = id /\ how # "completed" /\ id.kind = "md" /\ MayHave(id, j))
      BY LeaveRegisters
    <2>2. Mine(j)' = Registered(r)
      BY <1>1, <2>1, ClosingOrder DEF Mine
    <2> SUFFICES ASSUME NEW x \in Mine(j)'
                 PROVE  /\ MayHave(x, j)
                        /\ x.kind = "vg" => \E v \in vgs' : v.job = j
                        /\ x.kind \in {"loop", "md", "luks"} =>
                              \/ \E d \in dev' : d.job = j /\ d.id = x
                              \/ how # "completed" /\ x = id /\ x.kind = "md"
      <3>1. ASSUME NEW x, MayHave(x, j) PROVE MayHave(x, j)'
        BY <1>1, <3>1 DEF MayHave
      <3> QED
        BY <1>1, <3>1 DEF PresentOf, OwnDevices
    <2>3. CASE x \in Mine(j)
      <3>1. /\ MayHave(x, j)
            /\ x.kind = "vg" => \E v \in vgs : v.job = j
            /\ x.kind \in {"loop", "md", "luks"} => \E d \in dev : d.job = j /\ d.id = x
        BY <2>3 DEF HoldingsOf, PresentOf, OwnDevices
      <3> QED
        BY <1>2, <3>1
    <2>4. CASE x = id /\ how # "completed" /\ id.kind = "md" /\ MayHave(id, j)
      BY <2>4
    <2> QED
      BY <2>1, <2>2, <2>3, <2>4
  <1> QED
    BY <1>2, <1>3, <1>4, <1>5, <1>6 DEF HoldingsOf

\* What is visited next, and what then remains.
LEMMA Visited ==
  ASSUME Safe, NEW j \in Job, InCleanup(j), Visit(j), NEW id, id = Closing(j)
  PROVE  /\ id \in Id /\ id \in Mine(j) /\ id.kind \in Kind
         /\ 1 \in DOMAIN closing[j] /\ closing[j][1] = id /\ DOMAIN closing[j] \subseteq Nat \ {0}
         /\ Mine(j) = Range(closing[j]) /\ Mine(j)' = Range(closing'[j])
         /\ Range(closing'[j]) = Range(closing[j]) \ {id}
         /\ \A x \in Range(closing[j]) : Rank(id.kind) <= Rank(x.kind)
         /\ \A a \in DOMAIN closing'[j] :
               a \in Nat /\ a + 1 \in DOMAIN closing[j] /\ closing'[j][a] = closing[j][a + 1]
         /\ phase'[j] = phase[j] /\ cfg'[j] = cfg[j] /\ hit' = hit
  <1>1. /\ closing[j] \in Seq(Id) /\ closing[j] # <<>> /\ id = closing[j][1] /\ id \in Id
        /\ id \in Mine(j) /\ Mine(j) = Range(closing[j]) /\ Sorted(closing[j]) /\ 1 \in DOMAIN closing[j]
    BY ClosingMine
  <1>2. /\ closing'[j] = Tail(closing[j]) /\ phase' = phase /\ cfg' = cfg /\ hit' = hit
        /\ phase[j] = "cleanup"
    BY DEF Visit, InCleanup, Safe, TypeOK
  <1>3. Mine(j)' = Range(closing'[j])
    BY <1>2 DEF Mine
  <1>4. /\ Range(closing'[j]) = Range(closing[j]) \ {id}
        /\ \A x \in Range(closing[j]) : Rank(id.kind) <= Rank(x.kind)
    BY <1>1, <1>2, TailSorted
  <1>5. \A a \in DOMAIN closing'[j] :
           a \in Nat /\ a + 1 \in DOMAIN closing[j] /\ closing'[j][a] = closing[j][a + 1]
    <2>1. DOMAIN closing'[j] = 1..(Len(closing[j]) - 1) /\ DOMAIN closing[j] = 1..Len(closing[j])
          /\ Len(closing[j]) \in Nat
      BY <1>1, <1>2
    <2>2. \A a \in 1..(Len(closing[j]) - 1) : Tail(closing[j])[a] = closing[j][a + 1]
      BY <1>1
    <2> QED
      BY <1>2, <2>1, <2>2
  <1>6. id.kind \in Kind /\ DOMAIN closing[j] \subseteq Nat \ {0}
    BY <1>1, KindOfId
  <1> QED
    BY <1>1, <1>2, <1>3, <1>4, <1>5, <1>6

\* Mounts come first.
LEMMA MountRank ==
  /\ \A k \in Kind : Rank(k) <= 1 <=> k = "mount"
  /\ \A d : MountAt(d).kind = "mount" /\ Rank(MountAt(d).kind) = 1
  /\ \A k \in Kind : Rank(k) \in Nat
  /\ \A d, e : MountAt(d) = MountAt(e) => d = e
  BY DEF Kind, Rank, MountAt

\* The resource that is visited next is held by nothing that is still to be visited.
LEMMA HeadFree ==
  ASSUME Safe, OneBootArray, Layers, NEW j \in Job, InCleanup(j), Visit(j), PresentOf(j), StackOf(j),
         Tame(j), ~ Cut(j), NEW id, id = Closing(j)
  PROVE  /\ id.kind # "mount" => ~ Busy(id)
         /\ \A i \in DOMAIN mounts : id = MountAt(mounts[i].dir) =>
               Visible(i, mounts[i].dir) /\ ~ Inside(mounts[i].dir)
  <1> DEFINE s == closing[j]
  <1>1. /\ OneEach(j) /\ NewestFirst(j)
        /\ \A i \in OwnMounts(j) : MountAt(mounts[i].dir) \in Range(s)
        /\ \A d \in OwnDevices(j) : d.id \in Range(s)
    BY DEF StackOf, InCleanup, Kept
  <1>2. /\ id \in Id /\ id.kind \in Kind /\ 1 \in DOMAIN s /\ s[1] = id /\ DOMAIN s \subseteq Nat \ {0}
        /\ \A x \in Range(s) : Rank(id.kind) <= Rank(x.kind)
        /\ id \in Mine(j)
    BY Visited
  <1>3. DOMAIN mounts \subseteq Nat
    BY MountsTyped
  <1> HIDE DEF s
  <1>4. ASSUME id.kind # "mount", Busy(id) PROVE FALSE
    <2>0. Owned(id, j)
      BY <1>2, <1>4, OwnedBy
    <2>1. ASSUME NEW i \in DOMAIN mounts, mounts[i].on = id PROVE FALSE
      <3>1. i \in OwnMounts(j)
        BY <2>0, <2>1, OnOwned DEF OwnMounts
      <3>2. Rank(id.kind) <= 1
        BY <1>1, <1>2, <3>1, MountRank
      <3> QED
        BY <1>2, <1>4, <3>2, MountRank
    <2>2. PICK d \in dev : d.on = id
      BY <1>4, <2>1 DEF Busy
    <2>3. id # NoId
      BY <1>2 DEF Kind, NoId
    <2>4. d \in OwnDevices(j)
      BY <2>0, <2>2, OnOwned DEF OwnDevices
    <2>5. Rank(d.id.kind) < Rank(id.kind) /\ Rank(id.kind) <= Rank(d.id.kind)
      BY <1>1, <1>2, <2>2, <2>3, <2>4 DEF Layers
    <2>6. d.id.kind \in Kind
      BY <2>2, KindOfId DEF Safe, TypeOK, HostOK
    <2> QED
      BY <1>2, <2>5, <2>6, MountRank
  <1>5. ASSUME NEW i \in DOMAIN mounts, id = MountAt(mounts[i].dir)
        PROVE  Visible(i, mounts[i].dir) /\ ~ Inside(mounts[i].dir)
    <2>0. OwnMounts(j) = DOMAIN mounts
      <3>1. Owner(j)
        BY <1>2, <1>5, MountRank DEF Owner, MayMount, InCleanup
      <3> QED
        BY <3>1, MountsOwn
    <2>1. \A k \in DOMAIN mounts : k <= i
      <3> SUFFICES ASSUME NEW k \in DOMAIN mounts, k # i PROVE k <= i
        BY <1>3
      <3>1. PICK b \in DOMAIN s : s[b] = MountAt(mounts[k].dir)
        BY <1>1, <2>0 DEF Range
      <3>2. MountAt(mounts[k].dir) # MountAt(mounts[i].dir)
        BY <1>1, <2>0, MountRank DEF OneEach
      <3>3. 1 < b
        BY <1>2, <1>5, <3>1, <3>2
      <3>4. k < i
        BY <1>1, <1>2, <1>5, <2>0, <3>1, <3>3 DEF NewestFirst, s
      <3> QED
        BY <1>3, <3>4
    <2>2. Visible(i, mounts[i].dir)
      BY <2>1 DEF Visible, Covers
    <2>3. ~ Inside(mounts[i].dir)
      <3> SUFFICES ASSUME NEW p \in DOMAIN mounts, NEW q \in DOMAIN mounts, p < q,
                          Visible(p, mounts[i].dir)
                   PROVE  FALSE
        BY DEF Inside
      <3>1. i <= p
        BY DEF Visible, Covers
      <3>2. q <= i
        BY <2>1
      <3> QED
        BY <1>3, <3>1, <3>2
    <2> QED
      BY <2>2, <2>3
  <1> QED
    BY <1>4, <1>5

\* What is still to be visited is still there after a visit.
LEMMA VisitPresent ==
  ASSUME Safe, Layers, NEW j \in Job, InCleanup(j), Visit(j), PresentOf(j), NEW id, id = Closing(j),
         UNCHANGED host \/ (Present(id) /\ CloseOnHost(id))
  PROVE  Layers' /\ PresentOf(j)'
  <1>1. /\ id \in Id /\ id.kind \in Kind /\ Mine(j)' = Mine(j) \ {id}
        /\ \A x \in Mine(j) : Rank(id.kind) <= Rank(x.kind)
        /\ phase'[j] = phase[j] /\ hit' = hit
    BY Visited
  <1>0. doc' = doc
    BY DEF Visit
  <1>2. dev' \subseteq dev /\ \A d \in dev : d.id # id => d \in dev'
    BY DEF host, CloseOnHost
  <1>3. Layers'
    <2>1. \A i \in DOMAIN mounts' : \E k \in DOMAIN mounts : mounts'[i] = mounts[k]
      <3>1. CASE mounts' = mounts
        BY <3>1
      <3>2. CASE id.kind = "mount" /\ Present(id) /\ CloseOnHost(id)
        <4>1. PICK d \in Dir : id.name = d
          BY <1>1, <3>2, MountId
        <4>2. MountPoint(d) /\ mounts' = RemoveAt(mounts, CHOOSE i \in DOMAIN mounts : Visible(i, d))
          BY <3>2, <4>1 DEF Present, CloseOnHost
        <4>3. PICK n \in DOMAIN mounts : mounts' = RemoveAt(mounts, n)
          BY <4>2, MountPointAt DEF Safe, TypeOK
        <4> QED
          BY <4>3, RemovedOnly
      <3>3. mounts' = mounts \/ (id.kind = "mount" /\ Present(id) /\ CloseOnHost(id))
        BY DEF host, CloseOnHost
      <3> QED
        BY <3>1, <3>2, <3>3
    <2>2. \A x : \A l : MayHave(x, l)' <=> MayHave(x, l)
      BY <1>0 DEF MayHave
    <2>3. \A i \in DOMAIN mounts' :
             MayHave(mounts'[i].on, mounts'[i].job) /\ mounts'[i].on # Crypt
      BY <2>1 DEF Layers
    <2>4. \A d \in dev' : /\ d.on # NoId => Rank(d.id.kind) < Rank(d.on.kind)
                          /\ MayHave(d.id, d.job) /\ MayHave(d.on, d.job)
      BY <1>2 DEF Layers
    <2> QED
      BY <2>2, <2>3, <2>4 DEF Layers
  <1> SUFFICES ASSUME NEW x \in Mine(j)'
               PROVE  /\ MayHave(x, j)
                      /\ x.kind = "vg" => \E v \in vgs' : v.job = j
                      /\ x.kind \in {"loop", "md", "luks"} =>
                            \/ \E d \in dev' : d.job = j /\ d.id = x
                            \/ /\ phase[j] = "cleanup" /\ hit[j].how # "completed"
                               /\ x = hit[j].id /\ x.kind = "md"
    <2>1. ASSUME NEW x, MayHave(x, j) PROVE MayHave(x, j)'
      BY <1>0, <2>1 DEF MayHave
    <2> QED
      BY <1>1, <1>3, <2>1 DEF PresentOf, OwnDevices
  <1>4. x \in Mine(j) /\ x # id /\ MayHave(x, j)
    BY <1>1 DEF PresentOf
  <1>5. ASSUME x.kind = "vg" PROVE \E v \in vgs' : v.job = j
    <2>1. \E v \in vgs : v.job = j
      BY <1>4, <1>5 DEF PresentOf
    <2>2. \/ id.kind = "mount"
          \/ id.kind = "vg"
      <3>1. Rank(id.kind) <= 2
        BY <1>1, <1>4, <1>5 DEF Rank
      <3> QED
        BY <1>1, <3>1 DEF Rank, Kind
    <2>3. CASE id.kind = "mount"
      BY <2>1, <2>3 DEF host, CloseOnHost
    <2>4. CASE id.kind = "vg"
      <3>1. x \in Id
        BY <1>4, Visited, ClosingMine DEF Range
      <3>2. \A y \in Id : y.kind = "vg" => y = RootVg
        BY DEF Id, Loop, Array, Crypt, MountAt
      <3> QED
        BY <1>1, <1>4, <1>5, <2>4, <3>1, <3>2
    <2> QED
      BY <2>2, <2>3, <2>4
  <1>6. ASSUME x.kind \in {"loop", "md", "luks"}
        PROVE  \/ \E d \in dev' : d.job = j /\ d.id = x
               \/ phase[j] = "cleanup" /\ hit[j].how # "completed" /\ x = hit[j].id /\ x.kind = "md"
    <2>1. \/ \E d \in dev : d.job = j /\ d.id = x
          \/ phase[j] = "cleanup" /\ hit[j].how # "completed" /\ x = hit[j].id /\ x.kind = "md"
      BY <1>4, <1>6 DEF PresentOf, OwnDevices
    <2> QED
      BY <1>2, <1>4, <2>1
  <1> QED
    BY <1>4, <1>5, <1>6

\* After a mount is closed.
LEMMA UnmountedStack ==
  ASSUME Safe, NEW j \in Job, InCleanup(j), Visit(j), StackOf(j), Tame(j), NEW id, id = Closing(j),
         id.kind = "mount", Present(id), CloseOnHost(id)
  PROVE  StackOf(j)'
  <1> DEFINE s == closing[j]
             t == closing'[j]
  <1>0. Owner(j) /\ OwnMounts(j) = DOMAIN mounts
    <2>1. Owner(j)
      BY Visited DEF Owner, MayMount, InCleanup
    <2> QED
      BY <2>1, MountsOwn
  <1>1. /\ OneEach(j) /\ NewestFirst(j)
        /\ \A i \in DOMAIN mounts : Kept(j, i) \/ (Cut(j) /\ Left(j, i))
        /\ \A d \in OwnDevices(j) : d.id \in Range(s) \/ (Cut(j) /\ Stuck(j, d))
    BY <1>0 DEF StackOf, InCleanup
  <1>2. /\ id \in Id /\ 1 \in DOMAIN s /\ s[1] = id /\ DOMAIN s \subseteq Nat \ {0}
        /\ Range(t) = Range(s) \ {id} /\ id \in Range(s)
        /\ \A a \in DOMAIN t : a \in Nat /\ a + 1 \in DOMAIN s /\ t[a] = s[a + 1]
        /\ phase'[j] = phase[j] /\ cfg'[j] = cfg[j] /\ hit' = hit
    BY Visited DEF Range
  <1>3. PICK d \in Dir : id = MountAt(d) /\ id.name = d
    BY <1>2, MountId
  <1>4. PICK n : n = CHOOSE i \in DOMAIN mounts : Visible(i, d)
    OBVIOUS
  <1>5. n \in DOMAIN mounts /\ mounts[n].dir = d
    <2>1. MountPoint(d)
      BY <1>3 DEF Present
    <2> QED
      BY <1>4, <2>1, MountPointAt DEF Safe, TypeOK
  <1>6. mounts' = RemoveAt(mounts, n) /\ dev' = dev
    BY <1>3, <1>4 DEF CloseOnHost
  <1>7. mounts \in Seq(Mount) /\ DOMAIN mounts = 1..Len(mounts) /\ Len(mounts) \in Nat
    BY MountsTyped
  <1> DEFINE at(i) == IF i < n THEN i ELSE i + 1
  <1>8. \A i \in DOMAIN mounts' : /\ i \in Nat /\ at(i) \in DOMAIN mounts /\ at(i) # n
                                  /\ mounts'[i] = mounts[at(i)]
    <2>1. /\ mounts' \in Seq(Mount) /\ Len(mounts') = Len(mounts) - 1
          /\ \A i \in 1..Len(mounts) - 1 : mounts'[i] = IF i < n THEN mounts[i] ELSE mounts[i + 1]
      BY <1>5, <1>6, <1>7, RemovedAt
    <2>2. DOMAIN mounts' = 1..(Len(mounts) - 1)
      BY <1>7, <2>1
    <2> QED
      BY <1>5, <1>7, <2>1, <2>2
  <1>18. OwnMounts(j)' = DOMAIN mounts' /\ OwnDevices(j)' = OwnDevices(j)
    BY <1>0, <1>6, <1>8 DEF OwnMounts, OwnDevices
  <1>9. \A i \in DOMAIN mounts' : \A k \in DOMAIN mounts' :
           /\ at(i) < at(k) <=> i < k
           /\ at(i) = at(k) => i = k
    BY <1>5, <1>7, <1>8
  <1>10. \A i \in DOMAIN mounts' : at(i) > n <=> ~ (i < n)
    BY <1>5, <1>7, <1>8
  <1> HIDE DEF at
  <1>11. \A i \in DOMAIN mounts' : Kept(j, i)' <=> Kept(j, at(i))
    <2> TAKE i \in DOMAIN mounts'
    <2>1. mounts[at(i)].dir # d
      BY <1>0, <1>1, <1>5, <1>8 DEF OneEach
    <2>2. MountAt(mounts'[i].dir) # id
      BY <1>3, <1>8, <2>1, MountRank
    <2> QED
      BY <1>2, <1>8, <2>2 DEF Kept
  <1> HIDE DEF s, t
  <1>12. \A k \in DOMAIN mounts : k > n => ~ Kept(j, k)
    <2> SUFFICES ASSUME NEW k \in DOMAIN mounts, k > n, Kept(j, k) PROVE FALSE
      OBVIOUS
    <2>1. PICK b \in DOMAIN s : s[b] = MountAt(mounts[k].dir)
      BY DEF Kept, Range, s
    <2>2. mounts[k].dir # d
      BY <1>0, <1>1, <1>5, <1>7 DEF OneEach
    <2>3. 1 < b
      BY <1>2, <1>3, <2>1, <2>2, MountRank
    <2>4. k < n
      BY <1>0, <1>1, <1>2, <1>3, <1>5, <2>1, <2>3 DEF NewestFirst, s
    <2> QED
      BY <1>5, <1>7, <2>4
  <1>13. \A i \in DOMAIN mounts : i < n => Kept(j, i)
    <2>1. Kept(j, n)
      BY <1>2, <1>3, <1>5 DEF Kept, s
    <2> QED
      BY <1>0, <1>1, <1>5, <2>1 DEF NewestFirst
  <1>14. \A i \in DOMAIN mounts' : Kept(j, i)' \/ (Cut(j)' /\ Left(j, i)')
    <2> TAKE i \in DOMAIN mounts'
    <2>1. CASE i < n
      <3>1. at(i) = i
        BY <2>1 DEF at
      <3> QED
        BY <1>8, <1>11, <1>13, <2>1, <3>1
    <2>2. CASE ~ (i < n)
      <3>1. at(i) > n /\ at(i) = i + 1 /\ i \in Nat
        BY <1>8, <1>10, <2>2 DEF at
      <3>2. PICK k : k = at(i)
        OBVIOUS
      <3>3. k \in DOMAIN mounts /\ n < k /\ i = k - 1
        BY <1>5, <1>7, <1>8, <3>1, <3>2
      <3>4. Cut(j) /\ Left(j, k)
        BY <1>1, <1>12, <3>1, <3>2, <3>3
      <3>5. Left(j, k - 1)'
        BY <1>2, <1>5, <1>6, <3>3, <3>4, LeftStays DEF Safe, TypeOK
      <3> QED
        BY <1>2, <3>3, <3>4, <3>5 DEF Cut
    <2> QED
      BY <2>1, <2>2
  <1>15. OneEach(j)'
    BY <1>0, <1>1, <1>8, <1>9, <1>18 DEF OneEach
  <1>16. NewestFirst(j)'
    <2>1. ASSUME NEW a \in DOMAIN t, NEW b \in DOMAIN t,
                 NEW i \in DOMAIN mounts', NEW k \in DOMAIN mounts', a < b,
                 t[a] = MountAt(mounts'[i].dir), t[b] = MountAt(mounts'[k].dir)
          PROVE  k < i
      <3>1. /\ a + 1 \in DOMAIN s /\ b + 1 \in DOMAIN s /\ a + 1 < b + 1
            /\ s[a + 1] = MountAt(mounts[at(i)].dir) /\ s[b + 1] = MountAt(mounts[at(k)].dir)
        BY <1>2, <1>8, <2>1
      <3>2. at(k) < at(i)
        BY <1>0, <1>1, <1>8, <3>1 DEF NewestFirst, s
      <3> QED
        BY <1>9, <3>2
    <2>2. ASSUME NEW i \in DOMAIN mounts', NEW k \in DOMAIN mounts', i < k, Kept(j, k)'
          PROVE  Kept(j, i)'
      <3>1. at(i) < at(k) /\ Kept(j, at(k))
        BY <1>9, <1>11, <2>2
      <3>2. Kept(j, at(i))
        BY <1>0, <1>1, <1>8, <3>1 DEF NewestFirst
      <3> QED
        BY <1>11, <3>2
    <2> QED
      BY <1>18, <2>1, <2>2 DEF NewestFirst, t
  <1>17. \A e \in OwnDevices(j)' : e.id \in Range(t) \/ (Cut(j)' /\ Stuck(j, e)')
    <2> SUFFICES ASSUME NEW e \in OwnDevices(j)
                 PROVE  e.id \in Range(t) \/ (Cut(j)' /\ Stuck(j, e)')
      BY <1>18
    <2>1. e.id.kind \in Kind /\ e.id.kind # "mount"
      BY KindOfId DEF Safe, TypeOK, HostOK, OwnDevices
    <2>2. e.id \in Range(s) => e.id \in Range(t)
      BY <1>2, <2>1
    <2>3. Stuck(j, e) => e.id = hit[j].id
      <3>1. ~ (Rank(e.id.kind) <= Rank(id.kind))
        BY <1>3, <2>1, MountRank
      <3> QED
        BY <1>2, <3>1 DEF Stuck, s
    <2> QED
      BY <1>1, <1>2, <2>2, <2>3 DEF Cut, Stuck
  <1> QED
    BY <1>14, <1>15, <1>16, <1>17, <1>18 DEF StackOf, t

\* After another resource is closed.
LEMMA ClosedStack ==
  ASSUME Safe, Layers, NEW j \in Job, InCleanup(j), Visit(j), StackOf(j), Tame(j),
         NEW id, id = Closing(j), id.kind # "mount", CloseOnHost(id)
  PROVE  StackOf(j)'
  <1> DEFINE s == closing[j]
             t == closing'[j]
  <1>1. /\ OneEach(j) /\ NewestFirst(j)
        /\ \A i \in OwnMounts(j) : Kept(j, i) \/ (Cut(j) /\ Left(j, i))
        /\ \A d \in OwnDevices(j) : d.id \in Range(s) \/ (Cut(j) /\ Stuck(j, d))
    BY DEF StackOf, InCleanup
  <1>2. /\ id \in Id /\ id.kind \in Kind /\ id \in Range(s)
        /\ Range(t) = Range(s) \ {id}
        /\ \A a \in DOMAIN t : a \in Nat /\ a + 1 \in DOMAIN s /\ t[a] = s[a + 1]
        /\ phase'[j] = phase[j] /\ cfg'[j] = cfg[j] /\ hit' = hit
    BY Visited DEF Range
  <1>3. mounts' = mounts /\ dev' = {d \in dev : d.id # id}
    BY DEF CloseOnHost
  <1>9. /\ OwnMounts(j)' = OwnMounts(j) /\ OwnMounts(j) \subseteq DOMAIN mounts
        /\ \A d \in OwnDevices(j)' : d \in OwnDevices(j) /\ d.id # id
    BY <1>3 DEF OwnMounts, OwnDevices
  <1>4. \A i \in OwnMounts(j) : Kept(j, i)' <=> Kept(j, i)
    <2> TAKE i \in OwnMounts(j)
    <2>1. MountAt(mounts[i].dir) # id
      BY MountRank
    <2> QED
      BY <1>2, <1>3, <2>1 DEF Kept
  <1>5. \A i \in OwnMounts(j) : Left(j, i)' <=> Left(j, i)
    BY <1>2, <1>3 DEF Left, Inside, Visible, Covers
  <1> HIDE DEF s, t
  <1>6. OneEach(j)'
    BY <1>1, <1>3, <1>9 DEF OneEach
  <1>7. NewestFirst(j)'
    <2>1. ASSUME NEW a \in DOMAIN t, NEW b \in DOMAIN t,
                 NEW i \in OwnMounts(j), NEW k \in OwnMounts(j), a < b,
                 t[a] = MountAt(mounts[i].dir), t[b] = MountAt(mounts[k].dir)
          PROVE  k < i
      <3>1. /\ a + 1 \in DOMAIN s /\ b + 1 \in DOMAIN s /\ a + 1 < b + 1
            /\ s[a + 1] = MountAt(mounts[i].dir) /\ s[b + 1] = MountAt(mounts[k].dir)
        BY <1>2, <2>1
      <3> QED
        BY <1>1, <3>1 DEF NewestFirst, s
    <2>2. \A i, k \in OwnMounts(j) : i < k /\ Kept(j, k)' => Kept(j, i)'
      BY <1>1, <1>4 DEF NewestFirst
    <2> QED
      BY <1>3, <1>9, <2>1, <2>2 DEF NewestFirst, t
  <1>8. \A d \in OwnDevices(j)' : d.id \in Range(t) \/ (Cut(j)' /\ Stuck(j, d)')
    <2> SUFFICES ASSUME NEW d \in OwnDevices(j), d.id # id
                 PROVE  d.id \in Range(t) \/ (Cut(j)' /\ Stuck(j, d)')
      BY <1>9
    <2>1. CASE d.id \in Range(s)
      BY <1>2, <2>1
    <2>2. CASE Cut(j) /\ d.id = hit[j].id
      BY <1>2, <2>2 DEF Cut, Stuck
    <2>3. CASE Cut(j) /\ Busy(d.id) /\ \A y \in Range(s) : Rank(d.id.kind) <= Rank(y.kind)
      <3>1. Busy(d.id)'
        <4>1. CASE \E e \in dev : e.on = d.id
          <5>1. PICK e \in dev : e.on = d.id
            BY <4>1
          <5>2. d.id.kind \in Kind /\ e.id.kind \in Kind
            BY KindOfId DEF Safe, TypeOK, HostOK, OwnDevices
          <5>3. d.id # NoId
            BY <5>2 DEF Kind, NoId
          <5>4. Rank(e.id.kind) < Rank(d.id.kind) /\ Rank(d.id.kind) <= Rank(id.kind)
            BY <1>2, <2>3, <5>1, <5>3 DEF Layers
          <5>5. e.id # id
            BY <5>2, <5>4, MountRank
          <5> QED
            BY <1>3, <5>1, <5>5 DEF Busy
        <4>2. CASE \E i \in DOMAIN mounts : mounts[i].on = d.id
          BY <1>3, <4>2 DEF Busy
        <4> QED
          BY <2>3, <4>1, <4>2 DEF Busy
      <3> QED
        BY <1>2, <2>3, <3>1 DEF Cut, Stuck, t
    <2> QED
      BY <1>1, <2>1, <2>2, <2>3 DEF Stuck, s
  <1> QED
    BY <1>1, <1>2, <1>3, <1>4, <1>5, <1>6, <1>7, <1>8, <1>9 DEF StackOf, Cut, t

\* After a visit that closes nothing: what is then left stays for a reason.
LEMMA PassedStack ==
  ASSUME Safe, NEW j \in Job, InCleanup(j), Visit(j), StackOf(j), Tame(j),
         NEW id, id = Closing(j), UNCHANGED host,
         \A i \in DOMAIN mounts : MountAt(mounts[i].dir) = id => Cut(j) /\ Left(j, i),
         \A d \in dev : d.id = id => Cut(j) /\ Busy(id)
  PROVE  StackOf(j)'
  <1> DEFINE s == closing[j]
             t == closing'[j]
  <1>1. /\ OneEach(j) /\ NewestFirst(j)
        /\ \A i \in OwnMounts(j) : Kept(j, i) \/ (Cut(j) /\ Left(j, i))
        /\ \A d \in OwnDevices(j) : d.id \in Range(s) \/ (Cut(j) /\ Stuck(j, d))
    BY DEF StackOf, InCleanup
  <1>2. /\ id \in Range(s) /\ 1 \in DOMAIN s /\ s[1] = id /\ DOMAIN s \subseteq Nat \ {0}
        /\ Range(t) = Range(s) \ {id}
        /\ \A x \in Range(s) : Rank(id.kind) <= Rank(x.kind)
        /\ \A a \in DOMAIN t : a \in Nat /\ a + 1 \in DOMAIN s /\ t[a] = s[a + 1]
        /\ phase'[j] = phase[j] /\ cfg'[j] = cfg[j] /\ hit' = hit
    BY Visited DEF Range
  <1>3. mounts' = mounts /\ dev' = dev
    BY DEF host
  <1>10. /\ OwnMounts(j)' = OwnMounts(j) /\ OwnMounts(j) \subseteq DOMAIN mounts
         /\ OwnDevices(j)' = OwnDevices(j) /\ OwnDevices(j) \subseteq dev
    BY <1>3 DEF OwnMounts, OwnDevices
  <1>4. \A i \in OwnMounts(j) : Kept(j, i)' <=> Kept(j, i) /\ MountAt(mounts[i].dir) # id
    BY <1>2, <1>3 DEF Kept
  <1>5. \A i \in OwnMounts(j) : Left(j, i)' <=> Left(j, i)
    BY <1>2, <1>3 DEF Left, Inside, Visible, Covers
  <1> HIDE DEF s, t
  <1>6. OneEach(j)'
    BY <1>1, <1>3, <1>10 DEF OneEach
  <1>7. NewestFirst(j)'
    <2>1. ASSUME NEW a \in DOMAIN t, NEW b \in DOMAIN t,
                 NEW i \in OwnMounts(j), NEW k \in OwnMounts(j), a < b,
                 t[a] = MountAt(mounts[i].dir), t[b] = MountAt(mounts[k].dir)
          PROVE  k < i
      <3>1. /\ a + 1 \in DOMAIN s /\ b + 1 \in DOMAIN s /\ a + 1 < b + 1
            /\ s[a + 1] = MountAt(mounts[i].dir) /\ s[b + 1] = MountAt(mounts[k].dir)
        BY <1>2, <2>1
      <3> QED
        BY <1>1, <3>1 DEF NewestFirst, s
    <2>2. ASSUME NEW i \in OwnMounts(j), NEW k \in OwnMounts(j), i < k, Kept(j, k)'
          PROVE  Kept(j, i)'
      <3>1. Kept(j, k) /\ MountAt(mounts[k].dir) # id /\ Kept(j, i)
        BY <1>1, <1>4, <2>2 DEF NewestFirst
      <3>2. PICK b \in DOMAIN s : s[b] = MountAt(mounts[k].dir)
        BY <3>1 DEF Kept, Range, s
      <3>3. 1 < b
        BY <1>2, <3>1, <3>2
      <3>4. MountAt(mounts[i].dir) = id => k < i
        BY <1>1, <1>2, <3>2, <3>3 DEF NewestFirst, s
      <3>5. ~ (k < i)
        BY <1>10, <2>2, MountsTyped
      <3> QED
        BY <1>4, <3>1, <3>4, <3>5
    <2> QED
      BY <1>3, <1>10, <2>1, <2>2 DEF NewestFirst, t
  <1>8. \A i \in OwnMounts(j)' : Kept(j, i)' \/ (Cut(j)' /\ Left(j, i)')
    BY <1>1, <1>2, <1>3, <1>4, <1>5, <1>10 DEF Cut
  <1>9. \A d \in OwnDevices(j)' : d.id \in Range(t) \/ (Cut(j)' /\ Stuck(j, d)')
    <2> SUFFICES ASSUME NEW d \in OwnDevices(j) PROVE d.id \in Range(t) \/ (Cut(j)' /\ Stuck(j, d)')
      BY <1>10
    <2>0. Busy(d.id)' <=> Busy(d.id)
      BY <1>3 DEF Busy
    <2>1. CASE d.id \in Range(s) /\ d.id # id
      BY <1>2, <2>1
    <2>2. CASE d.id = id
      <3>1. Cut(j) /\ Busy(d.id)
        BY <1>10, <2>2
      <3> QED
        BY <1>2, <2>0, <2>2, <3>1 DEF Cut, Stuck, t
    <2>3. CASE Cut(j) /\ Stuck(j, d)
      BY <1>2, <2>0, <2>3 DEF Cut, Stuck, s, t
    <2> QED
      BY <1>1, <2>1, <2>2, <2>3
  <1> QED
    BY <1>6, <1>7, <1>8, <1>9 DEF StackOf, t

\* Closing something is refused because of an interrupt only, and what is missing is an
\* array that was not created.
LEMMA Refused ==
  ASSUME Safe, OneBootArray, Layers, NEW j \in Job, HoldingsOf(j), CloseRefused(j),
         NEW id, id = Closing(j)
  PROVE  /\ Present(id) => Held(id) /\ (Tame(j) => Cut(j))
         /\ ~ Present(id) => /\ id.kind # "mount" /\ hit[j].how # "completed" /\ hit[j].id.kind = "md"
                             /\ \A d \in dev : d.id # id
  <1>1. InCleanup(j) /\ Visit(j) /\ (Present(id) => Held(id)) /\ (~ Present(id) => id.kind # "mount")
    BY DEF CloseRefused
  <1>2. ASSUME Present(id), Tame(j), ~ Cut(j) PROVE FALSE
    <2>1. /\ id.kind # "mount" => ~ Busy(id)
          /\ \A i \in DOMAIN mounts : id = MountAt(mounts[i].dir) => ~ Inside(mounts[i].dir)
      BY <1>1, <1>2, HeadFree DEF HoldingsOf
    <2>2. CASE id.kind = "mount"
      <3>1. MountPoint(id.name) /\ Inside(id.name)
        BY <1>1, <1>2, <2>2 DEF Present, Held
      <3>2. PICK i \in DOMAIN mounts : mounts[i].dir = id.name
        BY <3>1 DEF MountPoint
      <3>3. id = MountAt(id.name)
        BY <1>1, <2>2, Visited, MountId
      <3> QED
        BY <2>1, <3>1, <3>2, <3>3
    <2>3. CASE id.kind # "mount"
      BY <1>1, <1>2, <2>1, <2>3 DEF Held
    <2> QED
      BY <2>2, <2>3
  <1>3. ASSUME ~ Present(id)
        PROVE  hit[j].how # "completed" /\ hit[j].id.kind = "md" /\ \A d \in dev : d.id # id
    <2>1. id \in Mine(j) /\ id.kind \in Kind
      BY <1>1, Visited
    <2>2. id.kind # "vg"
      <3> SUFFICES ASSUME id.kind = "vg" PROVE FALSE
        OBVIOUS
      <3>1. vgs = {}
        BY <1>3 DEF Present
      <3> QED
        BY <2>1, <3>1 DEF HoldingsOf, PresentOf
    <2>3. ~ Active(id) /\ id.kind \in {"loop", "md", "luks"}
      BY <1>1, <1>3, <2>1, <2>2 DEF Present, Kind
    <2>4. ~ \E d \in OwnDevices(j) : d.id = id
      BY <2>3 DEF OwnDevices, Active
    <2> QED
      BY <2>1, <2>3, <2>4 DEF HoldingsOf, PresentOf, Active
  <1> QED
    BY <1>1, <1>2, <1>3

\* Each way to visit a resource.
LEMMA VisitHoldings ==
  ASSUME Safe, OneBootArray, Layers, NEW j \in Job, HoldingsOf(j),
         \/ CloseNext(j) \/ CloseGoneMount(j) \/ CloseRefused(j) \/ CloseDeferred(j)
         \/ CloseFails(j) \/ CloseUnseen(j)
  PROVE  Layers' /\ HoldingsOf(j)'
  <1>1. PICK id : id = Closing(j)
    OBVIOUS
  <1>2. InCleanup(j) /\ Visit(j) /\ (UNCHANGED host \/ (Present(id) /\ CloseOnHost(id)))
    BY <1>1 DEF CloseNext, CloseGoneMount, CloseRefused, CloseDeferred, CloseFails, CloseUnseen
  <1>3. /\ id \in Id /\ id.kind \in Kind
        /\ phase'[j] = phase[j] /\ cfg'[j] = cfg[j] /\ hit' = hit /\ phase[j] = "cleanup"
    BY <1>1, <1>2, Visited DEF InCleanup
  <1>4. Layers' /\ PresentOf(j)'
    BY <1>1, <1>2, VisitPresent DEF HoldingsOf
  <1>5. MirrorOf(j)' /\ RestOf(j)'
    BY <1>3 DEF MirrorOf, RestOf
  <1>6. errors \in [Job -> SUBSET Cause]
    BY DEF Safe, TypeOK
  <1>7. Cut(j)' = Cut(j)
    BY <1>3 DEF Cut
  <1>8. PresentOf(j) /\ StackOf(j) /\ RefusalsOf(j)
    BY DEF HoldingsOf
  <1>9. errors'[j] = errors[j] /\ unseen'[j] = unseen[j] => RefusalsOf(j)' /\ Tame(j)' = Tame(j)
    BY <1>3, <1>7, <1>8 DEF RefusalsOf, Tame, CloseFailed
  <1>10. StackOf(j)' /\ RefusalsOf(j)'
    <2>1. CASE CloseNext(j)
      <3>1. /\ errors'[j] = errors[j] /\ unseen'[j] = unseen[j]
            /\ Present(id) /\ CloseOnHost(id)
        BY <1>1, <2>1 DEF CloseNext
      <3>2. Tame(j) => StackOf(j)'
        BY <1>1, <1>2, <1>8, <3>1, UnmountedStack, ClosedStack
      <3> QED
        BY <1>9, <3>1, <3>2 DEF StackOf
    <2>2. CASE CloseGoneMount(j)
      <3>1. /\ errors'[j] = errors[j] /\ unseen'[j] = unseen[j]
            /\ UNCHANGED host /\ id.kind = "mount" /\ ~ MountPoint(id.name)
        BY <1>1, <2>2 DEF CloseGoneMount, Present
      <3>2. ASSUME Tame(j) PROVE StackOf(j)'
        <4>1. ASSUME NEW i \in DOMAIN mounts, MountAt(mounts[i].dir) = id PROVE Cut(j) /\ Left(j, i)
          <5>1. mounts[i].dir = id.name
            BY <4>1 DEF MountAt
          <5>2. ~ Visible(i, mounts[i].dir)
            BY <3>1, <5>1 DEF MountPoint
          <5>3. Cut(j)
            BY <1>1, <1>2, <1>8, <3>2, <4>1, <5>2, HeadFree
          <5> QED
            BY <5>2, <5>3 DEF Left
        <4>2. \A d \in dev : d.id # id
          BY <3>1 DEF Safe, TypeOK, HostOK
        <4> QED
          BY <1>1, <1>2, <1>8, <3>1, <3>2, <4>1, <4>2, PassedStack
      <3> QED
        BY <1>9, <3>1, <3>2 DEF StackOf
    <2>3. CASE CloseDeferred(j)
      <3>1. /\ errors'[j] = errors[j] /\ unseen'[j] = unseen[j]
            /\ UNCHANGED host /\ id.kind = "loop" /\ Busy(id)
        BY <1>1, <2>3 DEF CloseDeferred, Held
      <3>2. ASSUME Tame(j) PROVE StackOf(j)'
        <4>1. Cut(j)
          BY <1>1, <1>2, <1>8, <3>1, <3>2, HeadFree
        <4>2. \A i \in DOMAIN mounts : MountAt(mounts[i].dir) # id
          BY <3>1, MountRank
        <4> QED
          BY <1>1, <1>2, <1>8, <3>1, <3>2, <4>1, <4>2, PassedStack
      <3> QED
        BY <1>9, <3>1, <3>2 DEF StackOf
    <2>4. CASE CloseRefused(j)
      <3>1. /\ UNCHANGED host
            /\ Present(id) => Held(id) /\ (Tame(j) => Cut(j))
            /\ ~ Present(id) => /\ id.kind # "mount" /\ hit[j].how # "completed" /\ hit[j].id.kind = "md"
                                /\ \A d \in dev : d.id # id
        BY <1>1, <2>4, Refused DEF CloseRefused
      <3>2. PICK x : x = IF Present(id) THEN "held" ELSE "absent"
        OBVIOUS
      <3>3. errors'[j] = errors[j] \cup {x}
        BY <1>1, <1>6, <2>4, <3>2 DEF CloseRefused
      <3>4. Tame(j)' = Tame(j)
        <4>1. unseen'[j] = unseen[j]
          BY <2>4 DEF CloseRefused
        <4> QED
          BY <1>3, <3>2, <3>3, <4>1 DEF Tame, CloseFailed
      <3>5. RefusalsOf(j)'
        BY <1>3, <1>7, <1>8, <3>1, <3>2, <3>3, <3>4 DEF RefusalsOf
      <3>6. ASSUME Tame(j) PROVE StackOf(j)'
        <4>1. ASSUME NEW i \in DOMAIN mounts, MountAt(mounts[i].dir) = id PROVE Cut(j) /\ Left(j, i)
          <5>1. mounts[i].dir = id.name /\ id.kind = "mount"
            BY <4>1 DEF MountAt
          <5>2. Present(id) /\ Held(id) /\ Cut(j)
            BY <3>1, <3>6, <5>1
          <5>3. Inside(mounts[i].dir)
            BY <5>1, <5>2 DEF Held
          <5> QED
            BY <5>2, <5>3 DEF Left
        <4>2. ASSUME NEW d \in dev, d.id = id PROVE Cut(j) /\ Busy(id)
          <5>1. Present(id) /\ Held(id) /\ Cut(j)
            BY <3>1, <3>6, <4>2
          <5>2. id.kind # "mount"
            BY <4>2 DEF Safe, TypeOK, HostOK
          <5> QED
            BY <5>1, <5>2 DEF Held
        <4> QED
          BY <1>1, <1>2, <1>8, <3>1, <3>6, <4>1, <4>2, PassedStack
      <3> QED
        BY <3>4, <3>5, <3>6 DEF StackOf
    <2>5. CASE CloseFails(j)
      <3>1. errors'[j] = errors[j] \cup {"failed"}
        BY <1>6, <2>5 DEF CloseFails
      <3>2. ~ Tame(j)'
        BY <3>1 DEF Tame, CloseFailed
      <3> QED
        BY <1>3, <1>7, <1>8, <3>1, <3>2 DEF StackOf, RefusalsOf
    <2>6. CASE CloseUnseen(j)
      <3>1. errors'[j] = errors[j] /\ unseen'[j] = TRUE
        BY <2>6 DEF CloseUnseen, Safe, TypeOK
      <3>2. ~ Tame(j)'
        BY <3>1 DEF Tame, CloseFailed
      <3> QED
        BY <1>3, <1>7, <1>8, <3>1, <3>2 DEF StackOf, RefusalsOf
    <2> QED
      BY <2>1, <2>2, <2>3, <2>4, <2>5, <2>6
  <1> QED
    BY <1>4, <1>5, <1>10 DEF HoldingsOf

\* A job begins with nothing open that is its own.
LEMMA LoadHoldings ==
  ASSUME Safe, Layers, NEW j \in Job, LoadConfig(j)
  PROVE  Layers' /\ HoldingsOf(j)'
  <1>1. /\ phase[j] = "parse" /\ phase'[j] = "setup" /\ reg' = reg /\ errors' = errors /\ doc' = doc
        /\ dev' = dev /\ mounts' = mounts /\ pos' = pos /\ Accepted(doc[j]) /\ cfg'[j] = Parse(doc[j])
    BY DEF LoadConfig, host, Safe, TypeOK
  <1>2. reg[j] = NoneRegistered /\ Clean(j) /\ errors[j] = {} /\ pos[j] = 1
    BY <1>1 DEF Safe, JobInv, RegistersOf, AccountedOf, PositionsOf
  <1>3. Layers'
    BY <1>1 DEF Layers, MayHave
  <1>4. Mine(j)' = {}
    BY <1>1, <1>2, NothingRegistered DEF Mine
  <1>5. ~ Owner(j)'
    <2>1. Start(cfg'[j], j) \in Nat
      <3>1. doc[j] \in Doc /\ Accepted(doc[j]) /\ cfg'[j] = Parse(doc[j])
        BY <1>1, DocSpaceAssumption DEF Safe, TypeOK
      <3> QED
        BY <3>1, PlanShape DEF Shape
    <2>2. ~ HasMounts(j)'
      BY <1>1, <1>2 DEF HasMounts, Clean, OwnMounts
    <2> QED
      BY <1>1, <1>2, <2>1, <2>2 DEF Owner
  <1>6. PresentOf(j)' /\ MirrorOf(j)'
    BY <1>4, <1>5 DEF PresentOf, MirrorOf
  <1> QED
    BY <1>1, <1>2, <1>3, <1>6 DEF HoldingsOf, StackOf, RefusalsOf, RestOf

\* The program ends, or goes on to pack the image.
LEMMA EndHoldings ==
  ASSUME Safe, Layers, NEW j \in Job, HoldingsOf(j),
         RefuseConfig(j) \/ CleanupDone(j) \/ Pack(j) \/ PackFails(j)
  PROVE  Layers' /\ HoldingsOf(j)'
  <1>1. UNCHANGED <<doc, cfg, pos, reg, closing, errors, hit, unseen, dev, vgs, mounts>>
    BY DEF RefuseConfig, CleanupDone, Pack, PackFails, host
  <1>2. phase'[j] \in {"pack", "done", "failed"}
    BY DEF RefuseConfig, CleanupDone, Pack, PackFails, Safe, TypeOK
  <1>3. Layers'
    BY <1>1 DEF Layers, MayHave
  <1>4. Mine(j)' = {}
    BY <1>2 DEF Mine
  <1>5. PresentOf(j)' /\ MirrorOf(j)' /\ StackOf(j)'
    BY <1>2, <1>4 DEF PresentOf, MirrorOf, StackOf
  <1>6. Cut(j)' = Cut(j) /\ Tame(j)' = Tame(j) /\ RefusalsOf(j)
    BY <1>1 DEF Cut, Tame, CloseFailed, HoldingsOf
  <1>7. RefusalsOf(j)'
    BY <1>1, <1>6 DEF RefusalsOf
  <1>9. OwnMounts(j)' = OwnMounts(j) /\ OwnDevices(j)' = OwnDevices(j)
    BY <1>1 DEF OwnMounts, OwnDevices
  <1>8. RestOf(j)'
    <2>1. CASE CleanupDone(j)
      <3>1. phase[j] = "cleanup" /\ closing[j] = <<>>
        BY <2>1 DEF CleanupDone
      <3>2. Range(closing[j]) = {}
        BY <3>1 DEF Range
      <3>3. Tame(j) => /\ \A i \in OwnMounts(j) : Cut(j) /\ Left(j, i)
                       /\ \A d \in OwnDevices(j) : Cut(j) /\ (d.id = hit[j].id \/ Busy(d.id))
        BY <3>1, <3>2 DEF HoldingsOf, StackOf, Kept, Stuck
      <3>4. \A i : Left(j, i)' <=> Left(j, i)
        BY <1>1 DEF Left, Inside, Visible, Covers
      <3>5. \A d : Busy(d.id)' <=> Busy(d.id)
        BY <1>1 DEF Busy
      <3> QED
        BY <1>1, <1>6, <1>9, <3>3, <3>4, <3>5 DEF RestOf
    <2>2. CASE Pack(j)
      <3>1. phase'[j] # "failed"
        BY <2>2 DEF Pack, Safe, TypeOK
      <3> QED
        BY <3>1 DEF RestOf
    <2>3. CASE RefuseConfig(j) \/ PackFails(j)
      <3>1. phase[j] \in {"parse", "pack"}
        BY <2>3 DEF RefuseConfig, PackFails
      <3>2. Clean(j)
        BY <3>1 DEF Safe, JobInv, AccountedOf
      <3> QED
        BY <1>9, <3>2 DEF RestOf, Clean
    <2> QED
      BY <2>1, <2>2, <2>3
  <1> QED
    BY <1>3, <1>5, <1>7, <1>8 DEF HoldingsOf

\* The body of the "with" ends.
LEMMA StopHoldings ==
  ASSUME Safe, Layers, NEW j \in Job, HoldingsOf(j),
         RefuseStep(j) \/ FailStep(j) \/ InterruptStep(j) \/ SetupDone(j)
  PROVE  Layers' /\ HoldingsOf(j)'
  <1>1. ASSUME NEW r, NEW how, NEW id, phase[j] = "setup", Ends(j, r, how, id), Leave(j, r, how, id)
        PROVE  Layers' /\ HoldingsOf(j)'
    BY <1>1, LeaveHoldings
  <1>2. CASE SetupDone(j)
    <2>1. phase[j] = "setup" /\ Leave(j, reg[j], "completed", NoId) /\ UNCHANGED host
      BY <1>2 DEF SetupDone
    <2>2. Ends(j, reg[j], "completed", NoId)
      BY <2>1 DEF Ends
    <2> QED
      BY <1>1, <2>1, <2>2
  <1>3. ASSUME NEW how \in {"refused", "failed", "interrupted"}, InSetup(j),
               Leave(j, RegisterEarly(reg[j], Step(j)), how, Step(j).id),
               \/ UNCHANGED host
               \/ how = "interrupted" /\ Possible(Step(j)) /\ OpenOnHost(j, Step(j))
        PROVE  Layers' /\ HoldingsOf(j)'
    <2>1. Ends(j, RegisterEarly(reg[j], Step(j)), how, Step(j).id)
      BY <1>3 DEF Ends
    <2> QED
      BY <1>1, <1>3, <2>1 DEF InSetup
  <1>4. CASE RefuseStep(j)
    BY <1>3, <1>4 DEF RefuseStep
  <1>5. CASE FailStep(j)
    BY <1>3, <1>5 DEF FailStep
  <1>6. CASE InterruptStep(j)
    BY <1>3, <1>6 DEF InterruptStep
  <1> QED
    BY <1>2, <1>4, <1>5, <1>6

\* Initially nothing is open.
LEMMA InitHoldings == Init => HoldingsInv
  <1> SUFFICES ASSUME Init PROVE HoldingsInv
    OBVIOUS
  <1>1. Layers
    BY DEF Init, Layers
  <1>2. ASSUME NEW j \in Job PROVE HoldingsOf(j)
    <2>1. phase[j] = "parse" /\ errors[j] = {}
      BY DEF Init
    <2>2. Mine(j) = {}
      BY <2>1 DEF Mine
    <2> QED
      BY <2>1, <2>2 DEF HoldingsOf, PresentOf, MirrorOf, StackOf, RefusalsOf, RestOf
  <1> QED
    BY <1>1, <1>2 DEF HoldingsInv

\* A job closes no device of another one.
HostKeeps(j) == \A d \in dev : d.job # j => d \in dev'

LEMMA KeepsOthers ==
  ASSUME Safe, OneBootArray, Layers, NEW j \in Job, PresentOf(j), Progress(j) \/ Fault(j)
  PROVE  HostKeeps(j)
  <1>1. ASSUME dev' = dev PROVE HostKeeps(j)
    BY <1>1 DEF HostKeeps
  <1>2. ASSUME InSetup(j), doc' = doc, Possible(Step(j)), OpenOnHost(j, Step(j)) PROVE HostKeeps(j)
    <2>1. PICK s, P, b, m : s = Step(j) /\ Ran(j, s, P, b, m)
      BY <1>2, Running
    <2> QED
      BY <2>1 DEF Ran, HostKeeps
  <1>3. ASSUME InCleanup(j), Visit(j), CloseOnHost(Closing(j)) PROVE HostKeeps(j)
    <2>1. PICK id : id = Closing(j)
      OBVIOUS
    <2>2. id \in Id /\ id \in Mine(j)
      BY <1>3, <2>1, Visited
    <2>3. id.kind # "mount" => \A d \in dev : d.id = id => d.job = j
      BY <2>2, OwnedBy, OnOwned
    <2> QED
      BY <1>3, <2>1, <2>3 DEF CloseOnHost, HostKeeps
  <1>4. CASE \/ LoadConfig(j) \/ RefuseConfig(j) \/ RefuseStep(j) \/ SetupDone(j) \/ CloseGoneMount(j)
             \/ CloseRefused(j) \/ CloseDeferred(j) \/ CleanupDone(j) \/ Pack(j) \/ FailStep(j)
             \/ PackFails(j) \/ PassUnmount(j) \/ CloseUnseen(j)
    BY <1>1, <1>4 DEF LoadConfig, RefuseConfig, RefuseStep, SetupDone, CloseGoneMount, CloseRefused,
                      CloseDeferred, CleanupDone, Pack, FailStep, PackFails, PassUnmount, CloseUnseen,
                      host
  <1>5. CASE RunStep(j)
    BY <1>2, <1>5 DEF RunStep
  <1>6. CASE InterruptStep(j)
    BY <1>1, <1>2, <1>6 DEF InterruptStep, Leave, host
  <1>7. CASE CloseNext(j)
    BY <1>3, <1>7 DEF CloseNext
  <1>8. CASE CloseFails(j)
    BY <1>1, <1>3, <1>8 DEF CloseFails, host
  <1> QED
    BY <1>4, <1>5, <1>6, <1>7, <1>8 DEF Progress, Fault

\* What a job does leaves what another one has open as it is.
LEMMA OtherHoldings ==
  ASSUME Safe, OneBootArray, Layers, NEW j \in Job, NEW k \in Job, k # j, Untouched(k),
         HostChange(j), HostKeeps(j), HoldingsOf(k)
  PROVE  HoldingsOf(k)'
  <1>1. /\ doc'[k] = doc[k] /\ cfg'[k] = cfg[k] /\ phase'[k] = phase[k]
        /\ pos'[k] = pos[k] /\ reg'[k] = reg[k] /\ closing'[k] = closing[k]
        /\ errors'[k] = errors[k] /\ hit'[k] = hit[k] /\ unseen'[k] = unseen[k]
    BY DEF Untouched
  <1>2. Mine(k)' = Mine(k) /\ (Cut(k)' <=> Cut(k)) /\ (Tame(k)' <=> Tame(k))
    BY <1>1 DEF Mine, Cut, Tame, CloseFailed
  <1>3. OwnDevices(k)' = OwnDevices(k)
    BY DEF OwnDevices, HostChange, HostKeeps
  <1>4. mounts' = mounts \/ (OwnMounts(k) = {} /\ OwnMounts(k)' = {})
    <2> SUFFICES ASSUME mounts' # mounts PROVE OwnMounts(k) = {} /\ OwnMounts(k)' = {}
      OBVIOUS
    <2>1. Owner(j) /\ \A i \in DOMAIN mounts' : mounts'[i].job = j
      BY DEF HostChange
    <2>2. ~ Owner(k)
      BY <2>1, OwnersAlone
    <2> QED
      BY <2>1, <2>2, MountsOwn DEF OwnMounts
  <1>5. PresentOf(k)'
    <2>1. \A x : MayHave(x, k)' <=> MayHave(x, k)
      BY <1>1 DEF MayHave
    <2>2. (\E v \in vgs : v.job = k) => \E v \in vgs' : v.job = k
      BY DEF HostChange
    <2> QED
      BY <1>1, <1>2, <1>3, <2>1, <2>2 DEF HoldingsOf, PresentOf
  <1>6. MirrorOf(k)'
    <2>1. HasMounts(k)' => HasMounts(k) /\ mounts' = mounts
      BY DEF HostChange, HasMounts
    <2>2. Owner(k)' => Owner(k)
      BY <1>1, <1>2, <2>1 DEF Owner, MayMount
    <2>3. Owner(k) => mounts' = mounts
      BY OwnersAlone DEF HostChange
    <2>4. MirrorOf(k)
      BY DEF HoldingsOf
    <2> QED
      BY <1>1, <2>2, <2>3, <2>4 DEF MirrorOf
  <1>7. ASSUME NEW d \in OwnDevices(k), Busy(d.id) PROVE Busy(d.id)'
    <2>1. Owned(d.id, k)
      BY <1>7, OwnedBy
    <2>2. PICK x : x = d.id
      OBVIOUS
    <2>3. CASE \E e \in dev : e.on = x
      <3>1. PICK e \in dev : e.on = x
        BY <2>3
      <3>2. e.job = k
        BY <2>1, <2>2, <3>1, OnOwned
      <3>3. e \in dev'
        BY <3>1, <3>2 DEF HostKeeps
      <3> QED
        BY <2>2, <3>1, <3>3 DEF Busy
    <2>4. CASE \E i \in DOMAIN mounts : mounts[i].on = x
      <3>1. PICK i \in DOMAIN mounts : mounts[i].on = x
        BY <2>4
      <3>2. i \in OwnMounts(k)
        BY <2>1, <2>2, <3>1, OnOwned DEF OwnMounts
      <3>3. mounts' = mounts
        BY <1>4, <3>2
      <3> QED
        BY <2>2, <3>1, <3>3 DEF Busy
    <2> QED
      BY <1>7, <2>2, <2>3, <2>4 DEF Busy
  <1>8. CASE mounts' = mounts
    <2>1. OwnMounts(k)' = OwnMounts(k)
      BY <1>8 DEF OwnMounts
    <2>2. \A i : /\ Kept(k, i)' <=> Kept(k, i)
                 /\ Left(k, i)' <=> Left(k, i)
      BY <1>1, <1>8 DEF Kept, Left, Inside, Visible, Covers
    <2>3. OneEach(k) => OneEach(k)'
      BY <1>8, <2>1 DEF OneEach
    <2>4. NewestFirst(k) => NewestFirst(k)'
      BY <1>1, <1>8, <2>1, <2>2 DEF NewestFirst
    <2>5. \A d \in OwnDevices(k) : Stuck(k, d) => Stuck(k, d)'
      BY <1>1, <1>7 DEF Stuck
    <2>6. StackOf(k)'
      BY <1>1, <1>2, <1>3, <2>1, <2>2, <2>3, <2>4, <2>5 DEF HoldingsOf, StackOf
    <2>7. RestOf(k)'
      BY <1>1, <1>2, <1>3, <1>7, <2>1, <2>2 DEF HoldingsOf, RestOf
    <2> QED
      BY <1>1, <1>2, <1>5, <1>6, <2>6, <2>7 DEF HoldingsOf, RefusalsOf
  <1>9. CASE OwnMounts(k) = {} /\ OwnMounts(k)' = {}
    <2>1. OneEach(k)' /\ NewestFirst(k)'
      BY <1>9 DEF OneEach, NewestFirst
    <2>2. \A d \in OwnDevices(k) : Stuck(k, d) => Stuck(k, d)'
      BY <1>1, <1>7 DEF Stuck
    <2>3. StackOf(k)'
      BY <1>1, <1>2, <1>3, <1>9, <2>1, <2>2 DEF HoldingsOf, StackOf
    <2>4. RestOf(k)'
      BY <1>1, <1>2, <1>3, <1>7, <1>9 DEF HoldingsOf, RestOf
    <2> QED
      BY <1>1, <1>2, <1>5, <1>6, <2>3, <2>4 DEF HoldingsOf, RefusalsOf
  <1> QED
    BY <1>4, <1>8, <1>9

\* No two jobs have an array of the same name.
OneArrayEach == OneRootArray /\ OneBootArray

\* Every step keeps it, for the job whose step it is and for the others.
LEMMA StepHoldings == OneArrayEach /\ IInv /\ HoldingsInv /\ [Next]_vars => HoldingsInv'
  <1> SUFFICES ASSUME OneArrayEach, IInv, HoldingsInv, [Next]_vars PROVE HoldingsInv'
    OBVIOUS
  <1>1. OneBootArray /\ Safe /\ TypeOK
    BY DEF OneArrayEach, Safe, IInv
  <1>2. CASE UNCHANGED vars
    <2>1. UNCHANGED <<doc, cfg, phase, pos, reg, closing, errors, hit, unseen, dev, vgs, mounts, faults>>
      BY <1>2 DEF vars
    <2>2. \A j \in Job : /\ Mine(j)' = Mine(j) /\ Cut(j)' = Cut(j) /\ Tame(j)' = Tame(j)
                         /\ OwnMounts(j)' = OwnMounts(j) /\ OwnDevices(j)' = OwnDevices(j)
                         /\ \A i : Kept(j, i)' = Kept(j, i)
      BY <2>1 DEF Mine, Cut, Tame, CloseFailed, Kept, OwnMounts, OwnDevices
    <2>3. \A j \in Job : \A i : Left(j, i)' = Left(j, i)
      BY <2>1 DEF Left, Inside, Visible, Covers
    <2>4. /\ \A id : Busy(id)' = Busy(id)
          /\ \A id : \A j : MayHave(id, j)' <=> MayHave(id, j)
      BY <2>1 DEF Busy, MayHave
    <2>5. \A j \in Job : \A d : Stuck(j, d)' = Stuck(j, d)
      BY <2>1, <2>4 DEF Stuck
    <2>6. \A j \in Job : (NewestFirst(j) => NewestFirst(j)') /\ (OneEach(j) => OneEach(j)')
      BY <2>1, <2>2 DEF NewestFirst, OneEach
    <2>7. Layers'
      BY <2>1 DEF HoldingsInv, Layers, MayHave
    <2>8. ASSUME NEW j \in Job PROVE HoldingsOf(j)'
      <3>1. PresentOf(j) /\ MirrorOf(j) /\ StackOf(j) /\ RefusalsOf(j) /\ RestOf(j)
        BY DEF HoldingsInv, HoldingsOf
      <3>2. PresentOf(j)' /\ RefusalsOf(j)'
        BY <2>1, <2>2, <2>4, <3>1 DEF PresentOf, RefusalsOf
      <3>3. MirrorOf(j)'
        <4>1. Owner(j)' <=> Owner(j)
          BY <2>1, <2>2 DEF Owner, MayMount, HasMounts
        <4> QED
          BY <2>1, <3>1, <4>1 DEF MirrorOf
      <3>4. StackOf(j)'
        BY <2>1, <2>2, <2>3, <2>5, <2>6, <3>1 DEF StackOf
      <3>5. RestOf(j)'
        BY <2>1, <2>2, <2>3, <2>4, <3>1 DEF RestOf
      <3> QED
        BY <3>2, <3>3, <3>4, <3>5 DEF HoldingsOf
    <2> QED
      BY <2>7, <2>8 DEF HoldingsInv
  <1>3. ASSUME NEW j \in Job, Progress(j) \/ Fault(j) PROVE HoldingsInv'
    <2>1. Layers /\ HoldingsOf(j)
      BY DEF HoldingsInv
    <2>2. Layers' /\ HoldingsOf(j)'
      <3>1. LoadConfig(j) => Layers' /\ HoldingsOf(j)'
        BY <1>1, <2>1, LoadHoldings
      <3>2. RunStep(j) => Layers' /\ HoldingsOf(j)'
        BY <1>1, <2>1, RunHoldings
      <3>3. RefuseStep(j) \/ FailStep(j) \/ InterruptStep(j) \/ SetupDone(j) => Layers' /\ HoldingsOf(j)'
        BY <1>1, <2>1, StopHoldings
      <3>4. \/ CloseNext(j) \/ CloseGoneMount(j) \/ CloseRefused(j) \/ CloseDeferred(j)
            \/ CloseFails(j) \/ CloseUnseen(j)
            => Layers' /\ HoldingsOf(j)'
        BY <1>1, <2>1, VisitHoldings
      <3>6. PassUnmount(j) => Layers' /\ HoldingsOf(j)'
        BY <1>1, <2>1, PassHoldings
      <3>5. RefuseConfig(j) \/ CleanupDone(j) \/ Pack(j) \/ PackFails(j) => Layers' /\ HoldingsOf(j)'
        BY <1>1, <2>1, EndHoldings
      <3> QED
        BY <1>3, <3>1, <3>2, <3>3, <3>4, <3>5, <3>6 DEF Progress, Fault
    <2>3. HostChange(j) /\ \A k \in Job \ {j} : Untouched(k)
      BY <1>1, <1>3, StepSelf, StepOfOne DEF HostSafe
    <2>4. HostKeeps(j)
      BY <1>1, <1>3, <2>1, KeepsOthers DEF HoldingsOf
    <2>5. ASSUME NEW k \in Job, k # j PROVE HoldingsOf(k)'
      <3>1. HoldingsOf(k)
        BY DEF HoldingsInv
      <3> QED
        BY <1>1, <2>1, <2>3, <2>4, <2>5, <3>1, OtherHoldings
    <2> QED
      BY <2>2, <2>5 DEF HoldingsInv
  <1> QED
    BY <1>2, <1>3 DEF Next, AllEnded

\* What each job can have open, and what it has registered of it.
THEOREM HoldingsInvariance == Spec => [](OneArrayEach => HoldingsInv)
  <1>1. Init => (OneArrayEach => HoldingsInv)
    BY InitHoldings
  <1>2. IInv /\ (OneArrayEach => HoldingsInv) /\ [Next]_vars => (OneArrayEach => HoldingsInv)'
    <2> SUFFICES ASSUME IInv, OneArrayEach => HoldingsInv, [Next]_vars
                 PROVE  (OneArrayEach => HoldingsInv)'
      OBVIOUS
    <2>1. doc' = doc
      <3>1. ASSUME NEW j \in Job, Progress(j) \/ Fault(j) PROVE doc' = doc
        BY <3>1, StepOfOne DEF IInv
      <3> QED
        BY <3>1 DEF Next, AllEnded, vars
    <2>2. OneArrayEach' <=> OneArrayEach
      BY <2>1 DEF OneArrayEach, OneRootArray, OneBootArray
    <2> QED
      BY <2>2, StepHoldings
  <1> QED
    BY <1>1, <1>2, Invariance, PTL DEF Spec

\* When a command of the body fails, whichever it is, __exit__ closes all that the job opened,
\* unless a command that closes something fails too, noticed or not, or two mounts share a key of
\* opened_mount.
THEOREM FailureCleansUp == Spec => [](OneArrayEach => FailureLeavesNothing)
  <1>1. (OneArrayEach => HoldingsInv) => (OneArrayEach => FailureLeavesNothing)
    <2> SUFFICES ASSUME HoldingsInv, NEW j \in Job, phase[j] = "failed", hit[j].how # "interrupted",
                        ~ CloseFailed(j), ~ SharedKey(cfg[j])
                 PROVE  Clean(j)
      BY DEF FailureLeavesNothing
    <2>1. ~ Cut(j) /\ Tame(j) /\ RestOf(j)
      BY DEF Cut, Tame, HoldingsInv, HoldingsOf
    <2> QED
      BY <2>1 DEF RestOf, Clean
  <1> QED
    BY <1>1, HoldingsInvariance, PTL

\* __exit__ finds in use what it closes only after an interrupt, after a command that closes
\* something has failed, noticed or not, or with a shared key; it finds nothing only where mdadm_dev_register() came before a create
\* that did not complete.
THEOREM RefusalsHaveReasons == Spec => [](OneArrayEach => RefusalsExplained)
  <1>1. (OneArrayEach => HoldingsInv) => (OneArrayEach => RefusalsExplained)
    <2> SUFFICES ASSUME HoldingsInv, NEW j \in Job
                 PROVE  /\ "held" \in errors[j] =>
                              hit[j].how = "interrupted" \/ CloseFailed(j) \/ SharedKey(cfg[j])
                        /\ "absent" \in errors[j] => hit[j].how # "completed" /\ hit[j].id.kind = "md"
      BY DEF RefusalsExplained
    <2>1. RefusalsOf(j)
      BY DEF HoldingsInv, HoldingsOf
    <2> QED
      BY <2>1 DEF RefusalsOf, Cut, Tame
  <1> QED
    BY <1>1, HoldingsInvariance, PTL

\* An interrupt between a command and its registration leaves the resource of that command,
\* and what is held or hidden because of it; __exit__ closes the rest.
THEOREM LeakExplained == Spec => [](OneArrayEach => LeakIsInterruptedStack)
  <1>1. (OneArrayEach => HoldingsInv) => (OneArrayEach => LeakIsInterruptedStack)
    <2> SUFFICES ASSUME HoldingsInv, NEW j \in Job, phase[j] = "failed",
                        ~ CloseFailed(j), ~ SharedKey(cfg[j])
                 PROVE  /\ \A d \in OwnDevices(j) : d.id = hit[j].id \/ Busy(d.id)
                        /\ \A i \in OwnMounts(j) :
                              \/ MountAt(mounts[i].dir) = hit[j].id
                              \/ Inside(mounts[i].dir)
                              \/ ~Visible(i, mounts[i].dir)
      BY DEF LeakIsInterruptedStack
    <2>1. Tame(j) /\ RestOf(j)
      BY DEF Tame, HoldingsInv, HoldingsOf
    <2> QED
      BY <2>1 DEF RestOf, Left
  <1> QED
    BY <1>1, HoldingsInvariance, PTL

-----------------------------------------------------------------------------
(* Each volume is where the document asks for it.                          *)

\* The mounts come from the first n commands, in their order, and what those have mounted for
\* good is among them: f leads from a mount to the position of its command.  A umount that is
\* passed over leaves what was not mounted for good.
Follow(ms, P, n, f) ==
    /\ \A i, k \in 1..Len(ms) : i < k => f[i] < f[k]
    /\ \A i \in 1..Len(ms) : P[f[i]].op = "mount" /\ P[f[i]].id = MountAt(ms[i].dir)
    /\ \A q \in 1..n : Stands(P, n, q) => \E i \in 1..Len(ms) : f[i] = q

Follows(ms, P, n) == \E f \in [1..Len(ms) -> 1..n] : Follow(ms, P, n, f)

\* From vgcreate on, the mounts come from the job's plan, in the order of the plan.
OrderOf(j) == phase[j] = "setup" /\ pos[j] > Start(cfg[j], j) + 1
                  => Follows(mounts, Plan(cfg[j], j), pos[j] - 1)

\* A command that mounts adds the newest mount.
LEMMA FollowMount ==
  ASSUME NEW P, NEW n \in Nat, NEW ms \in Seq(Mount), Follows(ms, P, n),
         P[n + 1].op = "mount", NEW y \in Mount, P[n + 1].id = MountAt(y.dir)
  PROVE  Follows(Append(ms, y), P, n + 1)
  <1> DEFINE w == Append(ms, y)
             l == Len(ms)
  <1>1. /\ l \in Nat /\ Len(w) = l + 1 /\ w[l + 1] = y
        /\ \A i \in 1..l : w[i] = ms[i]
    OBVIOUS
  <1> HIDE DEF w
  <1>2. PICK f \in [1..l -> 1..n] : Follow(ms, P, n, f)
    BY DEF Follows
  <1> HIDE DEF l
  <1>3. /\ \A i, k \in 1..l : i < k => f[i] < f[k]
        /\ \A i \in 1..l : P[f[i]].op = "mount" /\ P[f[i]].id = MountAt(ms[i].dir)
        /\ \A q \in 1..n : Stands(P, n, q) => \E i \in 1..l : f[i] = q
    BY <1>2 DEF Follow, l
  <1>4. \A q \in 1..n : Stands(P, n + 1, q) => Stands(P, n, q)
    BY DEF Stands
  <1> DEFINE g == [i \in 1..(l + 1) |-> IF i = l + 1 THEN n + 1 ELSE f[i]]
  <1>5. g \in [1..(l + 1) -> 1..(n + 1)] /\ g[l + 1] = n + 1 /\ \A i \in 1..l : g[i] = f[i]
    BY <1>1
  <1> HIDE DEF g
  <1>6. \A i \in 1..(l + 1) : i \in 1..l \/ i = l + 1
    BY <1>1
  <1>7. \A i, k \in 1..(l + 1) : i < k => g[i] < g[k]
    <2> SUFFICES ASSUME NEW i \in 1..(l + 1), NEW k \in 1..(l + 1), i < k PROVE g[i] < g[k]
      OBVIOUS
    <2>1. i \in 1..l /\ f[i] \in 1..n
      BY <1>1
    <2>2. CASE k = l + 1
      BY <2>1, <2>2, <1>5
    <2>3. CASE k \in 1..l
      BY <2>1, <2>3, <1>3, <1>5
    <2> QED
      BY <2>2, <2>3, <1>6
  <1>8. \A i \in 1..(l + 1) : P[g[i]].op = "mount" /\ P[g[i]].id = MountAt(w[i].dir)
    <2> SUFFICES ASSUME NEW i \in 1..(l + 1)
                 PROVE  P[g[i]].op = "mount" /\ P[g[i]].id = MountAt(w[i].dir)
      OBVIOUS
    <2>1. CASE i = l + 1
      BY <2>1, <1>1, <1>5
    <2>2. CASE i \in 1..l
      BY <2>2, <1>1, <1>3, <1>5
    <2> QED
      BY <2>1, <2>2, <1>6
  <1>9. \A q \in 1..(n + 1) : Stands(P, n + 1, q) => \E i \in 1..(l + 1) : g[i] = q
    <2> SUFFICES ASSUME NEW q \in 1..(n + 1), Stands(P, n + 1, q)
                 PROVE  \E i \in 1..(l + 1) : g[i] = q
      OBVIOUS
    <2>1. CASE q = n + 1
      <3>1. l + 1 \in 1..(l + 1)
        BY <1>1
      <3> QED
        BY <2>1, <3>1, <1>5
    <2>2. CASE q \in 1..n
      <3>1. PICK i \in 1..l : f[i] = q
        BY <2>2, <1>3, <1>4
      <3>2. i \in 1..(l + 1)
        BY <1>1
      <3> QED
        BY <3>1, <3>2, <1>5
    <2>3. q = n + 1 \/ q \in 1..n
      OBVIOUS
    <2> QED
      BY <2>1, <2>2, <2>3
  <1>10. Follow(w, P, n + 1, g)
    BY <1>1, <1>5, <1>7, <1>8, <1>9 DEF Follow
  <1> QED
    BY <1>1, <1>5, <1>10 DEF Follows, w

\* A command that mounts nothing and leaves the mounts as they are.
LEMMA FollowOther ==
  ASSUME NEW P, NEW n \in Nat, NEW ms \in Seq(Mount), Follows(ms, P, n),
         P[n + 1].op # "mount"
  PROVE  Follows(ms, P, n + 1)
  <1> DEFINE l == Len(ms)
  <1>1. PICK f \in [1..l -> 1..n] : Follow(ms, P, n, f)
    BY DEF Follows
  <1> HIDE DEF l
  <1>2. /\ \A i, k \in 1..l : i < k => f[i] < f[k]
        /\ \A i \in 1..l : P[f[i]].op = "mount" /\ P[f[i]].id = MountAt(ms[i].dir)
        /\ \A q \in 1..n : Stands(P, n, q) => \E i \in 1..l : f[i] = q
    BY <1>1 DEF Follow, l
  <1>3. \A q \in 1..n : Stands(P, n + 1, q) => Stands(P, n, q)
    BY DEF Stands
  <1>4. ~ Stands(P, n + 1, n + 1)
    BY DEF Stands
  <1>5. \A q \in 1..(n + 1) : Stands(P, n + 1, q) => q \in 1..n
    BY <1>4
  <1>6. f \in [1..l -> 1..(n + 1)]
    BY <1>1
  <1>7. Follow(ms, P, n + 1, f)
    BY <1>2, <1>3, <1>5, <1>6 DEF Follow, l
  <1> QED
    BY <1>6, <1>7 DEF Follows, l

\* A command that unmounts takes away the newest mount.
LEMMA FollowUnmount ==
  ASSUME NEW P, NEW n \in Nat, n + 1 \in 1..Len(P), Paired(P), NEW ms \in Seq(Mount),
         Follows(ms, P, n), P[n + 1].op = "umount"
  PROVE  /\ Len(ms) \in 1..Len(ms) /\ P[n + 1].id = MountAt(ms[Len(ms)].dir)
         /\ \A w \in Seq(Mount) : (/\ Len(w) = Len(ms) - 1
                                   /\ \A i \in 1..(Len(ms) - 1) : w[i] = ms[i])
                                      => Follows(w, P, n + 1)
  <1> DEFINE l == Len(ms)
  <1>1. PICK f \in [1..l -> 1..n] : Follow(ms, P, n, f)
    BY DEF Follows
  <1>2. l \in Nat
    OBVIOUS
  <1> HIDE DEF l
  <1>3. /\ \A i, k \in 1..l : i < k => f[i] < f[k]
        /\ \A i \in 1..l : P[f[i]].op = "mount" /\ P[f[i]].id = MountAt(ms[i].dir)
        /\ \A q \in 1..n : Stands(P, n, q) => \E i \in 1..l : f[i] = q
    BY <1>1 DEF Follow, l
  <1>4. n - 1 \in 1..n /\ P[n].op = "run" /\ P[n - 1].op = "mount" /\ P[n - 1].id = P[n + 1].id
    <2>1. PICK q : q = n + 1
      OBVIOUS
    <2>2. q \in 1..Len(P) /\ P[q].op = "umount" /\ q - 1 = n /\ q - 2 = n - 1
      BY <2>1
    <2>3. q - 2 \in 1..Len(P) /\ P[q - 1].op = "run" /\ P[q - 2].op = "mount" /\ P[q - 2].id = P[q].id
      BY <2>2 DEF Paired
    <2> QED
      BY <2>1, <2>2, <2>3
  <1>5. Stands(P, n, n - 1)
    BY <1>4 DEF Stands
  <1>6. PICK i \in 1..l : f[i] = n - 1
    BY <1>3, <1>4, <1>5
  <1>7. i = l
    <2> SUFFICES ASSUME i # l PROVE FALSE
      OBVIOUS
    <2>1. l \in 1..l /\ i < l
      BY <1>2
    <2>2. f[l] \in 1..n /\ f[l] > n - 1
      BY <1>3, <1>6, <2>1
    <2>3. f[l] = n
      BY <2>2
    <2>4. P[n].op = "mount"
      BY <1>3, <2>1, <2>3
    <2> QED
      BY <1>4, <2>4
  <1>8. l \in 1..l /\ P[n + 1].id = MountAt(ms[l].dir)
    BY <1>3, <1>4, <1>6, <1>7
  <1>9. ~ Stands(P, n + 1, n - 1) /\ ~ Stands(P, n + 1, n + 1)
    <2>1. n - 1 + 2 = n + 1
      OBVIOUS
    <2> QED
      BY <2>1 DEF Stands
  <1>10. \A q \in 1..n : Stands(P, n + 1, q) => Stands(P, n, q)
    BY DEF Stands
  <1>11. ASSUME NEW w \in Seq(Mount), Len(w) = l - 1, \A k \in 1..(l - 1) : w[k] = ms[k]
         PROVE  Follows(w, P, n + 1)
    <2> DEFINE g == [k \in 1..(l - 1) |-> f[k]]
    <2>1. \A k \in 1..(l - 1) : k \in 1..l /\ k < l /\ g[k] = f[k] /\ f[k] \in 1..n
      BY <1>2
    <2>2. g \in [1..(l - 1) -> 1..(n + 1)]
      BY <1>2
    <2> HIDE DEF g
    <2>3. \A k \in 1..(l - 1) : P[g[k]].op = "mount" /\ P[g[k]].id = MountAt(w[k].dir)
      BY <1>3, <1>11, <2>1, SMTT(40)
    <2>4. \A q \in 1..(n + 1) : Stands(P, n + 1, q) => \E k \in 1..(l - 1) : g[k] = q
      <3> SUFFICES ASSUME NEW q \in 1..(n + 1), Stands(P, n + 1, q)
                   PROVE  \E k \in 1..(l - 1) : g[k] = q
        OBVIOUS
      <3>0. q # n - 1 /\ q # n + 1
        BY <1>9
      <3>1. q \in 1..n /\ q # n - 1 /\ Stands(P, n, q)
        BY <1>10, <3>0
      <3>2. PICK k \in 1..l : f[k] = q
        BY <1>3, <3>1
      <3>3. k \in 1..(l - 1)
        BY <1>2, <1>6, <1>7, <3>1, <3>2
      <3> QED
        BY <2>1, <3>2, <3>3
    <2>5. \A a, k \in 1..(l - 1) : a < k => g[a] < g[k]
      BY <1>3, <2>1
    <2>6. Follow(w, P, n + 1, g)
      BY <1>11, <2>2, <2>3, <2>4, <2>5 DEF Follow
    <2> QED
      BY <1>11, <2>2, <2>6 DEF Follows
  <1> QED
    BY <1>8, <1>11 DEF l

\* Before vgcreate succeeds nothing is mounted, and no command before it mounts.
LEMMA GroupOrder ==
  ASSUME Safe, NEW j \in Job, InSetup(j), NEW P, NEW b, NEW m, AtStep(j, Step(j), P, b, m),
         pos[j] = b + 1, Possible(Step(j))
  PROVE  mounts = <<>> /\ Follows(<<>>, P, b + 1)
  <1>1. Shape(cfg[j], j, P, b, m) /\ b \in Nat /\ Step(j) = P[b + 1]
    BY DEF AtStep
  <1>2. P[b + 1].op = "vgcreate" /\ \A q \in 1..b : P[q] \in Early(cfg[j], j)
    BY <1>1 DEF Shape
  <1>3. mounts = <<>>
    <2> SUFFICES ASSUME mounts # <<>> PROVE FALSE
      OBVIOUS
    <2>1. vgs = {}
      BY <1>1, <1>2 DEF Possible
    <2>2. 1 \in DOMAIN mounts /\ mounts[1].job \in Job
      BY MountsTyped
    <2>3. Owner(mounts[1].job)
      BY <2>2 DEF Owner, HasMounts
    <2> QED
      BY <2>1, <2>2, <2>3, OwnGroup
  <1>4. ASSUME NEW q \in 1..(b + 1) PROVE ~ Stands(P, b + 1, q)
    <2>1. CASE q = b + 1
      BY <2>1, <1>2 DEF Stands
    <2>2. CASE q \in 1..b
      BY <2>2, <1>2 DEF Early, Stands
    <2> QED
      BY <2>1, <2>2, <1>1
  <1> DEFINE f == [i \in 1..0 |-> 1]
  <1>5. f \in [1..0 -> 1..(b + 1)] /\ \A i : i \notin 1..0
    OBVIOUS
  <1> HIDE DEF f
  <1>6. Len(<<>>) = 0
    OBVIOUS
  <1>7. Follow(<<>>, P, b + 1, f)
    BY <1>4, <1>5, <1>6 DEF Follow
  <1> QED
    BY <1>3, <1>5, <1>6, <1>7 DEF Follows

\* A command of the plan does to the mounts what it does to those that stand.
LEMMA RunOrder ==
  ASSUME Safe, NEW j \in Job, RunStep(j), OrderOf(j)
  PROVE  OrderOf(j)'
  <1>1. /\ InSetup(j) /\ phase[j] = "setup" /\ Possible(Step(j)) /\ OpenOnHost(j, Step(j))
        /\ cfg' = cfg /\ pos'[j] = pos[j] + 1
    BY DEF RunStep, InSetup, Safe, TypeOK
  <1>2. PICK P, b, m, s : /\ s = Step(j) /\ P = Plan(cfg[j], j) /\ b = Start(cfg[j], j)
                          /\ m = Rooted(cfg[j], j)
    OBVIOUS
  <1>3. AtStep(j, s, P, b, m)
    BY <1>1, <1>2, StepStage DEF Safe
  <1>4. /\ b \in Nat /\ pos[j] \in Nat \ {0} /\ pos[j] \in 1..Len(P) /\ s = P[pos[j]] /\ Sane(s)
        /\ doc[j] \in Doc /\ Accepted(doc[j]) /\ cfg[j] = Parse(doc[j])
    BY <1>1, <1>2, <1>3, StepSane DEF AtStep, Safe, TypeOK
  <1>5. PICK n \in Nat : n = pos[j] - 1
    BY <1>4
  <1>6. n + 1 = pos[j] /\ n + 1 = pos'[j] - 1
    BY <1>1, <1>4, <1>5
  <1>7. SUFFICES ASSUME pos'[j] > b + 1 PROVE Follows(mounts', P, n + 1)
    BY <1>1, <1>2, <1>6 DEF OrderOf
  <1>8. mounts \in Seq(Mount) /\ DOMAIN mounts = 1..Len(mounts)
    BY MountsTyped
  <1>9. CASE pos[j] = b + 1
    <2>1. mounts = <<>> /\ Follows(<<>>, P, b + 1)
      BY <1>1, <1>2, <1>3, <1>9, GroupOrder
    <2>2. P[b + 1].op = "vgcreate"
      BY <1>3 DEF AtStep, Shape
    <2>3. mounts' = mounts
      BY <1>1, <1>2, <1>4, <1>9, <2>2 DEF OpenOnHost
    <2> QED
      BY <1>6, <1>9, <2>1, <2>3
  <1>10. CASE pos[j] > b + 1
    <2>1. Follows(mounts, P, n)
      BY <1>1, <1>2, <1>5, <1>10 DEF OrderOf
    <2>2. s = P[n + 1]
      BY <1>4, <1>6
    <2>3. CASE s.op = "mount"
      <3>1. PICK d \in Dir : s.id = MountAt(d) /\ s.id.name = d
        <4>1. PICK d \in Dir : s.id = MountAt(d)
          BY <1>4, <2>3 DEF Sane
        <4> QED
          BY <4>1 DEF MountAt
      <3>2. PICK y : y = [dir |-> d, on |-> s.on, job |-> j]
        OBVIOUS
      <3>3. mounts' = Append(mounts, y)
        BY <1>1, <1>2, <2>3, <3>1, <3>2 DEF OpenOnHost
      <3>4. y \in Mount /\ y.dir = d
        <4>1. s.on \in Id \cup {NoId}
          BY <1>4 DEF Sane, Command
        <4> QED
          BY <3>2, <4>1 DEF Mount
      <3> QED
        BY <1>8, <2>1, <2>2, <2>3, <3>1, <3>3, <3>4, FollowMount
    <2>4. CASE s.op = "umount"
      <3>1. PICK d \in Dir : s.id = MountAt(d) /\ s.id.name = d
        <4>1. PICK d \in Dir : s.id = MountAt(d)
          BY <1>4, <2>4 DEF Sane
        <4> QED
          BY <4>1 DEF MountAt
      <3>2. Paired(P)
        BY <1>2, <1>4, PlanOrdered DEF Ordered
      <3>3. /\ Len(mounts) \in 1..Len(mounts) /\ s.id = MountAt(mounts[Len(mounts)].dir)
            /\ \A w \in Seq(Mount) : (/\ Len(w) = Len(mounts) - 1
                                      /\ \A i \in 1..(Len(mounts) - 1) : w[i] = mounts[i])
                                         => Follows(w, P, n + 1)
        <4>1. n + 1 \in 1..Len(P) /\ P[n + 1].op = "umount"
          BY <1>4, <1>6, <2>2, <2>4
        <4>2. /\ Len(mounts) \in 1..Len(mounts) /\ P[n + 1].id = MountAt(mounts[Len(mounts)].dir)
              /\ \A w \in Seq(Mount) : (/\ Len(w) = Len(mounts) - 1
                                        /\ \A i \in 1..(Len(mounts) - 1) : w[i] = mounts[i])
                                           => Follows(w, P, n + 1)
          BY <1>8, <2>1, <3>2, <4>1, FollowUnmount
        <4> QED
          BY <2>2, <4>2
      <3>4. mounts[Len(mounts)].dir = d
        <4>1. MountAt(mounts[Len(mounts)].dir) = MountAt(d)
          BY <3>1, <3>3
        <4>2. MountAt(mounts[Len(mounts)].dir).name = mounts[Len(mounts)].dir /\ MountAt(d).name = d
          BY DEF MountAt
        <4> QED
          BY <4>1, <4>2
      <3>5. PICK q : q = CHOOSE i \in DOMAIN mounts : Visible(i, d)
        OBVIOUS
      <3>6. MountPoint(d) /\ mounts' = RemoveAt(mounts, q)
        BY <1>1, <1>2, <2>4, <3>1, <3>5 DEF Possible, OpenOnHost
      <3>7. q \in DOMAIN mounts /\ Visible(q, d)
        BY <3>5, <3>6, MountPointAt DEF Safe, TypeOK
      <3>8. q = Len(mounts)
        <4>1. Len(mounts) \in DOMAIN mounts /\ Covers(Len(mounts), d)
          BY <1>8, <3>3, <3>4 DEF Covers
        <4>2. Len(mounts) <= q
          BY <3>7, <4>1 DEF Visible
        <4> QED
          BY <1>8, <3>7, <4>2
      <3>9. /\ mounts' \in Seq(Mount) /\ Len(mounts') = Len(mounts) - 1
            /\ \A i \in 1..(Len(mounts) - 1) :
                  mounts'[i] = IF i < Len(mounts) THEN mounts[i] ELSE mounts[i + 1]
        BY <1>8, <3>3, <3>6, <3>8, RemovedAt
      <3>10. \A i \in 1..(Len(mounts) - 1) : i < Len(mounts)
        BY <1>8
      <3>11. \A i \in 1..(Len(mounts) - 1) : mounts'[i] = mounts[i]
        BY <3>9, <3>10
      <3> QED
        BY <3>3, <3>9, <3>11
    <2>5. CASE s.op \notin {"mount", "umount"}
      <3>1. mounts' = mounts
        BY <1>1, <1>2, <2>5 DEF OpenOnHost
      <3> QED
        BY <1>8, <2>1, <2>2, <2>5, <3>1, FollowOther
    <2> QED
      BY <2>3, <2>4, <2>5
  <1>11. pos[j] = b + 1 \/ pos[j] > b + 1
    BY <1>1, <1>4, <1>7
  <1> QED
    BY <1>9, <1>10, <1>11

\* A umount that is passed over leaves a mount that the plan has mounted.
LEMMA PassOrder ==
  ASSUME Safe, NEW j \in Job, PassUnmount(j), OrderOf(j)
  PROVE  OrderOf(j)'
  <1>1. /\ InSetup(j) /\ phase[j] = "setup" /\ Step(j).op = "umount" /\ mounts' = mounts
        /\ cfg' = cfg /\ pos'[j] = pos[j] + 1
    BY DEF PassUnmount, InSetup, host, Safe, TypeOK
  <1>2. PICK P, b, m, s : /\ s = Step(j) /\ P = Plan(cfg[j], j) /\ b = Start(cfg[j], j)
                          /\ AtStep(j, s, P, b, m)
    BY <1>1, StepStage DEF Safe
  <1>3. /\ Stage(cfg[j], j, s, pos[j], b, m) /\ b \in Nat /\ m \in Nat /\ m >= b + 5
        /\ pos[j] \in Nat /\ s = P[pos[j]]
    BY <1>2 DEF AtStep
  <1>4. pos[j] = b + 7 \/ pos[j] > m
    BY <1>1, <1>2, <1>3 DEF Stage, RootCmd
  <1>5. pos[j] > b + 1
    BY <1>3, <1>4
  <1>6. PICK n \in Nat : n = pos[j] - 1
    BY <1>3, <1>5
  <1>7. n + 1 = pos[j] /\ n + 1 = pos'[j] - 1
    BY <1>1, <1>3, <1>6
  <1>8. Follows(mounts, P, n) /\ mounts \in Seq(Mount)
    BY <1>1, <1>2, <1>5, <1>6, MountsTyped DEF OrderOf
  <1>9. P[n + 1].op # "mount"
    BY <1>1, <1>2, <1>3, <1>7
  <1>10. Follows(mounts, P, n + 1)
    BY <1>8, <1>9, FollowOther
  <1> QED
    BY <1>1, <1>2, <1>7, <1>10 DEF OrderOf

\* The other steps of a job end its body, or begin it.
LEMMA RestOrder ==
  ASSUME Safe, NEW j \in Job, Progress(j) \/ Fault(j), ~ RunStep(j), ~ PassUnmount(j)
  PROVE  OrderOf(j)'
  <1>1. CASE LoadConfig(j)
    <2>1. phase[j] = "parse" /\ Accepted(doc[j]) /\ cfg'[j] = Parse(doc[j]) /\ pos' = pos
      BY <1>1 DEF LoadConfig, Safe, TypeOK
    <2>2. pos[j] = 1
      BY <2>1 DEF Safe, JobInv, PositionsOf
    <2>3. doc[j] \in Doc
      BY DocSpaceAssumption DEF Safe, TypeOK
    <2>4. Start(cfg'[j], j) \in Nat
      BY <2>1, <2>3, PlanShape DEF Shape
    <2>5. ~ (pos'[j] > Start(cfg'[j], j) + 1)
      BY <2>1, <2>2, <2>4
    <2> QED
      BY <2>5 DEF OrderOf
  <1>2. CASE ~ LoadConfig(j)
    <2>1. ASSUME NEW r, NEW how, NEW id, Leave(j, r, how, id) PROVE phase'[j] # "setup"
      BY <2>1 DEF Leave, Safe, TypeOK
    <2>2. RefuseStep(j) \/ FailStep(j) \/ InterruptStep(j) \/ SetupDone(j) => phase'[j] # "setup"
      BY <2>1 DEF RefuseStep, FailStep, InterruptStep, SetupDone
    <2>3. \/ CloseNext(j) \/ CloseGoneMount(j) \/ CloseRefused(j) \/ CloseDeferred(j)
          \/ CloseFails(j) \/ CloseUnseen(j)
          => phase'[j] # "setup"
      BY DEF CloseNext, CloseGoneMount, CloseRefused, CloseDeferred, CloseFails, CloseUnseen,
             InCleanup, Visit
    <2>4. RefuseConfig(j) \/ CleanupDone(j) \/ Pack(j) \/ PackFails(j) => phase'[j] # "setup"
      BY DEF RefuseConfig, CleanupDone, Pack, PackFails, Safe, TypeOK
    <2>5. phase'[j] # "setup"
      BY <1>2, <2>2, <2>3, <2>4 DEF Progress, Fault
    <2> QED
      BY <2>5 DEF OrderOf
  <1> QED
    BY <1>1, <1>2

\* A step of another job leaves the mounts of one that is past vgcreate alone.
LEMMA OtherOrder ==
  ASSUME Safe, NEW j \in Job, NEW k \in Job, k # j, HostChange(j), Untouched(k), OrderOf(k)
  PROVE  OrderOf(k)'
  <1>1. phase'[k] = phase[k] /\ pos'[k] = pos[k] /\ cfg'[k] = cfg[k]
    BY DEF Untouched
  <1> SUFFICES ASSUME phase[k] = "setup", pos[k] > Start(cfg[k], k) + 1
               PROVE  Follows(mounts', Plan(cfg[k], k), pos[k] - 1)
    BY <1>1 DEF OrderOf
  <1>2. Owner(k)
    BY DEF Owner
  <1>3. mounts' = mounts
    BY <1>2, OwnersAlone DEF HostChange
  <1> QED
    BY <1>3 DEF OrderOf

\* When the tarball is unpacked, a volume that the document asks for is visible at its directory:
\* what has been mounted after it are later volumes, which are neither there nor above it.
LEMMA Reached ==
  ASSUME Safe, NEW j \in Job, InSetup(j), Step(j).op = "unpack", OrderOf(j),
         NEW i \in DOMAIN doc[j].volumes, AskedFor(doc[j], i),
         NEW d, d = MntDir(doc[j].volumes[i]), d # NoDir, StaysVisible(cfg[j], d)
  PROVE  \E m \in OwnMounts(j) : mounts[m].dir = d /\ Visible(m, d)
  <1>1. PICK P, b, x : /\ P = Plan(cfg[j], j) /\ b = Start(cfg[j], j) /\ x = Rooted(cfg[j], j)
    OBVIOUS
  <1>2. AtStep(j, Step(j), P, b, x)
    BY <1>1, StepStage DEF Safe
  <1>3. /\ b \in Nat /\ pos[j] \in Nat \ {0} /\ pos[j] \in 1..Len(P) /\ Step(j) = P[pos[j]]
        /\ doc[j] \in Doc /\ Accepted(doc[j]) /\ cfg[j] = Parse(doc[j]) /\ phase[j] = "setup"
    BY <1>1, <1>2, StepSane DEF AtStep, Safe, TypeOK, InSetup
  <1>4. PICK n \in Nat : n = pos[j] - 1
    BY <1>3
  <1>5. pos[j] > b + 1
    <2>1. P[b + 1].op # "unpack" /\ \A q \in 1..b : P[q].op # "unpack"
      <3>1. /\ P[b + 1].op = "vgcreate" /\ \A q \in 1..b : P[q] \in Early(cfg[j], j)
        <4>1. Shape(cfg[j], j, P, b, x)
          BY <1>2 DEF AtStep
        <4> QED
          BY <4>1 DEF Shape
      <3>2. \A s \in Early(cfg[j], j) : s.op # "unpack"
        BY DEF Early
      <3> QED
        BY <3>1, <3>2
    <2>2. pos[j] # b + 1 /\ pos[j] \notin 1..b
      BY <1>3, <2>1
    <2> QED
      BY <1>3, <2>2
  <1>6. Owner(j) /\ \A m \in DOMAIN mounts : mounts[m].job = j
    BY <1>1, <1>3, <1>5, OwnerMounts DEF Owner
  <1>7. PICK f \in [1..Len(mounts) -> 1..n] : Follow(mounts, P, n, f)
    BY <1>1, <1>3, <1>4, <1>5 DEF OrderOf, Follows
  <1>8. PICK vs, v : vs = VolumesOf(cfg[j]) /\ v = VolumeAt(doc[j], i)
    OBVIOUS
  <1>9. Contains(vs, v) /\ IsMounted(v) /\ vs \in Seq(AnyVolume) /\ v.dir = d
    BY <1>3, <1>8, AskedContained DEF VolumeAt
  <1>10. PICK e \in 1..Len(vs) : vs[e] = v
    BY <1>9 DEF Contains
  <1>11. Fills(P, n, vs)
    <2>1. Ordered(P, vs)
      BY <1>1, <1>3, <1>8, PlanOrdered
    <2> QED
      BY <1>3, <1>4, <2>1 DEF Ordered
  <1>12. PICK q \in 1..n :
            /\ Stands(P, n, q) /\ Serves(P[q], v)
            /\ \A r \in (q + 1)..n :
                  P[r].op = "mount" => \E k \in (e + 1)..Len(vs) : Serves(P[r], vs[k])
    BY <1>9, <1>10, <1>11 DEF Fills
  <1>13. /\ \A a, k \in 1..Len(mounts) : a < k => f[a] < f[k]
         /\ \A a \in 1..Len(mounts) : P[f[a]].op = "mount" /\ P[f[a]].id = MountAt(mounts[a].dir)
         /\ \A r \in 1..n : Stands(P, n, r) => \E a \in 1..Len(mounts) : f[a] = r
    BY <1>7 DEF Follow
  <1>14. PICK m \in 1..Len(mounts) : f[m] = q
    BY <1>12, <1>13
  <1>15. \A y, z : MountAt(y) = MountAt(z) => y = z
    <2> SUFFICES ASSUME NEW y, NEW z, MountAt(y) = MountAt(z) PROVE y = z
      OBVIOUS
    <2>1. MountAt(y).name = y /\ MountAt(z).name = z
      BY DEF MountAt
    <2> QED
      BY <2>1
  <1>16. mounts[m].dir = d
    BY <1>9, <1>12, <1>13, <1>14, <1>15 DEF Serves
  <1>17. DOMAIN mounts = 1..Len(mounts) /\ Len(mounts) \in Nat
    BY MountsTyped
  <1>18. ASSUME NEW a \in DOMAIN mounts, Covers(a, d) PROVE a <= m
    <2> SUFFICES ASSUME m < a PROVE FALSE
      BY <1>17
    <2>1. f[a] \in (q + 1)..n /\ P[f[a]].op = "mount"
      BY <1>13, <1>14, <1>17
    <2>2. PICK k \in (e + 1)..Len(vs) : Serves(P[f[a]], vs[k])
      BY <1>12, <2>1
    <2>3. mounts[a].dir = vs[k].dir /\ IsMounted(vs[k])
      BY <1>13, <1>15, <1>17, <2>2 DEF Serves
    <2>4. k \in DOMAIN vs /\ e \in DOMAIN vs /\ e < k
      BY <1>9, <2>2
    <2>5. v.dir # vs[k].dir /\ vs[k].dir \notin Above[v.dir]
      BY <1>8, <1>9, <1>10, <2>3, <2>4 DEF StaysVisible
    <2> QED
      BY <1>9, <1>18, <2>3, <2>5 DEF Covers
  <1>19. Visible(m, d)
    BY <1>16, <1>17, <1>18 DEF Visible, Covers
  <1>20. m \in OwnMounts(j)
    BY <1>6, <1>17 DEF OwnMounts
  <1> QED
    BY <1>16, <1>19, <1>20

\* The steps of a job keep the order of its mounts, and so do those of the others.
LEMMA StepOrder ==
  IInv /\ (OneRootArray => \A j \in Job : OrderOf(j)) /\ [Next]_vars
      => (OneRootArray => \A j \in Job : OrderOf(j))'
  <1> SUFFICES ASSUME IInv, OneRootArray => \A j \in Job : OrderOf(j), [Next]_vars, OneRootArray',
                      NEW k \in Job
               PROVE  OrderOf(k)'
    OBVIOUS
  <1>1. CASE UNCHANGED vars
    <2>1. UNCHANGED <<doc, cfg, phase, pos, mounts>>
      BY <1>1 DEF vars
    <2>2. OneRootArray' = OneRootArray
      BY <2>1 DEF OneRootArray
    <2> QED
      BY <2>1, <2>2 DEF OrderOf
  <1>2. ASSUME NEW j \in Job, Progress(j) \/ Fault(j) PROVE OrderOf(k)'
    <2>1. doc' = doc /\ \A l \in Job \ {j} : Untouched(l)
      BY <1>2, StepOfOne DEF IInv
    <2>2. OneRootArray' = OneRootArray
      BY <2>1 DEF OneRootArray
    <2>3. Safe /\ OrderOf(j) /\ OrderOf(k)
      BY <2>2 DEF Safe, IInv
    <2>4. CASE k = j
      BY <1>2, <2>3, <2>4, RunOrder, PassOrder, RestOrder
    <2>5. CASE k # j
      <3>1. HostChange(j)
        BY <1>2, <2>3, StepSelf DEF HostSafe
      <3> QED
        BY <2>1, <2>3, <2>5, <3>1, OtherOrder
    <2> QED
      BY <2>4, <2>5
  <1> QED
    BY <1>1, <1>2 DEF Next, AllEnded

\* When the tarball is unpacked, each volume that the document asks for is mounted at the
\* directory that it asks for, and nothing hides it unless a later volume is mounted over it.
THEOREM VolumesReached == Spec => [](OneRootArray => UnpackReachesVolumes)
  <1>1. Init => (OneRootArray => \A j \in Job : OrderOf(j))
    BY DEF Init, OrderOf
  <1>2. IInv /\ (OneRootArray => \A j \in Job : OrderOf(j)) =>
            (OneRootArray => UnpackReachesVolumes)
    <2> SUFFICES ASSUME IInv, OneRootArray, \A j \in Job : OrderOf(j) PROVE UnpackReachesVolumes
      OBVIOUS
    <2>1. Safe
      BY DEF Safe, IInv
    <2> QED
      BY <2>1, Reached DEF UnpackReachesVolumes
  <1> QED
    BY <1>1, <1>2, StepOrder, Invariance, PTL DEF Spec
=============================================================================
