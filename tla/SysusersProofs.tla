--------------------------- MODULE SysusersProofs ---------------------------
(***************************************************************************)
(* Proofs about make_sysusers.py, for every set of names, every request,   *)
(* all sane account files and any number of packages between the runs:     *)
(* first types, ids, primary groups and exhaustion; then what a run leaves *)
(* in the shadow files and in the lists of members, and that the late run  *)
(* of a build changes nothing that the early run has set up.               *)
(***************************************************************************)
EXTENDS Sysusers, WellFoundedInduction, TLAPS

-----------------------------------------------------------------------------
(* The generator.                                                          *)

\* A set of natural numbers that is not empty has a least element.
LEMMA LeastNatural ==
  ASSUME NEW S \in SUBSET Nat, S # {}
  PROVE  \E i \in S : \A k \in S : i <= k
  <1> DEFINE Below == OpToRel(<, Nat)
  <1>1. \A i, k \in Nat : <<k, i>> \in Below <=> k < i
    BY DEF OpToRel
  <1>2. IsWellFoundedOn(Below, Nat)
    BY NatLessThanWellFounded
  <1> HIDE DEF Below
  <1>3. \E i \in S : \A k \in S : ~ (<<k, i>> \in Below)
    BY <1>2, WFMin
  <1>4. PICK i \in S : \A k \in S : ~ (<<k, i>> \in Below)
    BY <1>3
  <1>5. ASSUME NEW k \in S PROVE i <= k
    <2>1. k \in Nat /\ i \in Nat
      OBVIOUS
    <2>2. ~ (k < i)
      BY <1>1, <1>4, <2>1, Zenon
    <2> QED
      BY <2>1, <2>2
  <1> QED
    BY <1>5

\* The id that the generator finds is in the rest of its range, free, and the first.
LEMMA FirstFreeIsFree ==
  ASSUME TypeOK, NEW v \in IdKind, Free(v) # {}
  PROVE  /\ FirstFree(v) \in Nat
         /\ FirstFree(v) \in next[v]..IdMax[v]
         /\ FirstFree(v) \notin uidKeys /\ FirstFree(v) \notin gidKeys
         /\ \A i \in Nat : next[v] <= i /\ i < FirstFree(v) => i \in uidKeys \cup gidKeys
  <1> next \in [IdKind -> Nat] /\ IdMax \in [IdKind -> Nat]
    BY IdAssumption, Zenon DEF TypeOK
  <1>1. next[v] \in Nat /\ IdMax[v] \in Nat
    OBVIOUS
  <1>2. Free(v) \in SUBSET Nat
    BY <1>1 DEF Free
  <1>3. PICK i \in Free(v) : \A k \in Free(v) : i <= k
    BY <1>2, LeastNatural
  <1>4. FirstFree(v) \in Free(v) /\ \A k \in Free(v) : FirstFree(v) <= k
    BY <1>3 DEF FirstFree
  <1>5. \A k \in Nat : next[v] <= k /\ k < FirstFree(v) => k \notin Free(v)
    BY <1>2, <1>4
  <1>6. FirstFree(v) <= IdMax[v]
    BY <1>1, <1>4 DEF Free
  <1> QED
    BY <1>1, <1>2, <1>4, <1>5, <1>6 DEF Free
-----------------------------------------------------------------------------
(* What the operations do to the account files.                            *)

\* A gshadow or shadow entry that is replaced is the only thing that changes.
LEMMA ResetShadowFields ==
  ASSUME NEW a \in Accounts, NEW n \in Name
  PROVE  /\ ResetGshadow(a, n) \in Accounts /\ ResetShadow(a, n) \in Accounts
         /\ ResetGshadow(a, n).uid = a.uid /\ ResetShadow(a, n).uid = a.uid
         /\ ResetGshadow(a, n).pgid = a.pgid /\ ResetShadow(a, n).pgid = a.pgid
         /\ ResetGshadow(a, n).gid = a.gid /\ ResetShadow(a, n).gid = a.gid
         /\ ResetGshadow(a, n).mem = a.mem /\ ResetShadow(a, n).mem = a.mem
  BY DEF ResetGshadow, ResetShadow, Accounts, Shadow

LEMMA MembersWritten ==
  ASSUME NEW a \in Accounts, NEW f \in [Name -> SUBSET Name]
  PROVE  LET b == [a EXCEPT !.mem = f] IN
         /\ b \in Accounts
         /\ b.uid = a.uid /\ b.pgid = a.pgid /\ b.gid = a.gid
  BY DEF Accounts

LEMMA PackageGroup ==
  ASSUME NEW a \in Accounts, NEW g \in Name, NEW id \in IdOrNone
  PROVE  /\ WithGroup(a, g, id) \in Accounts
         /\ WithGroup(a, g, id).uid = a.uid /\ WithGroup(a, g, id).pgid = a.pgid
         /\ WithGroup(a, g, id).gid = [a.gid EXCEPT ![g] = id]
  BY DEF WithGroup, Accounts, Shadow

LEMMA PackageUser ==
  ASSUME NEW a \in Accounts, NEW u \in Name, NEW id \in IdOrNone, NEW gid \in IdOrNone
  PROVE  /\ WithUser(a, u, id, gid) \in Accounts
         /\ WithUser(a, u, id, gid).gid = a.gid
         /\ WithUser(a, u, id, gid).uid = [a.uid EXCEPT ![u] = id]
         /\ WithUser(a, u, id, gid).pgid = [a.pgid EXCEPT ![u] = gid]
  BY DEF WithUser, Accounts, Shadow

-----------------------------------------------------------------------------
(* Type correctness.                                                       *)

\* While a user is added or updated, its line is there and its primary group exists.
UserReady == pc = "user" =>
    pos <= Len(lines) /\ Line.user # NoUser /\ db.gid[Line.group] # NoId

TInv == TypeOK /\ UserReady

\* What a line that is there holds.
LEMMA LineTyped ==
  ASSUME TypeOK, pos <= Len(lines)
  PROVE  /\ Line \in SysusersEntry
         /\ Line.group \in Name /\ Line.user \in Name \cup {NoUser}
         /\ Line.uid \in (Nat \ {0}) \cup IdKind /\ Line.gid \in (Nat \ {0}) \cup IdKind
         /\ Line.groups \in Seq(Name)
  <1>1. pos \in 1..Len(lines) /\ lines \in Seq(SysusersEntry)
    BY DEF TypeOK
  <1>2. Line \in SysusersEntry
    BY <1>1 DEF Line
  <1> QED
    BY <1>2 DEF SysusersEntry

\* An id that is used is a number, and the generators keep their types.
LEMMA ResolvedIsNumber ==
  ASSUME TypeOK, NEW v \in (Nat \ {0}) \cup IdKind, NEW n \in Name, Resolvable(v, n)
  PROVE  /\ Resolved(v, n) \in Nat
         /\ Advance(v, n) => /\ cache' \in [IdKind -> [Name -> IdOrNone]]
                             /\ next' \in [IdKind -> Nat]
  <1>1. cache \in [IdKind -> [Name -> IdOrNone]] /\ next \in [IdKind -> Nat]
    BY DEF TypeOK
  <1>2. CASE v \notin IdKind
    BY <1>1, <1>2 DEF Resolved, Advance, Computed, generators
  <1>3. CASE v \in IdKind /\ cache[v][n] # NoId
    BY <1>1, <1>3 DEF Resolved, Advance, Computed, generators, IdOrNone
  <1>4. CASE v \in IdKind /\ cache[v][n] = NoId
    <2>1. Computed(v, n)
      BY <1>4 DEF Computed
    <2>2. Free(v) # {}
      BY <2>1 DEF Resolvable, GivesNothing
    <2>3. FirstFree(v) \in Nat
      BY <1>4, <2>2, FirstFreeIsFree
    <2>4. FirstFree(v) + 1 \in Nat /\ FirstFree(v) \in IdOrNone
      BY <2>3 DEF IdOrNone
    <2>5. Resolved(v, n) = FirstFree(v)
      BY <1>4 DEF Resolved
    <2> QED
      BY <1>1, <1>4, <2>1, <2>3, <2>4, <2>5 DEF Advance
  <1> QED
    BY <1>2, <1>3, <1>4

LEMMA TInit == Init => TInv
  <1> SUFFICES ASSUME Init PROVE TInv
    OBVIOUS
  <1>1. lines \in Seq(SysusersEntry) /\ etc \in Accounts
    BY LineAssumption, EtcAssumption DEF Init
  <1>2. FreshCache \in [IdKind -> [Name -> IdOrNone]]
    BY DEF FreshCache, IdOrNone
  <1>3. IdMin \in [IdKind -> Nat] /\ installs \in 0..MaxInstalls
    BY IdAssumption DEF Init
  <1> QED
    BY <1>1, <1>2, <1>3 DEF Init, TInv, TypeOK, UserReady

LEMMA RequestingTyped ==
  ASSUME TypeOK, NEW g \in Name
  PROVE  Requesting(g) \in SUBSET Name
  <1>1. lines \in Seq(SysusersEntry)
    BY DEF TypeOK
  <1>2. \A i \in DOMAIN lines : lines[i] \in SysusersEntry
    BY <1>1
  <1>3. \A l \in SysusersEntry : l.user \in Name \cup {NoUser}
    BY DEF SysusersEntry
  <1> QED
    BY <1>2, <1>3 DEF Requesting

\* What a block leaves of the type invariant when it fails.
LEMMA FailTyped ==
  ASSUME TInv, NEW why \in Errors, Fail(why)
  PROVE  TInv'
  BY DEF TInv, TypeOK, UserReady, Fail, control, generators, Errors

\* After the group of a line, its user is next, if it has one.
LEMMA AfterGroupTyped ==
  ASSUME TInv, pc = "group", pos <= Len(lines), AfterGroup, UNCHANGED lines,
         db'.gid[Line.group] # NoId
  PROVE  /\ pos' \in Nat \ {0} /\ pc' \in {"group", "user"}
         /\ UserReady'
  <1>1. pos \in Nat \ {0}
    BY DEF TInv, TypeOK
  <1>2. CASE Line.user = NoUser
    BY <1>1, <1>2 DEF AfterGroup, UserReady
  <1>3. CASE Line.user # NoUser
    <2>1. pos' = pos /\ pc' = "user" /\ lines' = lines
      BY <1>3 DEF AfterGroup
    <2>2. Line' = Line
      BY <2>1 DEF Line
    <2> QED
      BY <1>1, <1>3, <2>1, <2>2 DEF UserReady
  <1> QED
    BY <1>2, <1>3

LEMMA AfterUserTyped ==
  ASSUME TInv, pos <= Len(lines), AfterUser
  PROVE  pos' \in Nat \ {0} /\ pc' = "group" /\ toGrant' \in Seq(Name)
  <1>1. pos \in Nat \ {0} /\ toGrant \in Seq(Name)
    BY DEF TInv, TypeOK
  <1>2. Line.groups \in Seq(Name)
    BY LineTyped DEF TInv
  <1>3. toGrant \o Line.groups \in Seq(Name)
    BY <1>1, <1>2
  <1> QED
    BY <1>1, <1>3 DEF AfterUser

LEMMA MoveTyped ==
  ASSUME TypeOK, NEW file \in {"passwd", "group"}, NEW n \in Name, NEW id \in IdOrNone
  PROVE  Move(file, n, id) \subseteq MoveRecord
  BY DEF Move, MoveRecord, TypeOK

-----------------------------------------------------------------------------
(* What each block does to ids and keys, whatever else it changes.         *)

\* The next id of a generator, or an id that was asked for or computed before.
Drawn(id) == \/ next' = next
             \/ \E v \in IdKind : /\ Free(v) # {} /\ id = FirstFree(v)
                                  /\ next' = [next EXCEPT ![v] = id + 1]

GroupJoins(g, id) ==
    /\ db.gid[g] = NoId
    /\ db' \in Accounts
    /\ db'.uid = db.uid /\ db'.pgid = db.pgid /\ db'.gid = [db.gid EXCEPT ![g] = id]
    /\ gidKeys' = gidKeys \cup {id} /\ uidKeys' = uidKeys
    /\ etc' = etc /\ moved' = moved
    /\ Drawn(id)

UserJoins(u, id, gid) ==
    /\ db.uid[u] = NoId
    /\ db' \in Accounts
    /\ db'.gid = db.gid
    /\ db'.uid = [db.uid EXCEPT ![u] = id] /\ db'.pgid = [db.pgid EXCEPT ![u] = gid]
    /\ uidKeys' = uidKeys \cup {id} /\ gidKeys' = gidKeys
    /\ etc' = etc /\ moved' = moved
    /\ Drawn(id)

\* Advance() goes past the id that was resolved, and past nothing else.
LEMMA DrawnByAdvance ==
  ASSUME TypeOK, NEW v \in (Nat \ {0}) \cup IdKind, NEW n \in Name,
         Resolvable(v, n), Advance(v, n)
  PROVE  Drawn(Resolved(v, n))
  <1>1. CASE ~Computed(v, n)
    BY <1>1 DEF Advance, generators, Drawn
  <1>2. CASE Computed(v, n)
    <2>1. Free(v) # {} /\ v \in IdKind /\ Resolved(v, n) = FirstFree(v)
      BY <1>2 DEF Resolvable, GivesNothing, Resolved, Computed
    <2>2. next' = [next EXCEPT ![v] = Resolved(v, n) + 1]
      BY <1>2, <2>1 DEF Advance
    <2> QED
      BY <2>1, <2>2 DEF Drawn
  <1> QED
    BY <1>1, <1>2

LEMMA AddGroupEffect ==
  ASSUME TypeOK, AddGroup
  PROVE  \E id \in Nat \ gidKeys : GroupJoins(Line.group, id)
  <1> DEFINE id == Resolved(Line.gid, Line.group)
             mid == [db EXCEPT !.gid[Line.group] = id, !.mem[Line.group] = {}]
  <1>1. pos <= Len(lines)
    BY DEF AddGroup, AtGroup
  <1>2. Line.group \in Name /\ Line.gid \in (Nat \ {0}) \cup IdKind /\ db \in Accounts
    BY <1>1, LineTyped DEF TypeOK
  <1>3. id \in Nat /\ Drawn(id)
    BY <1>2, ResolvedIsNumber, DrawnByAdvance DEF AddGroup
  <1>4. id \in IdOrNone
    BY <1>3 DEF IdOrNone
  <1>5. /\ mid \in Accounts /\ mid.uid = db.uid /\ mid.pgid = db.pgid
        /\ mid.gid = [db.gid EXCEPT ![Line.group] = id]
    <2> HIDE DEF id
    <2> QED
      BY <1>2, <1>4 DEF Accounts
  <1>6. /\ db' = ResetGshadow(mid, Line.group) /\ gidKeys' = gidKeys \cup {id}
        /\ id \notin gidKeys /\ db.gid[Line.group] = NoId
        /\ uidKeys' = uidKeys /\ etc' = etc /\ moved' = moved
    BY DEF AddGroup
  <1> HIDE DEF mid, id
  <1>7. /\ db' \in Accounts /\ db'.uid = db.uid /\ db'.pgid = db.pgid
        /\ db'.gid = [db.gid EXCEPT ![Line.group] = id]
    BY <1>2, <1>5, <1>6, ResetShadowFields
  <1> QED
    BY <1>3, <1>6, <1>7 DEF GroupJoins

LEMMA AddUserEffect ==
  ASSUME TInv, AddUser
  PROVE  \E id \in Nat \ uidKeys : UserJoins(Line.user, id, db.gid[Line.group])
  <1> DEFINE id == Resolved(Line.uid, Line.user)
             gid == db.gid[Line.group]
             mid == [db EXCEPT !.uid[Line.user] = id, !.pgid[Line.user] = gid]
  <1>1. TypeOK /\ pos <= Len(lines) /\ Line.user # NoUser
    BY DEF TInv, UserReady, AddUser, AtUser
  <1>2. /\ Line.user \in Name /\ Line.group \in Name
        /\ Line.uid \in (Nat \ {0}) \cup IdKind /\ db \in Accounts
    BY <1>1, LineTyped DEF TypeOK
  <1>3. id \in Nat /\ Drawn(id)
    BY <1>1, <1>2, ResolvedIsNumber, DrawnByAdvance DEF AddUser
  <1>4. id \in IdOrNone /\ gid \in IdOrNone
    BY <1>2, <1>3 DEF IdOrNone, Accounts
  <1>5. /\ mid \in Accounts /\ mid.gid = db.gid
        /\ mid.uid = [db.uid EXCEPT ![Line.user] = id]
        /\ mid.pgid = [db.pgid EXCEPT ![Line.user] = gid]
    <2> HIDE DEF id, gid
    <2> QED
      BY <1>2, <1>4 DEF Accounts
  <1>6. /\ db' = ResetShadow(mid, Line.user) /\ uidKeys' = uidKeys \cup {id}
        /\ id \notin uidKeys /\ db.uid[Line.user] = NoId
        /\ gidKeys' = gidKeys /\ etc' = etc /\ moved' = moved
    BY DEF AddUser
  <1> HIDE DEF mid, id, gid
  <1>7. /\ db' \in Accounts /\ db'.gid = db.gid
        /\ db'.uid = [db.uid EXCEPT ![Line.user] = id]
        /\ db'.pgid = [db.pgid EXCEPT ![Line.user] = gid]
    BY <1>2, <1>5, <1>6, ResetShadowFields
  <1>8. UserJoins(Line.user, id, gid)
    BY <1>3, <1>6, <1>7 DEF UserJoins
  <1> QED
    BY <1>3, <1>6, <1>8 DEF gid

LEMMA GrantNewGroupEffect ==
  ASSUME TypeOK, GrantNewGroup
  PROVE  Group \in Name /\ \E id \in Nat \ gidKeys : GroupJoins(Group, id)
  <1> DEFINE id == Resolved(System, Group)
             ms == Requesting(Group)
             mid == [db EXCEPT !.gid[Group] = id, !.mem[Group] = ms]
  <1>1. Group \in Name
    BY DEF GrantNewGroup, AtGrant, TypeOK, Group
  <1>2. System \in (Nat \ {0}) \cup IdKind /\ db \in Accounts /\ ms \in SUBSET Name
    BY <1>1, RequestingTyped DEF TypeOK, IdKind
  <1>3. id \in Nat /\ Drawn(id)
    BY <1>1, <1>2, ResolvedIsNumber, DrawnByAdvance DEF GrantNewGroup
  <1>4. id \in IdOrNone
    BY <1>3 DEF IdOrNone
  <1>5. /\ mid \in Accounts /\ mid.uid = db.uid /\ mid.pgid = db.pgid
        /\ mid.gid = [db.gid EXCEPT ![Group] = id]
    <2> HIDE DEF id, ms
    <2> QED
      BY <1>1, <1>2, <1>4 DEF Accounts
  <1>6. /\ db' = mid /\ gidKeys' = gidKeys \cup {id}
        /\ id \notin gidKeys /\ db.gid[Group] = NoId
        /\ uidKeys' = uidKeys /\ etc' = etc /\ moved' = moved
    BY DEF GrantNewGroup
  <1> HIDE DEF mid, id
  <1> QED
    BY <1>1, <1>3, <1>5, <1>6 DEF GroupJoins

GroupUpdated(g, id) ==
    /\ db.gid[g] # NoId
    /\ db' \in Accounts
    /\ db'.uid = db.uid /\ db'.pgid = db.pgid /\ db'.gid = [db.gid EXCEPT ![g] = id]
    /\ moved' = IF id = db.gid[g] THEN moved ELSE Move("group", g, db.gid[g])

UserUpdated(u, id, gid) ==
    /\ db.uid[u] # NoId
    /\ db' \in Accounts
    /\ db'.gid = db.gid
    /\ db'.uid = [db.uid EXCEPT ![u] = id] /\ db'.pgid = [db.pgid EXCEPT ![u] = gid]
    /\ moved' = IF id = db.uid[u] THEN moved ELSE Move("passwd", u, db.uid[u])

LEMMA UpdateGroupEffect ==
  ASSUME TypeOK, UpdateGroup
  PROVE  \E id \in Nat : GroupUpdated(Line.group, id)
  <1>1. pos <= Len(lines)
    BY DEF UpdateGroup, AtGroup
  <1>2. Line.group \in Name /\ Line.gid \in (Nat \ {0}) \cup IdKind /\ db \in Accounts
    BY <1>1, LineTyped DEF TypeOK
  <1>3. db.gid[Line.group] \in Nat
    BY <1>2 DEF UpdateGroup, Accounts, IdOrNone
  <1>4. CASE Line.gid \in IdKind \cup {db.gid[Line.group]}
    <2>1. db' = ResetGshadow(db, Line.group) /\ moved' = moved
      BY <1>4 DEF UpdateGroup
    <2>2. db.gid = [db.gid EXCEPT ![Line.group] = db.gid[Line.group]]
      BY <1>2 DEF Accounts
    <2>3. db' \in Accounts /\ db'.uid = db.uid /\ db'.pgid = db.pgid /\ db'.gid = db.gid
      BY <1>2, <2>1, ResetShadowFields
    <2>4. GroupUpdated(Line.group, db.gid[Line.group])
      BY <2>1, <2>2, <2>3 DEF GroupUpdated, UpdateGroup
    <2> QED
      BY <1>3, <2>4
  <1>5. CASE Line.gid \notin IdKind \cup {db.gid[Line.group]}
    <2> DEFINE mid == [db EXCEPT !.gid[Line.group] = Line.gid]
    <2>1. /\ db' = ResetGshadow(mid, Line.group)
          /\ moved' = Move("group", Line.group, db.gid[Line.group])
      BY <1>5 DEF UpdateGroup
    <2>2. Line.gid \in Nat /\ Line.gid \in IdOrNone /\ Line.gid # db.gid[Line.group]
      BY <1>2, <1>5 DEF IdOrNone
    <2>3. /\ mid \in Accounts /\ mid.uid = db.uid /\ mid.pgid = db.pgid
          /\ mid.gid = [db.gid EXCEPT ![Line.group] = Line.gid]
      BY <1>2, <2>2 DEF Accounts
    <2> HIDE DEF mid
    <2>4. /\ db' \in Accounts /\ db'.uid = db.uid /\ db'.pgid = db.pgid
          /\ db'.gid = [db.gid EXCEPT ![Line.group] = Line.gid]
      BY <1>2, <2>1, <2>3, ResetShadowFields
    <2>5. GroupUpdated(Line.group, Line.gid)
      BY <2>1, <2>2, <2>4 DEF GroupUpdated, UpdateGroup
    <2> QED
      BY <2>2, <2>5
  <1> QED
    BY <1>4, <1>5

LEMMA UpdateUserEffect ==
  ASSUME TInv, UpdateUser
  PROVE  \E id \in Nat : UserUpdated(Line.user, id, db.gid[Line.group])
  <1> DEFINE old == db.uid[Line.user]
             id == IF Line.uid \in IdKind THEN old ELSE Line.uid
             gid == db.gid[Line.group]
             mid == [db EXCEPT !.uid[Line.user] = id, !.pgid[Line.user] = gid]
  <1>1. TypeOK /\ pos <= Len(lines) /\ Line.user # NoUser
    BY DEF TInv, UserReady, UpdateUser, AtUser
  <1>2. /\ Line.user \in Name /\ Line.group \in Name
        /\ Line.uid \in (Nat \ {0}) \cup IdKind /\ db \in Accounts
    BY <1>1, LineTyped DEF TypeOK
  <1>3. old \in Nat /\ id \in Nat /\ id \in IdOrNone /\ gid \in IdOrNone
    BY <1>2 DEF UpdateUser, Accounts, IdOrNone
  <1>4. /\ mid \in Accounts /\ mid.gid = db.gid
        /\ mid.uid = [db.uid EXCEPT ![Line.user] = id]
        /\ mid.pgid = [db.pgid EXCEPT ![Line.user] = gid]
    <2> HIDE DEF id, gid
    <2> QED
      BY <1>2, <1>3 DEF Accounts
  <1>5. /\ db' = ResetShadow(mid, Line.user) /\ old # NoId
        /\ moved' = IF id = old THEN moved ELSE Move("passwd", Line.user, old)
    BY DEF UpdateUser
  <1> HIDE DEF mid, id, gid
  <1>6. /\ db' \in Accounts /\ db'.gid = db.gid
        /\ db'.uid = [db.uid EXCEPT ![Line.user] = id]
        /\ db'.pgid = [db.pgid EXCEPT ![Line.user] = gid]
    BY <1>2, <1>4, <1>5, ResetShadowFields
  <1>7. UserUpdated(Line.user, id, gid)
    BY <1>5, <1>6 DEF UserUpdated
  <1> QED
    BY <1>3, <1>7 DEF gid

-----------------------------------------------------------------------------
(* Write and the packages: what they do to the files.                      *)

LEMMA WriteEffect ==
  ASSUME TypeOK, Write
  PROVE  /\ etc' \in Accounts
         /\ etc'.uid = db.uid /\ etc'.pgid = db.pgid /\ etc'.gid = db.gid
  <1>1. db \in Accounts /\ \A g \in Name : WrittenMembers(g) \in SUBSET Name
    BY DEF TypeOK, WrittenMembers, Accounts
  <1>2. [g \in Name |-> WrittenMembers(g)] \in [Name -> SUBSET Name]
    BY <1>1
  <1> QED
    BY <1>1, <1>2, MembersWritten DEF Write

LEMMA InstallGroupEffect ==
  ASSUME TypeOK, InstallGroup
  PROVE  \E g \in Name, id \in Nat :
            /\ etc.gid[g] = NoId /\ id \notin InUse(etc.gid)
            /\ etc' \in Accounts
            /\ etc'.uid = etc.uid /\ etc'.pgid = etc.pgid
            /\ etc'.gid = [etc.gid EXCEPT ![g] = id]
  <1>1. PICK g \in Name, id \in PackageIds :
            /\ etc.gid[g] = NoId /\ id \notin InUse(etc.gid)
            /\ Install(WithGroup(etc, g, id))
    BY DEF InstallGroup
  <1>2. id \in Nat /\ id \in IdOrNone /\ etc \in Accounts
    BY IdAssumption DEF TypeOK, IdOrNone
  <1>3. etc' = WithGroup(etc, g, id)
    BY <1>1 DEF Install
  <1> QED
    BY <1>1, <1>2, <1>3, PackageGroup

LEMMA InstallUserEffect ==
  ASSUME TypeOK, InstallUser
  PROVE  \E u, g \in Name, id \in Nat :
            /\ etc.uid[u] = NoId /\ id \notin InUse(etc.uid) /\ etc.gid[g] # NoId
            /\ etc' \in Accounts
            /\ etc'.gid = etc.gid
            /\ etc'.uid = [etc.uid EXCEPT ![u] = id]
            /\ etc'.pgid = [etc.pgid EXCEPT ![u] = etc.gid[g]]
  <1>1. PICK u \in Name, g \in Name, id \in PackageIds :
            /\ etc.uid[u] = NoId /\ id \notin InUse(etc.uid) /\ etc.gid[g] # NoId
            /\ Install(WithUser(etc, u, id, etc.gid[g]))
    BY DEF InstallUser
  <1>2. id \in Nat /\ id \in IdOrNone /\ etc \in Accounts
    BY IdAssumption DEF TypeOK, IdOrNone
  <1>3. etc.gid[g] \in IdOrNone
    BY <1>2 DEF Accounts
  <1>4. etc' = WithUser(etc, u, id, etc.gid[g])
    BY <1>1 DEF Install
  <1> DEFINE gid == etc.gid[g]
  <1>g. gid \in IdOrNone
    BY <1>3
  <1> HIDE DEF gid
  <1>5. /\ WithUser(etc, u, id, gid) \in Accounts
        /\ WithUser(etc, u, id, gid).gid = etc.gid
        /\ WithUser(etc, u, id, gid).uid = [etc.uid EXCEPT ![u] = id]
        /\ WithUser(etc, u, id, gid).pgid = [etc.pgid EXCEPT ![u] = gid]
    BY <1>2, <1>g, PackageUser
  <1>6. etc' = WithUser(etc, u, id, gid)
    BY <1>4 DEF gid
  <1> QED
    BY <1>1, <1>2, <1>5, <1>6 DEF gid

LEMMA InstallOtherEffect ==
  ASSUME TypeOK, InstallMember \/ InstallShadow
  PROVE  /\ etc' \in Accounts
         /\ etc'.uid = etc.uid /\ etc'.pgid = etc.pgid /\ etc'.gid = etc.gid
  <1>1. etc \in Accounts
    BY DEF TypeOK
  <1>2. CASE InstallMember
    <2>1. PICK u \in Name, g \in Name : etc' = [etc EXCEPT !.mem[g] = @ \cup {u}]
      BY <1>2 DEF InstallMember, Install
    <2> QED
      BY <1>1, <2>1 DEF Accounts
  <1>3. CASE InstallShadow
    BY <1>1, <1>3 DEF InstallShadow, Install, Accounts, Shadow
  <1> QED
    BY <1>2, <1>3

\* None of them touches the program's own variables.
LEMMA InstallFrame ==
  ASSUME InstallGroup \/ InstallUser \/ InstallMember \/ InstallShadow
  PROVE  /\ pc = "install" /\ installs < MaxInstalls /\ installs' = installs + 1
         /\ UNCHANGED <<lines, run, pc, pos, db, uidKeys, gidKeys, changed,
                        generators, toGrant, moved>>
  BY DEF InstallGroup, InstallUser, InstallMember, InstallShadow, Install

-----------------------------------------------------------------------------
(* Each step keeps the types.                                              *)

LEMMA TStep == TInv /\ [Next]_vars => TInv'
  <1> SUFFICES ASSUME TInv, [Next]_vars PROVE TInv'
    OBVIOUS
  <1>t. TypeOK
    BY DEF TInv
  <1>1. CASE Load
    <2>1. etc \in Accounts /\ InUse(etc.uid) \subseteq Nat /\ InUse(etc.gid) \subseteq Nat
      BY <1>t DEF TypeOK, Accounts, InUse, IdOrNone
    <2>2. FreshCache \in [IdKind -> [Name -> IdOrNone]] /\ IdMin \in [IdKind -> Nat]
      BY IdAssumption DEF FreshCache, IdOrNone
    <2> QED
      BY <1>1, <1>t, <2>1, <2>2 DEF Load, TInv, TypeOK, UserReady, control, Working
  <1>2. CASE LoadFails \/ AddGroupFails \/ AddUserFails \/ GrantNewGroupFails \/ GrantFails
    <2>1. PICK why \in Errors : Fail(why)
      BY <1>2 DEF LoadFails, AddGroupFails, AddUserFails, GrantNewGroupFails, GrantFails,
                  AddFails, Errors
    <2> QED
      BY <2>1, FailTyped
  <1>3. CASE AddGroup
    <2>1. PICK id \in Nat \ gidKeys : GroupJoins(Line.group, id)
      BY <1>3, <1>t, AddGroupEffect
    <2>2. /\ pc = "group" /\ pos <= Len(lines) /\ AfterGroup /\ lines' = lines
          /\ Line.group \in Name /\ Line.gid \in (Nat \ {0}) \cup IdKind
      BY <1>3, <1>t, LineTyped DEF AddGroup, AtGroup, control
    <2>3. db'.gid[Line.group] # NoId
      BY <1>t, <2>1, <2>2 DEF GroupJoins, TypeOK, Accounts, NoId
    <2>4. pos' \in Nat \ {0} /\ pc' \in {"group", "user"} /\ UserReady'
      BY <2>2, <2>3, AfterGroupTyped
    <2>5. cache' \in [IdKind -> [Name -> IdOrNone]] /\ next' \in [IdKind -> Nat]
      BY <1>3, <1>t, <2>2, ResolvedIsNumber DEF AddGroup
    <2> QED
      BY <1>3, <1>t, <2>1, <2>2, <2>4, <2>5
      DEF AddGroup, GroupJoins, TInv, TypeOK, control, Working
  <1>4. CASE UpdateGroup
    <2>1. PICK id \in Nat : GroupUpdated(Line.group, id)
      BY <1>4, <1>t, UpdateGroupEffect
    <2>2. /\ pc = "group" /\ pos <= Len(lines) /\ AfterGroup /\ lines' = lines
          /\ Line.group \in Name
      BY <1>4, <1>t, LineTyped DEF UpdateGroup, AtGroup, control
    <2>3. db'.gid[Line.group] # NoId /\ db.gid[Line.group] \in IdOrNone
      BY <1>t, <2>1, <2>2 DEF GroupUpdated, TypeOK, Accounts, NoId
    <2>4. pos' \in Nat \ {0} /\ pc' \in {"group", "user"} /\ UserReady'
      BY <2>2, <2>3, AfterGroupTyped
    <2>5. changed' \subseteq Name
      BY <1>4, <1>t, <2>2 DEF UpdateGroup, TypeOK
    <2>6. moved' \subseteq MoveRecord
      BY <1>t, <2>1, <2>2, <2>3, MoveTyped DEF GroupUpdated, TypeOK
    <2>7. db' \in Accounts
      BY <2>1 DEF GroupUpdated
    <2> QED
      BY <1>4, <1>t, <2>4, <2>5, <2>6, <2>7
      DEF UpdateGroup, TInv, TypeOK, control, generators, Working
  <1>5. CASE AddUser
    <2>1. PICK id \in Nat \ uidKeys : UserJoins(Line.user, id, db.gid[Line.group])
      BY <1>5, AddUserEffect
    <2>2. /\ pos <= Len(lines) /\ AfterUser
          /\ Line.user \in Name /\ Line.uid \in (Nat \ {0}) \cup IdKind
      BY <1>5, <1>t, LineTyped DEF TInv, UserReady, AddUser, AtUser
    <2>3. pos' \in Nat \ {0} /\ pc' = "group" /\ toGrant' \in Seq(Name)
      BY <2>2, AfterUserTyped
    <2>4. cache' \in [IdKind -> [Name -> IdOrNone]] /\ next' \in [IdKind -> Nat]
      BY <1>5, <1>t, <2>2, ResolvedIsNumber DEF AddUser
    <2> QED
      BY <1>5, <1>t, <2>1, <2>3, <2>4
      DEF AddUser, UserJoins, TInv, TypeOK, UserReady, control, Working
  <1>6. CASE UpdateUser
    <2>1. PICK id \in Nat : UserUpdated(Line.user, id, db.gid[Line.group])
      BY <1>6, UpdateUserEffect
    <2>2. pos <= Len(lines) /\ AfterUser /\ Line.user \in Name
      BY <1>6, <1>t, LineTyped DEF TInv, UserReady, UpdateUser, AtUser
    <2>3. pos' \in Nat \ {0} /\ pc' = "group" /\ toGrant' \in Seq(Name)
      BY <2>2, AfterUserTyped
    <2>4. db.uid[Line.user] \in IdOrNone
      BY <1>t, <2>2 DEF TypeOK, Accounts
    <2>5. moved' \subseteq MoveRecord
      BY <1>t, <2>1, <2>2, <2>4, MoveTyped DEF UserUpdated, TypeOK
    <2>6. db' \in Accounts
      BY <2>1 DEF UserUpdated
    <2> QED
      BY <1>6, <1>t, <2>3, <2>5, <2>6
      DEF UpdateUser, TInv, TypeOK, UserReady, control, generators, Working
  <1>7. CASE LinesDone
    BY <1>7 DEF LinesDone, TInv, TypeOK, UserReady, control, generators, Working
  <1>8. CASE GrantNewGroup
    <2>1. Group \in Name /\ toGrant # <<>> /\ pc = "grant"
      BY <1>8, <1>t, GrantNewGroupEffect DEF GrantNewGroup, AtGrant
    <2>2. PICK id \in Nat \ gidKeys : GroupJoins(Group, id)
      BY <1>8, <1>t, GrantNewGroupEffect
    <2>3. System \in (Nat \ {0}) \cup IdKind
      BY DEF IdKind
    <2>4. cache' \in [IdKind -> [Name -> IdOrNone]] /\ next' \in [IdKind -> Nat]
      BY <1>8, <1>t, <2>1, <2>3, ResolvedIsNumber DEF GrantNewGroup
    <2>5. toGrant' \in Seq(Name)
      BY <1>8, <1>t, <2>1 DEF GrantNewGroup, TypeOK
    <2> QED
      BY <1>8, <1>t, <2>1, <2>2, <2>4, <2>5
      DEF GrantNewGroup, GroupJoins, TInv, TypeOK, UserReady, control, Working
  <1>9. CASE Grant \/ GrantFound
    <2>1. toGrant' \in Seq(Name) /\ Group \in Name /\ pc = "grant"
      <3>1. toGrant \in Seq(Name) /\ toGrant # <<>>
        BY <1>9, <1>t DEF Grant, GrantFound, AtGrant, TypeOK
      <3>2. pc = "grant" /\ toGrant' = Tail(toGrant)
        BY <1>9 DEF Grant, GrantFound, AtGrant
      <3> QED
        BY <3>1, <3>2 DEF Group
    <2>2. Requesting(Group) \in SUBSET Name /\ db \in Accounts
      BY <1>t, <2>1, RequestingTyped DEF TypeOK
    <2>3. db' \in Accounts /\ changed' \subseteq Name
      <3>1. CASE Grant
        <4>1. db' = [db EXCEPT !.mem[Group] = @ \cup Requesting(Group)]
          BY <3>1 DEF Grant
        <4>2. db' \in Accounts
          BY <2>1, <2>2, <4>1 DEF Accounts
        <4> QED
          BY <1>t, <2>1, <3>1, <4>2 DEF Grant, TypeOK
      <3>2. CASE GrantFound
        BY <1>t, <3>2 DEF GrantFound, TypeOK
      <3> QED
        BY <1>9, <3>1, <3>2
    <2> QED
      BY <1>9, <1>t, <2>1, <2>3
      DEF Grant, GrantFound, TInv, TypeOK, UserReady, control, generators, Working
  <1>10. CASE GrantsDone
    BY <1>10 DEF GrantsDone, TInv, TypeOK, UserReady, control, generators, Working
  <1>11. CASE Write
    <2>1. etc' \in Accounts
      BY <1>11, <1>t, WriteEffect
    <2> QED
      BY <1>11, <2>1 DEF Write, TInv, TypeOK, UserReady, control, generators, Working
  <1>12. CASE InstallGroup \/ InstallUser \/ InstallMember \/ InstallShadow
    <2>1. etc' \in Accounts
      BY <1>12, <1>t, InstallGroupEffect, InstallUserEffect, InstallOtherEffect
    <2>2. installs' \in 0..MaxInstalls
      BY <1>12, <1>t, IdAssumption, InstallFrame DEF TypeOK
    <2> QED
      BY <1>12, <2>1, <2>2, InstallFrame DEF TInv, TypeOK, UserReady, generators, Working, Errors
  <1>13. CASE LateRun
    BY <1>13 DEF LateRun, TInv, TypeOK, UserReady, generators
  <1>14. CASE UNCHANGED vars
    BY <1>14 DEF TInv, TypeOK, UserReady, Line, vars
  <1> QED
    BY <1>1, <1>2, <1>3, <1>4, <1>5, <1>6, <1>7, <1>8, <1>9, <1>10, <1>11, <1>12, <1>13, <1>14
    DEF Next, Ended

\* Type correctness: no block puts anything but a number where an id belongs.
THEOREM TypeCorrect == Spec => []TypeOK
  <1>1. TInv => TypeOK
    BY DEF TInv
  <1> QED
    BY TInit, TStep, <1>1, PTL DEF Spec

LEMMA Typed == Spec => []TInv
  BY TInit, TStep, PTL DEF Spec

-----------------------------------------------------------------------------
(* The steps, as far as ids are concerned: every action is one of these.   *)

AtWork == pc \in Working /\ pc' \in Working
SameIds(a, b) == a.uid = b.uid /\ a.pgid = b.pgid /\ a.gid = b.gid

GroupJoinStep == AtWork /\ \E g \in Name, id \in Nat \ gidKeys : GroupJoins(g, id)
UserJoinStep ==
    AtWork /\ \E u \in Name, id \in Nat \ uidKeys, gid \in InUse(db.gid) : UserJoins(u, id, gid)
GroupUpdateStep ==
    /\ AtWork /\ UNCHANGED <<etc, uidKeys, gidKeys, next>>
    /\ \E g \in Name, id \in Nat : GroupUpdated(g, id)
UserUpdateStep ==
    /\ AtWork /\ UNCHANGED <<etc, uidKeys, gidKeys, next>>
    /\ \E u \in Name, id \in Nat, gid \in InUse(db.gid) : UserUpdated(u, id, gid)
WriteStep ==
    /\ pc' \in {"install", "done"} /\ UNCHANGED <<db, uidKeys, gidKeys, next, moved>>
    /\ SameIds(etc', db)

PackageFrame == /\ pc = "install" /\ pc' = pc
                /\ UNCHANGED <<db, uidKeys, gidKeys, next, moved>>
PackageGroupStep ==
    PackageFrame /\ \E g \in Name, id \in Nat :
        /\ etc.gid[g] = NoId /\ id \notin InUse(etc.gid)
        /\ etc'.uid = etc.uid /\ etc'.pgid = etc.pgid /\ etc'.gid = [etc.gid EXCEPT ![g] = id]
PackageUserStep ==
    PackageFrame /\ \E u \in Name, id \in Nat, gid \in InUse(etc.gid) :
        /\ etc.uid[u] = NoId /\ id \notin InUse(etc.uid)
        /\ etc'.gid = etc.gid /\ etc'.uid = [etc.uid EXCEPT ![u] = id]
        /\ etc'.pgid = [etc.pgid EXCEPT ![u] = gid]

\* Nothing about ids changes.
QuietStep ==
    /\ SameIds(db', db) /\ SameIds(etc', etc)
    /\ UNCHANGED <<uidKeys, gidKeys, next, moved>>
    /\ pc' \in Working => pc \in Working
    /\ pc' = "exhausted" => \/ pc = "exhausted"
                            \/ pc \in Working /\ \E v \in IdKind : Free(v) = {}

Step == \/ Load \/ GroupJoinStep \/ UserJoinStep \/ GroupUpdateStep \/ UserUpdateStep
        \/ WriteStep \/ PackageGroupStep \/ PackageUserStep \/ QuietStep

\* A group that has an id has one that is in use.
LEMMA IdInUse ==
  ASSUME NEW a \in Accounts, NEW g \in Name, a.gid[g] # NoId
  PROVE  a.gid[g] \in InUse(a.gid)
  BY DEF InUse

LEMMA StepShape ==
  ASSUME TInv, [Next]_vars
  PROVE  Step
  <1>t. TypeOK /\ db \in Accounts /\ etc \in Accounts
    BY DEF TInv, TypeOK
  <1>1. CASE Load
    BY <1>1 DEF Step
  <1>2. CASE LoadFails \/ AddGroupFails \/ AddUserFails \/ GrantNewGroupFails \/ GrantFails
    <2>1. \E why \in Errors : Fail(why)
      BY <1>2 DEF LoadFails, AddGroupFails, AddUserFails, GrantNewGroupFails, GrantFails,
                  AddFails, Errors
    <2>2. /\ UNCHANGED <<db, etc, uidKeys, gidKeys, next, moved>>
          /\ pc' \notin Working
      BY <2>1 DEF Fail, Errors, Working, generators
    <2>3. pc' = "exhausted" => pc \in Working /\ \E v \in IdKind : Free(v) = {}
      <3>1. ASSUME NEW v, NEW n, NEW keys, AddFails(v, n, keys), pc' = "exhausted"
            PROVE  v \in IdKind /\ Free(v) = {}
        BY <3>1 DEF AddFails, Fail, GivesNothing, Computed
      <3>2. CASE LoadFails \/ GrantFails
        BY <3>2 DEF LoadFails, GrantFails, Fail
      <3>3. CASE AddGroupFails
        BY <3>1, <3>3 DEF AddGroupFails, AtGroup, Working
      <3>4. CASE AddUserFails
        BY <3>1, <3>4 DEF AddUserFails, AtUser, Working
      <3>5. CASE GrantNewGroupFails
        BY <3>1, <3>5 DEF GrantNewGroupFails, AtGrant, Working
      <3> QED
        BY <1>2, <3>2, <3>3, <3>4, <3>5
    <2> QED
      BY <2>2, <2>3 DEF Step, QuietStep, SameIds
  <1>3. CASE AddGroup
    <2>1. Line.group \in Name /\ AtWork
      BY <1>3, <1>t, LineTyped DEF AddGroup, AtGroup, AfterGroup, AtWork, Working
    <2> QED
      BY <1>3, <1>t, <2>1, AddGroupEffect DEF Step, GroupJoinStep
  <1>4. CASE UpdateGroup
    <2>1. Line.group \in Name /\ AtWork
      BY <1>4, <1>t, LineTyped DEF UpdateGroup, AtGroup, AfterGroup, AtWork, Working
    <2>2. UNCHANGED <<etc, uidKeys, gidKeys, next>>
      BY <1>4 DEF UpdateGroup, generators
    <2> QED
      BY <1>4, <1>t, <2>1, <2>2, UpdateGroupEffect DEF Step, GroupUpdateStep
  <1>5. CASE AddUser \/ UpdateUser
    <2>1. /\ pos <= Len(lines) /\ Line.user # NoUser /\ db.gid[Line.group] # NoId
          /\ AtWork
      BY <1>5 DEF TInv, UserReady, AddUser, UpdateUser, AtUser, AfterUser, AtWork, Working
    <2>2. Line.user \in Name /\ Line.group \in Name
      BY <1>t, <2>1, LineTyped
    <2>3. db.gid[Line.group] \in InUse(db.gid)
      BY <1>t, <2>1, <2>2, IdInUse
    <2>4. CASE AddUser
      BY <2>1, <2>2, <2>3, <2>4, AddUserEffect DEF Step, UserJoinStep
    <2>5. CASE UpdateUser
      <3>1. UNCHANGED <<etc, uidKeys, gidKeys, next>>
        BY <2>5 DEF UpdateUser, generators
      <3> QED
        BY <2>1, <2>2, <2>3, <2>5, <3>1, UpdateUserEffect DEF Step, UserUpdateStep
    <2> QED
      BY <1>5, <2>4, <2>5
  <1>6. CASE GrantNewGroup
    <2>1. AtWork
      BY <1>6 DEF GrantNewGroup, AtGrant, AtWork, Working
    <2> QED
      BY <1>6, <1>t, <2>1, GrantNewGroupEffect DEF Step, GroupJoinStep
  <1>7. CASE Grant
    <2>1. Group \in Name
      <3>1. toGrant \in Seq(Name) /\ toGrant # <<>>
        BY <1>7, <1>t DEF Grant, AtGrant, TypeOK
      <3> QED
        BY <3>1 DEF Group
    <2>2. Requesting(Group) \in SUBSET Name
      BY <1>t, <2>1, RequestingTyped
    <2>3. SameIds(db', db)
      <3>1. db' = [db EXCEPT !.mem[Group] = @ \cup Requesting(Group)]
        BY <1>7 DEF Grant
      <3> QED
        BY <1>t, <2>1, <2>2, <3>1 DEF SameIds, Accounts
    <2> QED
      BY <1>7, <2>3 DEF Grant, AtGrant, Step, QuietStep, SameIds, generators, Working
  <1>8. CASE LinesDone \/ GrantFound \/ GrantsDone \/ LateRun
    BY <1>8 DEF LinesDone, GrantFound, GrantsDone, LateRun, AtGrant, Step, QuietStep, SameIds,
                generators, Working
  <1>9. CASE Write
    <2>1. SameIds(etc', db)
      BY <1>9, <1>t, WriteEffect DEF SameIds
    <2> QED
      BY <1>9, <2>1 DEF Write, Step, WriteStep, generators
  <1>10. CASE InstallGroup \/ InstallUser \/ InstallMember \/ InstallShadow
    <2>1. PackageFrame
      BY <1>10, InstallFrame DEF PackageFrame, generators
    <2>2. CASE InstallGroup
      BY <1>t, <2>1, <2>2, InstallGroupEffect DEF Step, PackageGroupStep
    <2>3. CASE InstallUser
      <3>1. PICK u \in Name, g \in Name, id \in Nat :
              /\ etc.uid[u] = NoId /\ id \notin InUse(etc.uid) /\ etc.gid[g] # NoId
              /\ etc'.gid = etc.gid
              /\ etc'.uid = [etc.uid EXCEPT ![u] = id]
              /\ etc'.pgid = [etc.pgid EXCEPT ![u] = etc.gid[g]]
        BY <1>t, <2>3, InstallUserEffect
      <3>2. etc.gid[g] \in InUse(etc.gid)
        BY <1>t, <3>1, IdInUse
      <3> QED
        BY <2>1, <3>1, <3>2 DEF Step, PackageUserStep
    <2>4. CASE InstallMember \/ InstallShadow
      BY <1>t, <2>1, <2>4, InstallOtherEffect
      DEF Step, QuietStep, PackageFrame, SameIds, Working
    <2> QED
      BY <1>10, <2>2, <2>3, <2>4
  <1>11. CASE UNCHANGED vars
    BY <1>11 DEF vars, Step, QuietStep, SameIds
  <1> QED
    BY <1>1, <1>2, <1>3, <1>4, <1>5, <1>6, <1>7, <1>8, <1>9, <1>10, <1>11 DEF Next, Ended

-----------------------------------------------------------------------------
(* Shared ids.                                                             *)

\* The keys cover each id but those of accounts that were moved.
Keyed(ids, keys, movedNames) ==
    \A n \in Name : ids[n] # NoId /\ n \notin movedNames => ids[n] \in keys

KeysCover == pc \in Working => /\ Keyed(db.uid, uidKeys, MovedNames("passwd"))
                               /\ Keyed(db.gid, gidKeys, MovedNames("group"))

SharedInv == DuplicatesAreMoved /\ KeysCover

\* The check against the keys is as good as one against all accounts, but those
\* that were moved.
LEMMA JoinKeepsShared ==
  ASSUME NEW ids \in [Name -> IdOrNone], NEW keys, NEW M, NEW n \in Name, NEW id \in Nat \ keys,
         SharedOnlyWith(ids, M), Keyed(ids, keys, M)
  PROVE  /\ SharedOnlyWith([ids EXCEPT ![n] = id], M)
         /\ Keyed([ids EXCEPT ![n] = id], keys \cup {id}, M)
  <1> DEFINE new == [ids EXCEPT ![n] = id]
  <1>1. new[n] = id /\ \A k \in Name : k # n => new[k] = ids[k]
    OBVIOUS
  <1>2. id # NoId
    BY DEF NoId
  <1>3. \A k \in Name : k # n /\ ids[k] = id => k \in M
    BY <1>2 DEF Keyed
  <1> HIDE DEF new
  <1>4. SharedOnlyWith(new, M)
    BY <1>1, <1>2, <1>3 DEF SharedOnlyWith
  <1>5. Keyed(new, keys \cup {id}, M)
    BY <1>1, <1>2 DEF Keyed
  <1> QED
    BY <1>4, <1>5 DEF new

LEMMA UpdateKeepsShared ==
  ASSUME NEW ids \in [Name -> IdOrNone], NEW keys, NEW M, NEW M2, NEW n \in Name, NEW id \in Nat,
         SharedOnlyWith(ids, M), Keyed(ids, keys, M),
         M \subseteq M2, id = ids[n] \/ n \in M2
  PROVE  /\ SharedOnlyWith([ids EXCEPT ![n] = id], M2)
         /\ Keyed([ids EXCEPT ![n] = id], keys, M2)
  <1> DEFINE new == [ids EXCEPT ![n] = id]
  <1>1. new[n] = id /\ \A k \in Name : k # n => new[k] = ids[k]
    OBVIOUS
  <1> HIDE DEF new
  <1>2. SharedOnlyWith(new, M2)
    BY <1>1 DEF SharedOnlyWith
  <1>3. Keyed(new, keys, M2)
    BY <1>1 DEF Keyed
  <1> QED
    BY <1>2, <1>3 DEF new

LEMMA InstallKeepsShared ==
  ASSUME NEW ids \in [Name -> IdOrNone], NEW M, NEW n \in Name, NEW id \in Nat,
         SharedOnlyWith(ids, M), id \notin InUse(ids)
  PROVE  SharedOnlyWith([ids EXCEPT ![n] = id], M)
  <1> DEFINE new == [ids EXCEPT ![n] = id]
  <1>1. new[n] = id /\ \A k \in Name : k # n => new[k] = ids[k]
    OBVIOUS
  <1>2. \A k \in Name : ids[k] # id
    BY DEF InUse, NoId
  <1> HIDE DEF new
  <1>3. SharedOnlyWith(new, M)
    BY <1>1, <1>2 DEF SharedOnlyWith
  <1> QED
    BY <1>3 DEF new

LEMMA MoveGrows ==
  ASSUME NEW file \in {"passwd", "group"}, NEW n \in Name, NEW id, NEW f,
         moved' = Move(file, n, id)
  PROVE  /\ MovedNames(f) \subseteq MovedNames(f)' /\ MovedFrom(f) \subseteq MovedFrom(f)'
         /\ n \in MovedNames(file)' /\ id \in MovedFrom(file)'
  <1> DEFINE r == [run |-> run, file |-> file, name |-> n, from |-> id]
  <1>1. moved \subseteq moved' /\ r \in moved'
    BY DEF Move
  <1>2. r.file = file /\ r.name = n /\ r.from = id
    OBVIOUS
  <1> HIDE DEF r
  <1> QED
    BY <1>1, <1>2 DEF MovedNames, MovedFrom, MovedIn

LEMMA MovedSame ==
  ASSUME moved' = moved, NEW f
  PROVE  MovedNames(f)' = MovedNames(f) /\ MovedFrom(f)' = MovedFrom(f)
  BY DEF MovedNames, MovedFrom, MovedIn

\* Sane files share nothing.
LEMMA SharedInit == Init => SharedInv
  <1> SUFFICES ASSUME Init PROVE SharedInv
    OBVIOUS
  <1>1. Sane(etc) /\ db = etc /\ pc = "load"
    BY EtcAssumption DEF Init
  <1>2. \A ids, M : ~Duplicates(ids) => SharedOnlyWith(ids, M)
    BY DEF Duplicates, SharedOnlyWith
  <1> QED
    BY <1>1, <1>2 DEF Sane, SharedInv, DuplicatesAreMoved, KeysCover, Working

LEMMA SharedStep == TInv /\ SharedInv /\ [Next]_vars => SharedInv'
  <1> SUFFICES ASSUME TInv, SharedInv, [Next]_vars PROVE SharedInv'
    OBVIOUS
  <1> DEFINE MU == MovedNames("passwd")
             MG == MovedNames("group")
  <1>t. /\ db.uid \in [Name -> IdOrNone] /\ db.gid \in [Name -> IdOrNone]
        /\ etc.uid \in [Name -> IdOrNone] /\ etc.gid \in [Name -> IdOrNone]
    BY DEF TInv, TypeOK, Accounts
  <1>s. /\ SharedOnlyWith(db.uid, MU) /\ SharedOnlyWith(db.gid, MG)
        /\ SharedOnlyWith(etc.uid, MU) /\ SharedOnlyWith(etc.gid, MG)
    BY DEF SharedInv, DuplicatesAreMoved
  <1>k. pc \in Working => Keyed(db.uid, uidKeys, MU) /\ Keyed(db.gid, gidKeys, MG)
    BY DEF SharedInv, KeysCover
  <1>goal. SUFFICES
           /\ SharedOnlyWith(db'.uid, MU') /\ SharedOnlyWith(db'.gid, MG')
           /\ SharedOnlyWith(etc'.uid, MU') /\ SharedOnlyWith(etc'.gid, MG')
           /\ pc' \in Working => Keyed(db'.uid, uidKeys', MU') /\ Keyed(db'.gid, gidKeys', MG')
    BY DEF SharedInv, DuplicatesAreMoved, KeysCover
  <1>same. moved' = moved => MU' = MU /\ MG' = MG
    BY MovedSame
  <1> HIDE DEF MU, MG
  <1>1. CASE Load
    <2>1. db' = etc /\ etc' = etc /\ uidKeys' = InUse(etc.uid) /\ gidKeys' = InUse(etc.gid)
      BY <1>1 DEF Load
    <2>2. \A ids, M : Keyed(ids, InUse(ids), M)
      BY DEF Keyed, InUse
    <2>3. MU' = MU /\ MG' = MG
      BY <1>1, <1>same DEF Load
    <2> QED
      BY <1>s, <2>1, <2>2, <2>3
  <1>2. CASE GroupJoinStep
    <2>1. PICK g \in Name, id \in Nat \ gidKeys : GroupJoins(g, id)
      BY <1>2 DEF GroupJoinStep
    <2>2. MU' = MU /\ MG' = MG /\ pc \in Working
      BY <1>2, <1>same, <2>1 DEF GroupJoinStep, AtWork, GroupJoins
    <2>3. /\ SharedOnlyWith([db.gid EXCEPT ![g] = id], MG)
          /\ Keyed([db.gid EXCEPT ![g] = id], gidKeys \cup {id}, MG)
      BY <1>t, <1>s, <1>k, <2>2, JoinKeepsShared
    <2> QED
      BY <1>s, <1>k, <2>1, <2>2, <2>3 DEF GroupJoins
  <1>3. CASE UserJoinStep
    <2>1. PICK u \in Name, id \in Nat \ uidKeys, gid \in InUse(db.gid) : UserJoins(u, id, gid)
      BY <1>3 DEF UserJoinStep
    <2>2. MU' = MU /\ MG' = MG /\ pc \in Working
      BY <1>3, <1>same, <2>1 DEF UserJoinStep, AtWork, UserJoins
    <2>3. /\ SharedOnlyWith([db.uid EXCEPT ![u] = id], MU)
          /\ Keyed([db.uid EXCEPT ![u] = id], uidKeys \cup {id}, MU)
      BY <1>t, <1>s, <1>k, <2>2, JoinKeepsShared
    <2> QED
      BY <1>s, <1>k, <2>1, <2>2, <2>3 DEF UserJoins
  <1>w. ASSUME NEW ids, NEW M, NEW M2, M \subseteq M2
        PROVE  /\ SharedOnlyWith(ids, M) => SharedOnlyWith(ids, M2)
               /\ \A keys : Keyed(ids, keys, M) => Keyed(ids, keys, M2)
    BY <1>w DEF SharedOnlyWith, Keyed
  <1>4. CASE GroupUpdateStep
    <2>1. PICK g \in Name, id \in Nat : GroupUpdated(g, id)
      BY <1>4 DEF GroupUpdateStep
    <2>2. UNCHANGED <<etc, uidKeys, gidKeys>> /\ pc \in Working
      BY <1>4 DEF GroupUpdateStep, AtWork
    <2>3. MU \subseteq MU' /\ MG \subseteq MG' /\ (id = db.gid[g] \/ g \in MG')
      <3>1. CASE id = db.gid[g]
        BY <1>same, <2>1, <3>1 DEF GroupUpdated
      <3>2. CASE id # db.gid[g]
        <4>1. moved' = Move("group", g, db.gid[g])
          BY <2>1, <3>2 DEF GroupUpdated
        <4> QED
          BY <4>1, MoveGrows DEF MU, MG
      <3> QED
        BY <3>1, <3>2
    <2>4. /\ SharedOnlyWith([db.gid EXCEPT ![g] = id], MG')
          /\ Keyed([db.gid EXCEPT ![g] = id], gidKeys, MG')
      BY <1>t, <1>s, <1>k, <2>2, <2>3, UpdateKeepsShared
    <2>5. db'.gid = [db.gid EXCEPT ![g] = id] /\ db'.uid = db.uid
      BY <2>1 DEF GroupUpdated
    <2> QED
      BY <1>s, <1>k, <1>w, <2>2, <2>3, <2>4, <2>5
  <1>5. CASE UserUpdateStep
    <2>1. PICK u \in Name, id \in Nat, gid \in InUse(db.gid) : UserUpdated(u, id, gid)
      BY <1>5 DEF UserUpdateStep
    <2>2. UNCHANGED <<etc, uidKeys, gidKeys>> /\ pc \in Working
      BY <1>5 DEF UserUpdateStep, AtWork
    <2>3. MU \subseteq MU' /\ MG \subseteq MG' /\ (id = db.uid[u] \/ u \in MU')
      <3>1. CASE id = db.uid[u]
        BY <1>same, <2>1, <3>1 DEF UserUpdated
      <3>2. CASE id # db.uid[u]
        <4>1. moved' = Move("passwd", u, db.uid[u])
          BY <2>1, <3>2 DEF UserUpdated
        <4> QED
          BY <4>1, MoveGrows DEF MU, MG
      <3> QED
        BY <3>1, <3>2
    <2>4. /\ SharedOnlyWith([db.uid EXCEPT ![u] = id], MU')
          /\ Keyed([db.uid EXCEPT ![u] = id], uidKeys, MU')
      BY <1>t, <1>s, <1>k, <2>2, <2>3, UpdateKeepsShared
    <2>5. db'.uid = [db.uid EXCEPT ![u] = id] /\ db'.gid = db.gid
      BY <2>1 DEF UserUpdated
    <2> QED
      BY <1>s, <1>k, <1>w, <2>2, <2>3, <2>4, <2>5
  <1>6. CASE WriteStep
    BY <1>6, <1>s, <1>same DEF WriteStep, SameIds, Working
  <1>7. CASE PackageGroupStep
    <2>1. PICK g \in Name, id \in Nat :
             /\ id \notin InUse(etc.gid)
             /\ etc'.uid = etc.uid /\ etc'.gid = [etc.gid EXCEPT ![g] = id]
      BY <1>7 DEF PackageGroupStep
    <2>2. SharedOnlyWith([etc.gid EXCEPT ![g] = id], MG)
      BY <1>t, <1>s, <2>1, InstallKeepsShared
    <2> QED
      BY <1>7, <1>s, <1>same, <2>1, <2>2 DEF PackageGroupStep, PackageFrame, Working
  <1>8. CASE PackageUserStep
    <2>1. PICK u \in Name, id \in Nat :
             /\ id \notin InUse(etc.uid)
             /\ etc'.gid = etc.gid /\ etc'.uid = [etc.uid EXCEPT ![u] = id]
      BY <1>8 DEF PackageUserStep
    <2>2. SharedOnlyWith([etc.uid EXCEPT ![u] = id], MU)
      BY <1>t, <1>s, <2>1, InstallKeepsShared
    <2> QED
      BY <1>8, <1>s, <1>same, <2>1, <2>2 DEF PackageUserStep, PackageFrame, Working
  <1>9. CASE QuietStep
    BY <1>9, <1>s, <1>k, <1>same DEF QuietStep, SameIds
  <1> QED
    BY StepShape, <1>1, <1>2, <1>3, <1>4, <1>5, <1>6, <1>7, <1>8, <1>9 DEF Step

\* Two accounts get the same id only by a line that replaces the id of one: the
\* check of an added id against the keys of by_id misses no account that this run
\* loaded or added.
THEOREM NoSharedIds == Spec => []DuplicatesAreMoved
  <1>1. SharedInv => DuplicatesAreMoved
    BY DEF SharedInv
  <1> QED
    BY Typed, SharedInit, SharedStep, <1>1, PTL DEF Spec

-----------------------------------------------------------------------------
(* Primary groups.                                                         *)

\* An id that is replaced is the only one that can go.
LEMMA InUseKept ==
  ASSUME NEW ids \in [Name -> IdOrNone], NEW n \in Name, NEW id \in Nat
  PROVE  InUse(ids) \ {ids[n]} \subseteq InUse([ids EXCEPT ![n] = id])
  BY DEF InUse

LEMMA PrimaryInit == Init => PrimaryGroupsExist
  BY EtcAssumption DEF Init, Sane, PrimaryGroupsExist, PrimaryGroupIn

LEMMA PrimaryStep == TInv /\ PrimaryGroupsExist /\ [Next]_vars => PrimaryGroupsExist'
  <1> SUFFICES ASSUME TInv, PrimaryGroupsExist, [Next]_vars PROVE PrimaryGroupsExist'
    OBVIOUS
  <1> DEFINE From == MovedFrom("group")
             Ok(a) == \A u \in Name : a.uid[u] # NoId => a.pgid[u] \in InUse(a.gid) \cup From
             OkNext(a) == \A u \in Name : a.uid[u] # NoId => a.pgid[u] \in InUse(a.gid) \cup From'
  <1>t. db \in Accounts /\ etc \in Accounts
    BY DEF TInv, TypeOK
  <1>f. /\ db.uid \in [Name -> IdOrNone] /\ db.gid \in [Name -> IdOrNone]
        /\ db.pgid \in [Name -> IdOrNone]
        /\ etc.uid \in [Name -> IdOrNone] /\ etc.gid \in [Name -> IdOrNone]
        /\ etc.pgid \in [Name -> IdOrNone]
    BY <1>t DEF Accounts
  <1>p. Ok(db) /\ Ok(etc)
    BY DEF PrimaryGroupsExist, PrimaryGroupIn
  <1>goal. SUFFICES OkNext(db') /\ OkNext(etc')
    BY DEF PrimaryGroupsExist, PrimaryGroupIn
  <1>same. moved' = moved => From' = From
    BY MovedSame
  <1> HIDE DEF From
  <1>1. CASE Load \/ WriteStep \/ QuietStep
    BY <1>1, <1>p, <1>same DEF Load, WriteStep, QuietStep, SameIds
  <1>2. CASE GroupJoinStep
    <2>1. PICK g \in Name, id \in Nat \ gidKeys : GroupJoins(g, id)
      BY <1>2 DEF GroupJoinStep
    <2>2. /\ InUse(db.gid) \ {db.gid[g]} \subseteq InUse(db'.gid) /\ NoId \notin InUse(db.gid)
          /\ db.gid[g] = NoId
      BY <1>f, <2>1, InUseKept DEF GroupJoins, InUse
    <2>3. From' = From /\ etc' = etc /\ db'.uid = db.uid /\ db'.pgid = db.pgid
      BY <1>same, <2>1 DEF GroupJoins
    <2>4. InUse(db.gid) \subseteq InUse(db'.gid)
      BY <2>2
    <2> QED
      BY <1>p, <2>3, <2>4
  <1>3. CASE UserJoinStep
    <2>1. PICK u \in Name, id \in Nat \ uidKeys, gid \in InUse(db.gid) : UserJoins(u, id, gid)
      BY <1>3 DEF UserJoinStep
    <2>2. /\ From' = From /\ etc' = etc /\ db'.gid = db.gid
          /\ db'.uid = [db.uid EXCEPT ![u] = id] /\ db'.pgid = [db.pgid EXCEPT ![u] = gid]
      BY <1>same, <2>1 DEF UserJoins
    <2> QED
      BY <1>f, <1>p, <2>2
  <1>4. CASE GroupUpdateStep
    <2>1. PICK g \in Name, id \in Nat : GroupUpdated(g, id)
      BY <1>4 DEF GroupUpdateStep
    <2>2. /\ etc' = etc /\ db'.uid = db.uid /\ db'.pgid = db.pgid
          /\ db'.gid = [db.gid EXCEPT ![g] = id]
      BY <1>4, <2>1 DEF GroupUpdateStep, GroupUpdated
    <2>3. InUse(db.gid) \ {db.gid[g]} \subseteq InUse(db'.gid)
      BY <1>f, <2>2, InUseKept
    <2>4. From \subseteq From' /\ db.gid[g] \in InUse(db'.gid) \cup From'
      <3>1. CASE id = db.gid[g]
        <4>1. From' = From /\ db'.gid = db.gid /\ db.gid[g] # NoId
          BY <1>f, <1>same, <2>1, <2>2, <3>1 DEF GroupUpdated
        <4> QED
          BY <4>1 DEF InUse
      <3>2. CASE id # db.gid[g]
        <4>1. moved' = Move("group", g, db.gid[g])
          BY <2>1, <3>2 DEF GroupUpdated
        <4> QED
          BY <4>1, MoveGrows DEF From
      <3> QED
        BY <3>1, <3>2
    <2> QED
      BY <1>p, <2>2, <2>3, <2>4
  <1>5. CASE UserUpdateStep
    <2>1. PICK u \in Name, id \in Nat, gid \in InUse(db.gid) : UserUpdated(u, id, gid)
      BY <1>5 DEF UserUpdateStep
    <2>2. /\ etc' = etc /\ db'.gid = db.gid
          /\ db'.uid = [db.uid EXCEPT ![u] = id] /\ db'.pgid = [db.pgid EXCEPT ![u] = gid]
          /\ db.uid[u] # NoId
      BY <1>5, <2>1 DEF UserUpdateStep, UserUpdated
    <2>3. From \subseteq From'
      <3>1. CASE id = db.uid[u]
        BY <1>same, <2>1, <3>1 DEF UserUpdated
      <3>2. CASE id # db.uid[u]
        <4>1. moved' = Move("passwd", u, db.uid[u])
          BY <2>1, <3>2 DEF UserUpdated
        <4> QED
          BY <4>1, MoveGrows DEF From
      <3> QED
        BY <3>1, <3>2
    <2> QED
      BY <1>f, <1>p, <2>2, <2>3
  <1>6. CASE PackageGroupStep
    <2>1. PICK g \in Name, id \in Nat :
             /\ etc.gid[g] = NoId
             /\ etc'.uid = etc.uid /\ etc'.pgid = etc.pgid
             /\ etc'.gid = [etc.gid EXCEPT ![g] = id]
      BY <1>6 DEF PackageGroupStep
    <2>2. InUse(etc.gid) \ {etc.gid[g]} \subseteq InUse(etc'.gid) /\ NoId \notin InUse(etc.gid)
      BY <1>f, <2>1, InUseKept DEF InUse
    <2>3. InUse(etc.gid) \subseteq InUse(etc'.gid)
      BY <2>1, <2>2
    <2> QED
      BY <1>6, <1>p, <1>same, <2>1, <2>3 DEF PackageGroupStep, PackageFrame
  <1>7. CASE PackageUserStep
    <2>1. PICK u \in Name, id \in Nat, gid \in InUse(etc.gid) :
             /\ etc'.gid = etc.gid /\ etc'.uid = [etc.uid EXCEPT ![u] = id]
             /\ etc'.pgid = [etc.pgid EXCEPT ![u] = gid]
      BY <1>7 DEF PackageUserStep
    <2>2. db' = db /\ From' = From
      BY <1>7, <1>same DEF PackageUserStep, PackageFrame
    <2> QED
      BY <1>f, <1>p, <2>1, <2>2
  <1> QED
    BY StepShape, <1>1, <1>2, <1>3, <1>4, <1>5, <1>6, <1>7 DEF Step

\* The primary group of each user exists, unless it had the user's gid before a
\* line replaced it.
THEOREM PrimaryGroups == Spec => []PrimaryGroupsExist
  BY Typed, PrimaryInit, PrimaryStep, PTL DEF Spec

-----------------------------------------------------------------------------
(* Exhaustion.                                                             *)

\* What a generator went past is taken.
Skipped == pc \in Working => \A v \in IdKind, i \in Nat :
    IdMin[v] <= i /\ i < next[v] => i \in uidKeys \cup gidKeys

ExhaustInv == ExhaustedMeansFull /\ Skipped

LEMMA ExhaustInit == Init => ExhaustInv
  BY DEF Init, ExhaustInv, ExhaustedMeansFull, Skipped, Working

\* Drawing an id leaves no free id behind.
LEMMA DrawKeepsSkipped ==
  ASSUME TInv, NEW id \in Nat, Drawn(id),
         uidKeys' \cup gidKeys' = uidKeys \cup gidKeys \cup {id},
         pc \in Working, Skipped
  PROVE  Skipped'
  <1> DEFINE Taken == uidKeys \cup gidKeys
  <1>1. next \in [IdKind -> Nat] /\ IdMin \in [IdKind -> Nat]
    BY IdAssumption DEF TInv, TypeOK
  <1>2. \A v \in IdKind, i \in Nat : IdMin[v] <= i /\ i < next[v] => i \in Taken
    BY DEF Skipped
  <1>3. ASSUME NEW v \in IdKind, NEW i \in Nat, IdMin[v] <= i, i < next'[v]
        PROVE  i \in Taken \cup {id}
    <2>1. CASE next' = next
      BY <1>2, <1>3, <2>1
    <2>2. ASSUME NEW w \in IdKind, Free(w) # {}, id = FirstFree(w),
                 next' = [next EXCEPT ![w] = id + 1]
          PROVE  i \in Taken \cup {id}
      <3>1. CASE v # w
        <4>1. next'[v] = next[v]
          BY <1>1, <2>2, <3>1
        <4> QED
          BY <1>2, <1>3, <4>1
      <3>2. CASE v = w
        <4>1. next'[v] = id + 1 /\ next[v] \in Nat
          BY <1>1, <2>2, <3>2
        <4>2. i < next[v] \/ i = id \/ (next[v] <= i /\ i < id)
          BY <1>3, <4>1
        <4>3. next[v] <= i /\ i < id => i \in Taken
          BY <2>2, <3>2, FirstFreeIsFree DEF TInv
        <4> QED
          BY <1>2, <1>3, <4>2, <4>3
      <3> QED
        BY <3>1, <3>2
    <2> QED
      BY <2>1, <2>2 DEF Drawn
  <1> QED
    BY <1>3 DEF Skipped

LEMMA ExhaustStep == TInv /\ ExhaustInv /\ [Next]_vars => ExhaustInv'
  <1> SUFFICES ASSUME TInv, ExhaustInv, [Next]_vars PROVE ExhaustInv'
    OBVIOUS
  <1>s. ExhaustedMeansFull /\ Skipped
    BY DEF ExhaustInv
  <1>n. next \in [IdKind -> Nat] /\ IdMin \in [IdKind -> Nat] /\ IdMax \in [IdKind -> Nat]
    BY IdAssumption DEF TInv, TypeOK
  <1>1. CASE Load
    <2>1. pc' = "group" /\ next' = IdMin
      BY <1>1 DEF Load
    <2> QED
      BY <1>n, <2>1 DEF ExhaustInv, ExhaustedMeansFull, Skipped
  <1>2. CASE GroupJoinStep \/ UserJoinStep
    <2>1. pc \in Working /\ pc' # "exhausted"
      BY <1>2 DEF GroupJoinStep, UserJoinStep, AtWork, Working
    <2>2. PICK id \in Nat : Drawn(id) /\ uidKeys' \cup gidKeys' = uidKeys \cup gidKeys \cup {id}
      <3>1. CASE GroupJoinStep
        BY <3>1 DEF GroupJoinStep, GroupJoins
      <3>2. CASE UserJoinStep
        BY <3>2 DEF UserJoinStep, UserJoins
      <3> QED
        BY <1>2, <3>1, <3>2
    <2> QED
      BY <1>s, <2>1, <2>2, DrawKeepsSkipped DEF ExhaustInv, ExhaustedMeansFull
  <1>3. CASE GroupUpdateStep \/ UserUpdateStep
    <2>1. pc \in Working /\ pc' # "exhausted" /\ UNCHANGED <<uidKeys, gidKeys, next>>
      BY <1>3 DEF GroupUpdateStep, UserUpdateStep, AtWork, Working
    <2> QED
      BY <1>s, <2>1 DEF ExhaustInv, ExhaustedMeansFull, Skipped
  <1>4. CASE WriteStep \/ PackageGroupStep \/ PackageUserStep
    <2>1. pc' \in {"install", "done"}
      BY <1>4 DEF WriteStep, PackageGroupStep, PackageUserStep, PackageFrame
    <2> QED
      BY <2>1 DEF ExhaustInv, ExhaustedMeansFull, Skipped, Working
  <1>5. CASE QuietStep
    <2>1. UNCHANGED <<uidKeys, gidKeys, next>> /\ (pc' \in Working => pc \in Working)
      BY <1>5 DEF QuietStep
    <2>2. Skipped'
      BY <1>s, <2>1 DEF Skipped
    <2>3. ExhaustedMeansFull'
      <3>1. CASE pc' # "exhausted"
        BY <3>1 DEF ExhaustedMeansFull
      <3>2. CASE pc = "exhausted"
        BY <1>s, <2>1, <3>2 DEF ExhaustedMeansFull
      <3>3. ASSUME pc \in Working, NEW v \in IdKind, Free(v) = {}
            PROVE  ExhaustedMeansFull'
        <4>1. ASSUME NEW i \in IdMin[v]..IdMax[v] PROVE i \in uidKeys \cup gidKeys
          <5>1. i \in Nat /\ IdMin[v] <= i /\ i <= IdMax[v] /\ next[v] \in Nat
            BY <1>n
          <5>2. i < next[v] \/ i \in next[v]..IdMax[v]
            BY <1>n, <5>1
          <5> QED
            BY <1>s, <3>3, <5>1, <5>2 DEF Skipped, Free
        <4> QED
          BY <2>1, <4>1 DEF ExhaustedMeansFull
      <3> QED
        BY <1>5, <3>1, <3>2, <3>3 DEF QuietStep
    <2> QED
      BY <2>2, <2>3 DEF ExhaustInv
  <1> QED
    BY StepShape, <1>1, <1>2, <1>3, <1>4, <1>5 DEF Step

\* A generator reports that its range is exhausted only if every id of the range
\* is taken: going through the range once, from where it stopped, skips none.
THEOREM ExhaustionJustified == Spec => []ExhaustedMeansFull
  <1>1. ExhaustInv => ExhaustedMeansFull
    BY DEF ExhaustInv
  <1> QED
    BY Typed, ExhaustInit, ExhaustStep, <1>1, PTL DEF Spec

-----------------------------------------------------------------------------
(* What each block does, as far as the properties below are concerned.     *)

\* The shadow entry of a name is reset, if there is such a file.
Reset(there, entries, n) == IF there THEN [entries EXCEPT ![n] = "ours"] ELSE entries

GroupBlock(g, id) ==
    /\ AtGroup /\ AfterGroup /\ g = Line.group
    /\ UNCHANGED <<lines, run, etc, toGrant>>
    /\ db'.uid = db.uid /\ db'.pgid = db.pgid
    /\ db'.gid = [db.gid EXCEPT ![g] = id]
    /\ Line.gid \notin IdKind => id = Line.gid
    /\ \/ /\ db.gid[g] = NoId /\ db'.mem = [db.mem EXCEPT ![g] = {}]
          /\ moved' = moved /\ changed' = changed \cup {g}
       \/ /\ db.gid[g] # NoId /\ db'.mem = db.mem
          /\ id = db.gid[g] /\ moved' = moved /\ changed' = changed
       \/ /\ db.gid[g] # NoId /\ db'.mem = db.mem
          /\ id # db.gid[g] /\ Line.gid \notin IdKind
          /\ moved' = Move("group", g, db.gid[g])
          /\ changed' = changed \cup {g}
    /\ db'.shadowed = db.shadowed /\ db'.gshadowed = db.gshadowed
    /\ db'.shadow = db.shadow
    /\ db'.gshadow = Reset(db.gshadowed, db.gshadow, g)

UserBlock(u, id) ==
    /\ AtUser /\ AfterUser /\ u = Line.user
    /\ UNCHANGED <<lines, run, etc, changed>>
    /\ db'.gid = db.gid /\ db'.mem = db.mem
    /\ db'.uid = [db.uid EXCEPT ![u] = id]
    /\ db'.pgid = [db.pgid EXCEPT ![u] = db.gid[Line.group]]
    /\ Line.uid \notin IdKind => id = Line.uid
    /\ \/ db.uid[u] = NoId /\ moved' = moved
       \/ db.uid[u] # NoId /\ id = db.uid[u] /\ moved' = moved
       \/ /\ db.uid[u] # NoId /\ id # db.uid[u] /\ Line.uid \notin IdKind
          /\ moved' = Move("passwd", u, db.uid[u])
    /\ db'.shadowed = db.shadowed /\ db'.gshadowed = db.gshadowed
    /\ db'.gshadow = db.gshadow
    /\ db'.shadow = Reset(db.shadowed, db.shadow, u)

GrantBlock(g, id, ms) ==
    /\ AtGrant /\ g = Group /\ toGrant' = Tail(toGrant)
    /\ UNCHANGED <<lines, run, etc, pc, pos, moved>>
    /\ db'.uid = db.uid /\ db'.pgid = db.pgid
    /\ db'.gid = [db.gid EXCEPT ![g] = id] /\ db'.mem = [db.mem EXCEPT ![g] = ms]
    /\ \/ /\ db.gid[g] = NoId /\ ms = Requesting(g)
          /\ changed' = changed \cup {g}
       \/ /\ db.gid[g] # NoId /\ id = db.gid[g] /\ ~IsText(g)
          /\ ms = db.mem[g] \cup Requesting(g) /\ changed' = changed \cup {g}
       \/ /\ db.gid[g] # NoId /\ id = db.gid[g] /\ IsText(g) /\ FoundInText(g)
          /\ ms = db.mem[g] /\ changed' = changed
    /\ db'.shadowed = db.shadowed /\ db'.gshadowed = db.gshadowed
    /\ db'.shadow = db.shadow /\ db'.gshadow = db.gshadow

Package == InstallGroup \/ InstallUser \/ InstallMember \/ InstallShadow
Failing == LoadFails \/ AddGroupFails \/ AddUserFails \/ GrantNewGroupFails \/ GrantFails

Block == \/ Load \/ Failing \/ LinesDone \/ GrantsDone \/ Write \/ Package \/ LateRun
         \/ UNCHANGED vars
         \/ \E g \in Name, id \in Nat : GroupBlock(g, id)
         \/ \E u \in Name, id \in Nat : UserBlock(u, id)
         \/ \E g \in Name, id \in Nat, ms \in SUBSET Name : GrantBlock(g, id, ms)

LEMMA ResetFields ==
  ASSUME NEW a \in Accounts, NEW n \in Name
  PROVE  /\ ResetGshadow(a, n).shadowed = a.shadowed /\ ResetShadow(a, n).shadowed = a.shadowed
         /\ ResetGshadow(a, n).gshadowed = a.gshadowed
         /\ ResetShadow(a, n).gshadowed = a.gshadowed
         /\ ResetGshadow(a, n).shadow = a.shadow
         /\ ResetShadow(a, n).gshadow = a.gshadow
         /\ ResetGshadow(a, n).gshadow = Reset(a.gshadowed, a.gshadow, n)
         /\ ResetShadow(a, n).shadow = Reset(a.shadowed, a.shadow, n)
  BY DEF ResetGshadow, ResetShadow, Reset, Accounts, Shadow

LEMMA AddGroupBlock ==
  ASSUME TypeOK, AddGroup
  PROVE  Line.group \in Name /\ \E id \in Nat : GroupBlock(Line.group, id)
  <1> DEFINE id == Resolved(Line.gid, Line.group)
             g == Line.group
             mid == [db EXCEPT !.gid[g] = id, !.mem[g] = {}]
  <1>1. pos <= Len(lines)
    BY DEF AddGroup, AtGroup
  <1>2. g \in Name /\ Line.gid \in (Nat \ {0}) \cup IdKind /\ db \in Accounts
    BY <1>1, LineTyped DEF TypeOK
  <1>3. id \in Nat /\ id \in IdOrNone
    BY <1>2, ResolvedIsNumber DEF AddGroup, IdOrNone
  <1>4. Line.gid \notin IdKind => id = Line.gid
    BY DEF Resolved
  <1>5. /\ db' = ResetGshadow(mid, g)
        /\ db.gid[g] = NoId /\ changed' = changed \cup {g}
        /\ AtGroup /\ AfterGroup /\ UNCHANGED <<lines, run, etc, toGrant, moved>>
    BY DEF AddGroup, control
  <1> HIDE DEF id, g
  <1>6. /\ mid \in Accounts /\ mid.uid = db.uid /\ mid.pgid = db.pgid
        /\ mid.gid = [db.gid EXCEPT ![g] = id] /\ mid.mem = [db.mem EXCEPT ![g] = {}]
        /\ mid.shadowed = db.shadowed /\ mid.gshadowed = db.gshadowed
        /\ mid.shadow = db.shadow /\ mid.gshadow = db.gshadow
    BY <1>2, <1>3 DEF Accounts
  <1> HIDE DEF mid
  <1>7. /\ db'.uid = db.uid /\ db'.pgid = db.pgid
        /\ db'.gid = [db.gid EXCEPT ![g] = id] /\ db'.mem = [db.mem EXCEPT ![g] = {}]
    BY <1>2, <1>5, <1>6, ResetShadowFields
  <1>8. /\ db'.shadowed = db.shadowed /\ db'.gshadowed = db.gshadowed
        /\ db'.shadow = db.shadow /\ db'.gshadow = Reset(db.gshadowed, db.gshadow, g)
    BY <1>2, <1>5, <1>6, ResetFields
  <1>9. GroupBlock(g, id)
    BY <1>4, <1>5, <1>7, <1>8 DEF GroupBlock, g
  <1> QED
    BY <1>2, <1>3, <1>9 DEF g

LEMMA UpdateGroupBlock ==
  ASSUME TypeOK, UpdateGroup
  PROVE  Line.group \in Name /\ \E id \in Nat : GroupBlock(Line.group, id)
  <1> DEFINE g == Line.group
             old == db.gid[g]
             id == IF Line.gid \in IdKind \cup {old} THEN old ELSE Line.gid
             mid == [db EXCEPT !.gid[g] = id]
  <1>1. pos <= Len(lines)
    BY DEF UpdateGroup, AtGroup
  <1>2. g \in Name /\ Line.gid \in (Nat \ {0}) \cup IdKind /\ db \in Accounts
    BY <1>1, LineTyped DEF TypeOK
  <1>3. old \in Nat /\ id \in Nat /\ id \in IdOrNone /\ old # NoId
    BY <1>2 DEF UpdateGroup, Accounts, IdOrNone
  <1>4. /\ Line.gid \notin IdKind => id = Line.gid
        /\ id # old => Line.gid \notin IdKind
        /\ id = old => Line.gid \in IdKind \cup {old}
        /\ Line.gid \in IdKind \cup {old} => id = old
    BY <1>2
  <1>5. id = old => mid = db
    BY <1>2 DEF Accounts
  <1>6. /\ db' = ResetGshadow(mid, g)
        /\ moved' = (IF id = old THEN moved ELSE Move("group", g, old))
        /\ changed' = (IF id = old THEN changed ELSE changed \cup {g})
    <2>1. CASE id = old
      BY <1>4, <1>5, <2>1 DEF UpdateGroup
    <2>2. CASE id # old
      BY <1>4, <2>2 DEF UpdateGroup
    <2> QED
      BY <2>1, <2>2
  <1>7. AtGroup /\ AfterGroup /\ UNCHANGED <<lines, run, etc, toGrant>>
    BY DEF UpdateGroup, control
  <1> HIDE DEF id, g
  <1>8. /\ mid \in Accounts /\ mid.uid = db.uid /\ mid.pgid = db.pgid
        /\ mid.gid = [db.gid EXCEPT ![g] = id] /\ mid.mem = db.mem
        /\ mid.shadowed = db.shadowed /\ mid.gshadowed = db.gshadowed
        /\ mid.shadow = db.shadow /\ mid.gshadow = db.gshadow
    BY <1>2, <1>3 DEF Accounts
  <1> HIDE DEF mid
  <1>9. /\ db'.uid = db.uid /\ db'.pgid = db.pgid
        /\ db'.gid = [db.gid EXCEPT ![g] = id] /\ db'.mem = db.mem
    BY <1>2, <1>6, <1>8, ResetShadowFields
  <1>10. /\ db'.shadowed = db.shadowed /\ db'.gshadowed = db.gshadowed
         /\ db'.shadow = db.shadow /\ db'.gshadow = Reset(db.gshadowed, db.gshadow, g)
    BY <1>2, <1>6, <1>8, ResetFields
  <1>11. GroupBlock(g, id)
    BY <1>3, <1>4, <1>6, <1>7, <1>9, <1>10 DEF GroupBlock, g
  <1> QED
    BY <1>2, <1>3, <1>11 DEF g

LEMMA AddUserBlock ==
  ASSUME TInv, AddUser
  PROVE  Line.user \in Name /\ \E id \in Nat : UserBlock(Line.user, id)
  <1> DEFINE id == Resolved(Line.uid, Line.user)
             u == Line.user
             gid == db.gid[Line.group]
             mid == [db EXCEPT !.uid[u] = id, !.pgid[u] = gid]
  <1>1. TypeOK /\ pos <= Len(lines) /\ Line.user # NoUser
    BY DEF TInv, UserReady, AddUser, AtUser
  <1>2. /\ u \in Name /\ Line.group \in Name
        /\ Line.uid \in (Nat \ {0}) \cup IdKind /\ db \in Accounts
    BY <1>1, LineTyped DEF TypeOK
  <1>3. id \in Nat /\ id \in IdOrNone /\ gid \in IdOrNone
    BY <1>1, <1>2, ResolvedIsNumber DEF AddUser, IdOrNone, Accounts
  <1>4. Line.uid \notin IdKind => id = Line.uid
    BY DEF Resolved
  <1>5. /\ db' = ResetShadow(mid, u) /\ db.uid[u] = NoId
        /\ AtUser /\ AfterUser /\ UNCHANGED <<lines, run, etc, changed, moved>>
    BY DEF AddUser, control
  <1> HIDE DEF id, u, gid
  <1>6. /\ mid \in Accounts /\ mid.gid = db.gid /\ mid.mem = db.mem
        /\ mid.uid = [db.uid EXCEPT ![u] = id] /\ mid.pgid = [db.pgid EXCEPT ![u] = gid]
        /\ mid.shadowed = db.shadowed /\ mid.gshadowed = db.gshadowed
        /\ mid.shadow = db.shadow /\ mid.gshadow = db.gshadow
    BY <1>2, <1>3 DEF Accounts
  <1> HIDE DEF mid
  <1>7. /\ db'.gid = db.gid /\ db'.mem = db.mem
        /\ db'.uid = [db.uid EXCEPT ![u] = id] /\ db'.pgid = [db.pgid EXCEPT ![u] = gid]
    BY <1>2, <1>5, <1>6, ResetShadowFields
  <1>8. /\ db'.shadowed = db.shadowed /\ db'.gshadowed = db.gshadowed
        /\ db'.gshadow = db.gshadow /\ db'.shadow = Reset(db.shadowed, db.shadow, u)
    BY <1>2, <1>5, <1>6, ResetFields
  <1>9. UserBlock(u, id)
    BY <1>4, <1>5, <1>7, <1>8 DEF UserBlock, u, gid
  <1> QED
    BY <1>2, <1>3, <1>9 DEF u

LEMMA UpdateUserBlock ==
  ASSUME TInv, UpdateUser
  PROVE  Line.user \in Name /\ \E id \in Nat : UserBlock(Line.user, id)
  <1> DEFINE u == Line.user
             old == db.uid[u]
             id == IF Line.uid \in IdKind THEN old ELSE Line.uid
             gid == db.gid[Line.group]
             mid == [db EXCEPT !.uid[u] = id, !.pgid[u] = gid]
  <1>1. TypeOK /\ pos <= Len(lines) /\ Line.user # NoUser
    BY DEF TInv, UserReady, UpdateUser, AtUser
  <1>2. /\ u \in Name /\ Line.group \in Name
        /\ Line.uid \in (Nat \ {0}) \cup IdKind /\ db \in Accounts
    BY <1>1, LineTyped DEF TypeOK
  <1>3. old # NoId /\ old \in Nat /\ id \in Nat /\ id \in IdOrNone /\ gid \in IdOrNone
    BY <1>2 DEF UpdateUser, Accounts, IdOrNone
  <1>4. /\ Line.uid \notin IdKind => id = Line.uid
        /\ id # old => Line.uid \notin IdKind
    OBVIOUS
  <1>5. /\ db' = ResetShadow(mid, u)
        /\ moved' = (IF id = old THEN moved ELSE Move("passwd", u, old))
        /\ AtUser /\ AfterUser /\ UNCHANGED <<lines, run, etc, changed>>
    BY DEF UpdateUser, control
  <1> HIDE DEF id, u, gid
  <1>6. /\ mid \in Accounts /\ mid.gid = db.gid /\ mid.mem = db.mem
        /\ mid.uid = [db.uid EXCEPT ![u] = id] /\ mid.pgid = [db.pgid EXCEPT ![u] = gid]
        /\ mid.shadowed = db.shadowed /\ mid.gshadowed = db.gshadowed
        /\ mid.shadow = db.shadow /\ mid.gshadow = db.gshadow
    BY <1>2, <1>3 DEF Accounts
  <1> HIDE DEF mid
  <1>7. /\ db'.gid = db.gid /\ db'.mem = db.mem
        /\ db'.uid = [db.uid EXCEPT ![u] = id] /\ db'.pgid = [db.pgid EXCEPT ![u] = gid]
    BY <1>2, <1>5, <1>6, ResetShadowFields
  <1>8. /\ db'.shadowed = db.shadowed /\ db'.gshadowed = db.gshadowed
        /\ db'.gshadow = db.gshadow /\ db'.shadow = Reset(db.shadowed, db.shadow, u)
    BY <1>2, <1>5, <1>6, ResetFields
  <1>9. UserBlock(u, id)
    BY <1>3, <1>4, <1>5, <1>7, <1>8 DEF UserBlock, u, gid
  <1> QED
    BY <1>2, <1>3, <1>9 DEF u

LEMMA GrantBlocks ==
  ASSUME TypeOK, GrantNewGroup \/ Grant \/ GrantFound
  PROVE  \E g \in Name, id \in Nat, ms \in SUBSET Name : GrantBlock(g, id, ms)
  <1> DEFINE g == Group
  <1>1. g \in Name
    <2>1. toGrant \in Seq(Name) /\ toGrant # <<>>
      BY DEF TypeOK, GrantNewGroup, Grant, GrantFound, AtGrant
    <2> QED
      BY <2>1 DEF Group
  <1>2. db \in Accounts /\ Requesting(g) \in SUBSET Name
    BY <1>1, RequestingTyped DEF TypeOK
  <1>3. db.mem \in [Name -> SUBSET Name] /\ db.gid \in [Name -> IdOrNone]
    BY <1>2 DEF Accounts
  <1>4. CASE GrantNewGroup
    <2> DEFINE id == Resolved(System, g)
               ms == Requesting(g)
    <2>1. System \in (Nat \ {0}) \cup IdKind
      BY DEF IdKind
    <2>2. id \in Nat /\ id \in IdOrNone
      BY <1>1, <1>4, <2>1, ResolvedIsNumber DEF GrantNewGroup, IdOrNone
    <2>3. /\ db' = [db EXCEPT !.gid[g] = id, !.mem[g] = ms]
          /\ AtGrant /\ toGrant' = Tail(toGrant) /\ db.gid[g] = NoId
          /\ changed' = changed \cup {g}
          /\ UNCHANGED <<lines, run, etc, pc, pos, moved>>
      BY <1>4 DEF GrantNewGroup, control
    <2> HIDE DEF id, ms, g
    <2>4. /\ db'.uid = db.uid /\ db'.pgid = db.pgid
          /\ db'.gid = [db.gid EXCEPT ![g] = id] /\ db'.mem = [db.mem EXCEPT ![g] = ms]
          /\ db'.shadowed = db.shadowed /\ db'.gshadowed = db.gshadowed
          /\ db'.shadow = db.shadow /\ db'.gshadow = db.gshadow
      BY <1>2, <2>3 DEF Accounts
    <2>5. GrantBlock(g, id, ms)
      BY <2>3, <2>4 DEF GrantBlock, ms, g
    <2> QED
      BY <1>1, <1>2, <2>2, <2>5 DEF ms
  <1>5. CASE Grant \/ GrantFound
    <2> DEFINE id == db.gid[g]
               ms == IF Grant THEN db.mem[g] \cup Requesting(g) ELSE db.mem[g]
    <2>1. db.gid[g] # NoId
      BY <1>5 DEF Grant, GrantFound
    <2>2. id \in Nat /\ ms \in SUBSET Name
      BY <1>1, <1>2, <1>3, <2>1 DEF IdOrNone
    <2>3. db' = [db EXCEPT !.mem[g] = ms]
      <3>1. CASE Grant
        BY <3>1 DEF Grant
      <3>2. CASE ~Grant
        <4>1. db' = db /\ ms = db.mem[g]
          BY <1>5, <3>2 DEF GrantFound
        <4> QED
          BY <1>1, <1>2, <4>1 DEF Accounts
      <3> QED
        BY <3>1, <3>2
    <2>4. [db.gid EXCEPT ![g] = id] = db.gid
      BY <1>3
    <2>5. /\ AtGrant /\ toGrant' = Tail(toGrant)
          /\ UNCHANGED <<lines, run, etc, pc, pos, moved>>
      BY <1>5 DEF Grant, GrantFound, control
    <2>6. \/ ~IsText(g) /\ ms = db.mem[g] \cup Requesting(g) /\ changed' = changed \cup {g}
          \/ IsText(g) /\ FoundInText(g) /\ ms = db.mem[g] /\ changed' = changed
      BY <1>5 DEF Grant, GrantFound
    <2> HIDE DEF ms, g
    <2>7. /\ db'.uid = db.uid /\ db'.pgid = db.pgid /\ db'.gid = db.gid
          /\ db'.mem = [db.mem EXCEPT ![g] = ms]
          /\ db'.shadowed = db.shadowed /\ db'.gshadowed = db.gshadowed
          /\ db'.shadow = db.shadow /\ db'.gshadow = db.gshadow
      BY <1>2, <2>2, <2>3 DEF Accounts
    <2>8. GrantBlock(g, id, ms)
      BY <2>1, <2>4, <2>5, <2>6, <2>7 DEF GrantBlock, g
    <2> QED
      BY <1>1, <2>2, <2>8
  <1> QED
    BY <1>4, <1>5

LEMMA BlockShape ==
  ASSUME TInv, [Next]_vars
  PROVE  Block
  <1>t. TypeOK
    BY DEF TInv
  <1>1. CASE AddGroup \/ UpdateGroup
    BY <1>t, <1>1, AddGroupBlock, UpdateGroupBlock DEF Block
  <1>2. CASE AddUser \/ UpdateUser
    BY <1>2, AddUserBlock, UpdateUserBlock DEF Block
  <1>3. CASE GrantNewGroup \/ Grant \/ GrantFound
    BY <1>t, <1>3, GrantBlocks DEF Block
  <1> QED
    BY <1>1, <1>2, <1>3 DEF Next, Block, Failing, Package, Ended

\* The lines as the blocks leave them, whatever line is next.
LEMMA LineAt ==
  ASSUME TypeOK, NEW i \in DOMAIN lines
  PROVE  /\ i \in Nat /\ i >= 1 /\ i <= Len(lines)
         /\ lines[i].group \in Name /\ lines[i].user \in Name \cup {NoUser}
         /\ lines[i].gid \in (Nat \ {0}) \cup IdKind /\ lines[i].groups \in Seq(Name)
         /\ lines[i].uid \in (Nat \ {0}) \cup IdKind
  <1>1. lines \in Seq(SysusersEntry)
    BY DEF TypeOK
  <1>2. lines[i] \in SysusersEntry /\ i \in 1..Len(lines)
    BY <1>1
  <1> QED
    BY <1>2 DEF SysusersEntry

-----------------------------------------------------------------------------
(* Shadow entries.                                                         *)

LineShadowed(a, i) ==
    /\ a.shadowed /\ lines[i].user # NoUser => a.shadow[lines[i].user] = "ours"
    /\ a.gshadowed => a.gshadow[lines[i].group] = "ours"

\* The lines that were handled, and the group of the line that is being handled.
Shadowing ==
    pc \in Working => /\ \A i \in DOMAIN lines : i < pos => LineShadowed(db, i)
                      /\ pc = "user" /\ db.gshadowed => db.gshadow[Line.group] = "ours"
                      /\ pc \in {"grant", "write"} => pos > Len(lines)

ShadowInv == ShadowEntriesSet /\ Shadowing

\* Nothing takes an entry of this program away again.
OursKept(a, b) ==
    /\ b.shadowed = a.shadowed /\ b.gshadowed = a.gshadowed
    /\ \A n \in Name : /\ a.shadow[n] = "ours" => b.shadow[n] = "ours"
                       /\ a.gshadow[n] = "ours" => b.gshadow[n] = "ours"

LEMMA ResetKeepsOurs ==
  ASSUME NEW entries \in [Name -> {"none", "theirs", "ours"}], NEW n \in Name, NEW there
  PROVE  /\ \A m \in Name : entries[m] = "ours" => Reset(there, entries, n)[m] = "ours"
         /\ there => Reset(there, entries, n)[n] = "ours"
  BY DEF Reset

LEMMA ShadowedKept ==
  ASSUME TypeOK, NEW a, NEW b, OursKept(a, b), NEW i \in DOMAIN lines, LineShadowed(a, i)
  PROVE  LineShadowed(b, i)
  BY LineAt DEF LineShadowed, OursKept

LEMMA ShadowInit == Init => ShadowInv
  BY DEF Init, ShadowInv, ShadowEntriesSet, Shadowing, Working

LEMMA ShadowStep == TInv /\ ShadowInv /\ [Next]_vars => ShadowInv'
  <1> SUFFICES ASSUME TInv, ShadowInv, [Next]_vars PROVE ShadowInv'
    OBVIOUS
  <1>t. /\ TypeOK /\ pos \in Nat \ {0} /\ Len(lines) \in Nat
        /\ db.shadow \in [Name -> {"none", "theirs", "ours"}]
        /\ db.gshadow \in [Name -> {"none", "theirs", "ours"}]
    BY DEF TInv, TypeOK, Accounts, Shadow
  <1>1. CASE Load
    BY <1>1 DEF Load, ShadowInv, ShadowEntriesSet, Shadowing, LineAt, TypeOK
  <1>2. CASE Failing
    <2>1. \E why \in Errors : Fail(why)
      BY <1>2 DEF Failing, LoadFails, AddGroupFails, AddUserFails, GrantNewGroupFails,
                  GrantFails, AddFails, Errors
    <2> QED
      BY <2>1 DEF Fail, Errors, ShadowInv, ShadowEntriesSet, Shadowing, Working
  <1>3. CASE LinesDone \/ GrantsDone
    <2>1. /\ lines' = lines /\ pos' = pos /\ db' = db /\ pc \in Working
          /\ pc' \in {"grant", "write"} /\ pos > Len(lines)
      BY <1>3 DEF LinesDone, GrantsDone, control, ShadowInv, Shadowing, Working
    <2> QED
      BY <2>1 DEF ShadowInv, ShadowEntriesSet, Shadowing, LineShadowed
  <1>4. CASE Write
    <2>1. /\ lines' = lines /\ pc = "write" /\ pc' \in {"install", "done"}
          /\ etc' = [db EXCEPT !.mem = [g \in Name |-> WrittenMembers(g)]]
      BY <1>4 DEF Write, control
    <2>2. /\ etc'.shadowed = db.shadowed /\ etc'.gshadowed = db.gshadowed
          /\ etc'.shadow = db.shadow /\ etc'.gshadow = db.gshadow
      BY <1>t, <2>1 DEF TypeOK, Accounts
    <2>3. \A i \in DOMAIN lines : LineShadowed(db, i)
      BY <1>t, <2>1, LineAt DEF ShadowInv, Shadowing, Working
    <2> QED
      BY <2>1, <2>2, <2>3 DEF ShadowInv, ShadowEntriesSet, Shadowing, LineShadowed, Working
  <1>5. CASE Package \/ LateRun
    <2>1. pc' \in {"install", "load"}
      BY <1>5, InstallFrame DEF Package, LateRun
    <2> QED
      BY <2>1 DEF ShadowInv, ShadowEntriesSet, Shadowing, Working
  <1>6. CASE UNCHANGED vars
    BY <1>6 DEF vars, control, generators, ShadowInv, ShadowEntriesSet, Shadowing,
                LineShadowed, Line
  <1>7. ASSUME NEW g \in Name, NEW id \in Nat, GroupBlock(g, id)
        PROVE  ShadowInv'
    <2>1. /\ pc = "group" /\ pos <= Len(lines) /\ lines' = lines /\ g = Line.group
          /\ \/ Line.user = NoUser /\ pos' = pos + 1 /\ pc' = "group"
             \/ pos' = pos /\ pc' = "user"
      BY <1>7 DEF GroupBlock, AtGroup, AfterGroup
    <2>2. OursKept(db, db') /\ (db'.gshadowed => db'.gshadow[g] = "ours")
      BY <1>t, <1>7, ResetKeepsOurs DEF GroupBlock, OursKept
    <2>3. \A i \in DOMAIN lines : i < pos => LineShadowed(db', i)
      BY <1>t, <2>1, <2>2, ShadowedKept DEF ShadowInv, Shadowing, Working
    <2>4. Line.user = NoUser => LineShadowed(db', pos)
      BY <2>1, <2>2 DEF LineShadowed, Line
    <2>5. \A i \in DOMAIN lines : i < pos' => LineShadowed(db', i)
      BY <1>t, <2>1, <2>3, <2>4, LineAt
    <2>6. pc' = "user" => Line' = Line
      BY <2>1 DEF Line
    <2> QED
      BY <2>1, <2>2, <2>5, <2>6 DEF ShadowInv, ShadowEntriesSet, Shadowing, LineShadowed
  <1>8. ASSUME NEW u \in Name, NEW id \in Nat, UserBlock(u, id)
        PROVE  ShadowInv'
    <2>1. /\ pc = "user" /\ pos <= Len(lines) /\ lines' = lines /\ u = Line.user
          /\ pos' = pos + 1 /\ pc' = "group"
      BY <1>8 DEF UserBlock, AtUser, AfterUser, TInv, UserReady
    <2>2. OursKept(db, db') /\ (db'.shadowed => db'.shadow[u] = "ours")
      BY <1>t, <1>8, ResetKeepsOurs DEF UserBlock, OursKept
    <2>3. \A i \in DOMAIN lines : i < pos => LineShadowed(db', i)
      BY <1>t, <2>1, <2>2, ShadowedKept DEF ShadowInv, Shadowing, Working
    <2>4. db'.gshadowed => db'.gshadow[Line.group] = "ours"
      BY <1>8, <2>1 DEF UserBlock, ShadowInv, Shadowing, Working
    <2>5. LineShadowed(db', pos)
      BY <2>1, <2>2, <2>4 DEF LineShadowed, Line
    <2>6. \A i \in DOMAIN lines : i < pos' => LineShadowed(db', i)
      BY <1>t, <2>1, <2>3, <2>5, LineAt
    <2> QED
      BY <2>1, <2>6 DEF ShadowInv, ShadowEntriesSet, Shadowing, LineShadowed
  <1>9. ASSUME NEW g \in Name, NEW id \in Nat, NEW ms \in SUBSET Name, GrantBlock(g, id, ms)
        PROVE  ShadowInv'
    <2>1. /\ pc = "grant" /\ pc' = pc /\ lines' = lines /\ pos' = pos
          /\ db'.shadowed = db.shadowed /\ db'.gshadowed = db.gshadowed
          /\ db'.shadow = db.shadow /\ db'.gshadow = db.gshadow
      BY <1>9 DEF GrantBlock, AtGrant
    <2> QED
      BY <2>1 DEF ShadowInv, ShadowEntriesSet, Shadowing, LineShadowed, Working
  <1> QED
    BY BlockShape, <1>1, <1>2, <1>3, <1>4, <1>5, <1>6, <1>7, <1>8, <1>9 DEF Block

\* After the late run every requested user and group has the shadow entry that the
\* program wrote, whether the files were there early or a package made them.
THEOREM ShadowEntries == Spec => []ShadowEntriesSet
  <1>1. ShadowInv => ShadowEntriesSet
    BY DEF ShadowInv
  <1> QED
    BY Typed, ShadowInit, ShadowStep, <1>1, PTL DEF Spec

-----------------------------------------------------------------------------
(* Members.                                                                *)

OnlyGroupsHaveMembers(a) == \A g \in Name : a.gid[g] = NoId => a.mem[g] = {}

\* A group that was loaded keeps the text of its members; only a new id marks its
\* entry as changed.
TextKept == \A g \in Name : IsText(g) =>
    /\ db.gid[g] # NoId /\ db.mem[g] = etc.mem[g]
    /\ g \in changed => g \in MovedNames("group")

MembersInv ==
    /\ OnlyGroupsHaveMembers(etc)
    /\ pc \in Working => OnlyGroupsHaveMembers(db) /\ TextKept

\* What packages do to lists of members: they add to those of groups.
PackageMembers ==
    /\ OnlyGroupsHaveMembers(etc')
    /\ \A g \in Name : etc.mem[g] \subseteq etc'.mem[g]

LEMMA PackagesAddMembers ==
  ASSUME TypeOK, OnlyGroupsHaveMembers(etc), Package
  PROVE  PackageMembers
  <1>t. /\ etc \in Accounts /\ etc.gid \in [Name -> IdOrNone]
        /\ etc.mem \in [Name -> SUBSET Name]
    BY DEF TypeOK, Accounts
  <1>1. CASE InstallGroup
    <2>1. PICK g \in Name, id \in PackageIds :
             etc.gid[g] = NoId /\ etc' = WithGroup(etc, g, id)
      BY <1>1 DEF InstallGroup, Install
    <2>2. id # NoId
      BY IdAssumption DEF NoId
    <2>3. /\ etc'.gid = [etc.gid EXCEPT ![g] = id]
          /\ etc'.mem = [etc.mem EXCEPT ![g] = {}]
      BY <1>t, <2>1 DEF WithGroup, Accounts
    <2> QED
      BY <1>t, <2>1, <2>2, <2>3 DEF PackageMembers, OnlyGroupsHaveMembers
  <1>2. CASE InstallUser
    <2>1. PICK u \in Name, g \in Name, id \in PackageIds :
             etc' = WithUser(etc, u, id, etc.gid[g])
      BY <1>2 DEF InstallUser, Install
    <2>2. etc'.gid = etc.gid /\ etc'.mem = etc.mem
      BY <1>t, <2>1 DEF WithUser, Accounts
    <2> QED
      BY <2>2 DEF PackageMembers, OnlyGroupsHaveMembers
  <1>3. CASE InstallMember
    <2>1. PICK u \in Name, g \in Name :
             etc.gid[g] # NoId /\ etc' = [etc EXCEPT !.mem[g] = @ \cup {u}]
      BY <1>3 DEF InstallMember, Install
    <2>2. etc'.gid = etc.gid /\ etc'.mem = [etc.mem EXCEPT ![g] = etc.mem[g] \cup {u}]
      BY <1>t, <2>1 DEF Accounts
    <2> QED
      BY <1>t, <2>1, <2>2 DEF PackageMembers, OnlyGroupsHaveMembers
  <1>4. CASE InstallShadow
    <2>1. etc'.gid = etc.gid /\ etc'.mem = etc.mem
      BY <1>t, <1>4 DEF InstallShadow, Install, Accounts
    <2> QED
      BY <2>1 DEF PackageMembers, OnlyGroupsHaveMembers
  <1> QED
    BY <1>1, <1>2, <1>3, <1>4 DEF Package

LEMMA MembersInit == Init => MembersInv
  BY EtcAssumption DEF Init, Sane, MembersInv, OnlyGroupsHaveMembers, Working

LEMMA WrittenFields ==
  ASSUME TypeOK, Write
  PROVE  /\ etc'.uid = db.uid /\ etc'.pgid = db.pgid /\ etc'.gid = db.gid
         /\ etc'.mem = [g \in Name |-> WrittenMembers(g)]
  <1>1. db \in Accounts /\ etc' = [db EXCEPT !.mem = [g \in Name |-> WrittenMembers(g)]]
    BY DEF TypeOK, Write
  <1> DEFINE f == [g \in Name |-> WrittenMembers(g)]
  <1>2. etc' = [db EXCEPT !.mem = f]
    BY <1>1
  <1> HIDE DEF f
  <1>3. etc'.uid = db.uid /\ etc'.pgid = db.pgid /\ etc'.gid = db.gid /\ etc'.mem = f
    BY <1>1, <1>2 DEF Accounts
  <1> QED
    BY <1>3 DEF f

LEMMA MembersStep == TInv /\ MembersInv /\ [Next]_vars => MembersInv'
  <1> SUFFICES ASSUME TInv, MembersInv, [Next]_vars PROVE MembersInv'
    OBVIOUS
  <1>t. /\ TypeOK /\ db \in Accounts /\ db.gid \in [Name -> IdOrNone]
        /\ db.mem \in [Name -> SUBSET Name]
    BY DEF TInv, TypeOK, Accounts
  <1>m. /\ OnlyGroupsHaveMembers(etc)
        /\ pc \in Working => OnlyGroupsHaveMembers(db) /\ TextKept
    BY DEF MembersInv
  <1>id. \A id \in Nat : id # NoId
    BY DEF NoId
  <1>same. moved' = moved => MovedNames("group")' = MovedNames("group")
    BY MovedSame
  <1>1. CASE Load
    <2>1. db' = etc /\ etc' = etc /\ changed' = {}
      BY <1>1 DEF Load
    <2> QED
      BY <1>m, <2>1 DEF MembersInv, OnlyGroupsHaveMembers, TextKept, IsText
  <1>2. CASE Failing
    <2>1. \E why \in Errors : Fail(why)
      BY <1>2 DEF Failing, LoadFails, AddGroupFails, AddUserFails, GrantNewGroupFails,
                  GrantFails, AddFails, Errors
    <2> QED
      BY <1>m, <2>1 DEF Fail, Errors, MembersInv, Working
  <1>3. CASE LinesDone \/ GrantsDone
    <2>1. /\ UNCHANGED <<db, etc, changed, moved>> /\ pc \in Working
      BY <1>3 DEF LinesDone, GrantsDone, Working
    <2> QED
      BY <1>m, <1>same, <2>1 DEF MembersInv, TextKept, IsText
  <1>4. CASE Write
    <2>1. pc \in Working /\ pc' \notin Working
      BY <1>4 DEF Write, Working
    <2>2. etc'.gid = db.gid /\ etc'.mem = [g \in Name |-> WrittenMembers(g)]
      BY <1>4, <1>t, WrittenFields
    <2>3. \A g \in Name : WrittenMembers(g) \subseteq db.mem[g]
      BY DEF WrittenMembers
    <2>4. OnlyGroupsHaveMembers(etc')
      BY <1>m, <2>1, <2>2, <2>3 DEF OnlyGroupsHaveMembers
    <2> QED
      BY <2>1, <2>4 DEF MembersInv, OnlyGroupsHaveMembers
  <1>5. CASE Package
    <2>1. pc' = "install"
      BY <1>5, InstallFrame DEF Package
    <2>2. OnlyGroupsHaveMembers(etc')
      BY <1>5, <1>t, <1>m, PackagesAddMembers DEF PackageMembers
    <2> QED
      BY <2>1, <2>2 DEF MembersInv, OnlyGroupsHaveMembers, Working
  <1>6. CASE LateRun
    BY <1>6, <1>m DEF LateRun, MembersInv, OnlyGroupsHaveMembers, Working
  <1>7. CASE UNCHANGED vars
    BY <1>7, <1>m, <1>same DEF vars, MembersInv, TextKept, IsText
  <1>8. ASSUME NEW g \in Name, NEW id \in Nat, GroupBlock(g, id)
        PROVE  MembersInv'
    <2>1. pc \in Working /\ etc' = etc /\ db'.gid = [db.gid EXCEPT ![g] = id]
      BY <1>8 DEF GroupBlock, AtGroup, control, Working
    <2>2. \/ db'.mem = db.mem
          \/ db.gid[g] = NoId /\ db'.mem = [db.mem EXCEPT ![g] = {}]
      BY <1>8 DEF GroupBlock
    <2>3. OnlyGroupsHaveMembers(db')
      BY <1>t, <1>m, <1>id, <2>1, <2>2 DEF OnlyGroupsHaveMembers
    <2>4. \A k \in Name : k \in MovedNames("group") => k \in MovedNames("group")'
      BY <1>8, <1>same, MoveGrows DEF GroupBlock
    <2>5. IsText(g) /\ g \in changed' => g \in MovedNames("group")'
      <3>1. CASE db.gid[g] = NoId
        BY <1>m, <2>1, <3>1 DEF TextKept
      <3>2. CASE db.gid[g] # NoId /\ id = db.gid[g]
        BY <1>8, <1>m, <2>1, <2>4, <3>2 DEF GroupBlock, TextKept
      <3>3. CASE db.gid[g] # NoId /\ id # db.gid[g]
        BY <1>8, <3>3, MoveGrows DEF GroupBlock
      <3> QED
        BY <3>1, <3>2, <3>3
    <2>6. \A k \in changed' : k = g \/ k \in changed
      BY <1>8 DEF GroupBlock
    <2>7. TextKept'
      BY <1>t, <1>m, <1>id, <2>1, <2>2, <2>4, <2>5, <2>6 DEF TextKept, IsText
    <2> QED
      BY <1>m, <2>1, <2>3, <2>7 DEF MembersInv, OnlyGroupsHaveMembers
  <1>9. ASSUME NEW u \in Name, NEW id \in Nat, UserBlock(u, id)
        PROVE  MembersInv'
    <2>1. /\ pc \in Working /\ etc' = etc /\ changed' = changed
          /\ db'.gid = db.gid /\ db'.mem = db.mem
      BY <1>9 DEF UserBlock, AtUser, Working
    <2>2. \A k \in Name : k \in MovedNames("group") => k \in MovedNames("group")'
      BY <1>9, <1>same, MoveGrows DEF UserBlock
    <2> QED
      BY <1>m, <2>1, <2>2 DEF MembersInv, OnlyGroupsHaveMembers, TextKept, IsText
  <1>10. ASSUME NEW g \in Name, NEW id \in Nat, NEW ms \in SUBSET Name, GrantBlock(g, id, ms)
         PROVE  MembersInv'
    <2>1. /\ pc \in Working /\ etc' = etc /\ moved' = moved
          /\ db'.gid = [db.gid EXCEPT ![g] = id] /\ db'.mem = [db.mem EXCEPT ![g] = ms]
      BY <1>10 DEF GrantBlock, AtGrant, Working
    <2>2. \A k \in Name : /\ k # g => db'.gid[k] = db.gid[k] /\ db'.mem[k] = db.mem[k]
                          /\ k = g => db'.gid[k] = id /\ db'.mem[k] = ms
      BY <1>t, <2>1
    <2>3. OnlyGroupsHaveMembers(db')
      BY <1>m, <1>id, <2>1, <2>2 DEF OnlyGroupsHaveMembers
    <2>4. IsText(g) => ms = db.mem[g] /\ changed' = changed
      BY <1>10, <1>m, <2>1 DEF GrantBlock, TextKept
    <2>5. \A k \in changed' : k = g \/ k \in changed
      BY <1>10 DEF GrantBlock
    <2>6. TextKept'
      BY <1>m, <1>id, <1>same, <2>1, <2>2, <2>4, <2>5 DEF TextKept, IsText
    <2> QED
      BY <1>m, <2>1, <2>3, <2>6 DEF MembersInv, OnlyGroupsHaveMembers
  <1> QED
    BY BlockShape, <1>1, <1>2, <1>3, <1>4, <1>5, <1>6, <1>7, <1>8, <1>9, <1>10 DEF Block

LEMMA MembersKept ==
  ASSUME TInv, MembersInv, [Next]_vars
  PROVE  \A g \in Name : etc.mem[g] \subseteq etc'.mem[g] \/ g \in MovedNames("group")
  <1>t. TypeOK
    BY DEF TInv
  <1>1. CASE Write
    <2>1. pc \in Working /\ etc'.mem = [g \in Name |-> WrittenMembers(g)]
      BY <1>1, <1>t, WrittenFields DEF Write, Working
    <2>2. TextKept /\ OnlyGroupsHaveMembers(etc)
      BY <2>1 DEF MembersInv
    <2>3. ASSUME NEW g \in Name, g \notin MovedNames("group")
          PROVE  etc.mem[g] \subseteq etc'.mem[g]
      <3>1. CASE IsText(g)
        BY <2>1, <2>2, <2>3, <3>1 DEF TextKept, WrittenMembers
      <3>2. CASE ~IsText(g)
        BY <2>2, <3>2 DEF OnlyGroupsHaveMembers, IsText
      <3> QED
        BY <3>1, <3>2
    <2> QED
      BY <2>3
  <1>2. CASE Package
    BY <1>2, <1>t, PackagesAddMembers DEF MembersInv, PackageMembers
  <1>3. CASE ~Write /\ ~Package
    <2>1. etc' = etc
      <3>1. CASE Failing
        BY <3>1 DEF Failing, LoadFails, AddGroupFails, AddUserFails, GrantNewGroupFails,
                    GrantFails, AddFails, Fail
      <3>2. CASE Load \/ LinesDone \/ GrantsDone \/ LateRun \/ UNCHANGED vars
        BY <3>2 DEF Load, LinesDone, GrantsDone, LateRun, vars
      <3>3. ASSUME NEW g, NEW id, NEW ms,
                   GroupBlock(g, id) \/ UserBlock(g, id) \/ GrantBlock(g, id, ms)
            PROVE  etc' = etc
        BY <3>3 DEF GroupBlock, UserBlock, GrantBlock
      <3> QED
        BY <1>3, BlockShape, <3>1, <3>2, <3>3 DEF Block
    <2> QED
      BY <2>1
  <1> QED
    BY <1>1, <1>2, <1>3

\* Nobody is lost from a group, except from one whose id a line replaced: the other
\* groups that were loaded are written as they were read.
THEOREM MembersStay == Spec => MembersLostOnlyByMove
  <1>1. TInv /\ MembersInv /\ [Next]_vars =>
            [\A g \in Name : etc.mem[g] \subseteq etc'.mem[g] \/ g \in MovedNames("group")]_vars
    BY MembersKept
  <1> QED
    BY Typed, MembersInit, MembersStep, <1>1, PTL DEF Spec, MembersLostOnlyByMove

-----------------------------------------------------------------------------
(* The late run.                                                           *)

\* The early run replaced no id.
Quiet == \A r \in moved : r.run = "late"

\* The files have what line i asks for: its group, its user, and the primary group,
\* unless a later one of the first n lines sets it.
GroupFits(a, i) == /\ a.gid[lines[i].group] # NoId
                   /\ lines[i].gid \notin IdKind => a.gid[lines[i].group] = lines[i].gid

UserFits(a, i) == lines[i].user # NoUser =>
    /\ a.uid[lines[i].user] # NoId
    /\ lines[i].uid \notin IdKind => a.uid[lines[i].user] = lines[i].uid

PrimaryFits(a, i, n) == lines[i].user # NoUser =>
    \/ a.pgid[lines[i].user] = a.gid[lines[i].group]
    \/ \E k \in DOMAIN lines : i < k /\ k <= n /\ lines[k].user = lines[i].user

LineFits(a, i, n) == GroupFits(a, i) /\ UserFits(a, i) /\ PrimaryFits(a, i, n)

Finds(a, g, u) == a.gid[g] # NoId /\ \E m \in a.mem[g] : m \in PartOf[u]

\* Line i names g as one of the groups of its user.
Asks(i, g) == lines[i].user # NoUser /\ g \in Range(lines[i].groups)

Fits(a) == \A i \in DOMAIN lines :
    /\ LineFits(a, i, Len(lines))
    /\ \A g \in Name : Asks(i, g) => Finds(a, g, lines[i].user)

\* What the early run has done up to here.
EarlyDone ==
    /\ \A i \in DOMAIN lines : i < pos =>
          /\ LineFits(db, i, pos - 1)
          /\ \A g \in Name : Asks(i, g) =>
                \/ g \in Range(toGrant)
                \/ pc \in {"grant", "write"} /\ Finds(db, g, lines[i].user)
    /\ pc = "user" => GroupFits(db, pos)
    /\ pc \in {"grant", "write"} => pos > Len(lines)
    /\ pc = "write" => toGrant = <<>>

\* The late run works on what it loaded; primary groups that it sets to those of an
\* earlier line are set again.
LateSame ==
    /\ db.uid = etc.uid /\ db.gid = etc.gid /\ db.mem = etc.mem
    /\ \A u \in Name : \/ db.pgid[u] = etc.pgid[u]
                       \/ \E k \in DOMAIN lines : pos <= k /\ lines[k].user = u
    /\ \A g \in Range(toGrant) : etc.gid[g] # NoId
    /\ pc \in {"grant", "write"} => pos > Len(lines)

AtFiles == pc = "install" \/ (run = "late" /\ pc \in {"load"} \cup Working)

LateInv ==
    /\ \A r \in moved : r.run = "late" => run = "late" /\ pc # "load"
    /\ pc = "install" => run = "early"
    /\ Quiet => /\ run = "early" /\ pc \in Working => EarlyDone
                /\ AtFiles => Fits(etc)
                /\ run = "late" => pc \notin Errors
                /\ run = "late" /\ pc \in Working => LateSame

LEMMA RangeOfTail ==
  ASSUME NEW S, NEW s \in Seq(S), s # <<>>
  PROVE  /\ Range(Tail(s)) \subseteq Range(s) /\ Head(s) \in Range(s)
         /\ \A x \in Range(s) : x = Head(s) \/ x \in Range(Tail(s))
  <1>1. Len(s) \in Nat /\ Len(s) >= 1 /\ DOMAIN s = 1..Len(s)
    OBVIOUS
  <1>2. /\ Len(Tail(s)) = Len(s) - 1 /\ DOMAIN Tail(s) = 1..(Len(s) - 1)
        /\ \A i \in 1..(Len(s) - 1) : Tail(s)[i] = s[i + 1]
    BY <1>1
  <1>3. Head(s) = s[1]
    OBVIOUS
  <1>4. ASSUME NEW x \in Range(s) PROVE x = Head(s) \/ x \in Range(Tail(s))
    <2>1. PICK i \in 1..Len(s) : x = s[i]
      BY <1>1 DEF Range
    <2>2. CASE i = 1
      BY <1>3, <2>1, <2>2
    <2>3. CASE i # 1
      <3>1. i - 1 \in DOMAIN Tail(s) /\ x = Tail(s)[i - 1]
        BY <1>1, <1>2, <2>1, <2>3
      <3> QED
        BY <3>1 DEF Range
    <2> QED
      BY <2>2, <2>3
  <1>5. ASSUME NEW x \in Range(Tail(s)) PROVE x \in Range(s)
    <2>1. PICK i \in 1..(Len(s) - 1) : x = s[i + 1]
      BY <1>2, <1>5 DEF Range
    <2>2. i + 1 \in DOMAIN s
      BY <1>1
    <2> QED
      BY <2>1, <2>2 DEF Range
  <1>6. Head(s) \in Range(s)
    BY <1>1, <1>3 DEF Range
  <1> QED
    BY <1>4, <1>5, <1>6

LEMMA RangeOfBoth ==
  ASSUME NEW S, NEW s \in Seq(S), NEW t \in Seq(S)
  PROVE  Range(s \o t) = Range(s) \cup Range(t)
  <1>1. /\ Len(s) \in Nat /\ Len(t) \in Nat
        /\ DOMAIN s = 1..Len(s) /\ DOMAIN t = 1..Len(t)
        /\ DOMAIN (s \o t) = 1..(Len(s) + Len(t))
        /\ \A i \in 1..Len(s) : (s \o t)[i] = s[i]
        /\ \A i \in 1..Len(t) : (s \o t)[Len(s) + i] = t[i]
    OBVIOUS
  <1>2. ASSUME NEW x \in Range(s \o t) PROVE x \in Range(s) \cup Range(t)
    <2>1. PICK i \in 1..(Len(s) + Len(t)) : x = (s \o t)[i]
      BY <1>1, <1>2 DEF Range
    <2>2. CASE i <= Len(s)
      <3>1. i \in DOMAIN s /\ x = s[i]
        BY <1>1, <2>1, <2>2
      <3> QED
        BY <3>1 DEF Range
    <2>3. CASE i > Len(s)
      <3>1. i - Len(s) \in DOMAIN t /\ Len(s) + (i - Len(s)) = i
        BY <1>1, <2>1, <2>3
      <3>2. x = t[i - Len(s)]
        BY <1>1, <2>1, <3>1
      <3> QED
        BY <3>1, <3>2 DEF Range
    <2> QED
      BY <1>1, <2>2, <2>3
  <1>3. ASSUME NEW x \in Range(s) PROVE x \in Range(s \o t)
    <2>1. PICK i \in 1..Len(s) : x = s[i]
      BY <1>1, <1>3 DEF Range
    <2>2. i \in DOMAIN (s \o t) /\ x = (s \o t)[i]
      BY <1>1, <2>1
    <2> QED
      BY <2>2 DEF Range
  <1>4. ASSUME NEW x \in Range(t) PROVE x \in Range(s \o t)
    <2>1. PICK i \in 1..Len(t) : x = t[i]
      BY <1>1, <1>4 DEF Range
    <2>2. Len(s) + i \in DOMAIN (s \o t) /\ x = (s \o t)[Len(s) + i]
      BY <1>1, <2>1
    <2> QED
      BY <2>2 DEF Range
  <1> QED
    BY <1>2, <1>3, <1>4

\* Nothing is forgotten about moves.
LEMMA MovesKept ==
  ASSUME TInv, [Next]_vars
  PROVE  moved \subseteq moved' /\ (Quiet' => Quiet)
  <1>1. moved \subseteq moved'
    <2>1. CASE Failing
      BY <2>1 DEF Failing, LoadFails, AddGroupFails, AddUserFails, GrantNewGroupFails,
                  GrantFails, AddFails, Fail
    <2>2. CASE Load \/ LinesDone \/ GrantsDone \/ Write \/ LateRun \/ UNCHANGED vars
      BY <2>2 DEF Load, LinesDone, GrantsDone, Write, LateRun, vars
    <2>3. CASE Package
      BY <2>3, InstallFrame DEF Package
    <2>4. ASSUME NEW g, NEW id, NEW ms,
                 GroupBlock(g, id) \/ UserBlock(g, id) \/ GrantBlock(g, id, ms)
          PROVE  moved \subseteq moved'
      BY <2>4 DEF GroupBlock, UserBlock, GrantBlock, Move
    <2> QED
      BY BlockShape, <2>1, <2>2, <2>3, <2>4 DEF Block
  <1> QED
    BY <1>1 DEF Quiet

\* What stays of ids and members.
Kept(a, b) == \A n \in Name :
    /\ a.gid[n] # NoId => b.gid[n] = a.gid[n] /\ a.mem[n] \subseteq b.mem[n]
    /\ a.uid[n] # NoId => b.uid[n] = a.uid[n]

LEMMA FindsKept ==
  ASSUME NEW a, NEW b, NEW g \in Name, NEW u, Kept(a, b), Finds(a, g, u)
  PROVE  Finds(b, g, u)
  BY DEF Kept, Finds

LEMMA GroupFitsKept ==
  ASSUME TypeOK, NEW i \in DOMAIN lines, NEW a, NEW b,
         \A n \in Name : a.gid[n] # NoId => b.gid[n] = a.gid[n], GroupFits(a, i)
  PROVE  GroupFits(b, i)
  BY LineAt DEF GroupFits

LEMMA LineFitsKept ==
  ASSUME TypeOK, NEW i \in DOMAIN lines, NEW n \in Int, NEW m \in Int, n <= m, NEW a, NEW b,
         \A k \in Name : /\ a.gid[k] # NoId => b.gid[k] = a.gid[k]
                         /\ a.uid[k] # NoId => b.uid[k] = a.uid[k],
         \/ lines[i].user # NoUser => b.pgid[lines[i].user] = a.pgid[lines[i].user]
         \/ \E k \in DOMAIN lines : i < k /\ k <= m /\ lines[k].user = lines[i].user,
         LineFits(a, i, n)
  PROVE  LineFits(b, i, m)
  <1>1. lines[i].group \in Name /\ lines[i].user \in Name \cup {NoUser}
    BY LineAt
  <1>2. GroupFits(a, i) /\ UserFits(a, i) /\ PrimaryFits(a, i, n)
    BY DEF LineFits
  <1>3. GroupFits(b, i)
    BY <1>2, GroupFitsKept
  <1>4. UserFits(b, i)
    BY <1>1, <1>2 DEF UserFits
  <1>5. PrimaryFits(b, i, m)
    <2>1. \A k \in DOMAIN lines : k \in Nat
      BY LineAt
    <2>2. b.gid[lines[i].group] = a.gid[lines[i].group]
      BY <1>1, <1>2 DEF GroupFits
    <2> QED
      BY <1>2, <2>1, <2>2 DEF PrimaryFits
  <1> QED
    BY <1>3, <1>4, <1>5 DEF LineFits

\* A run that is early, or has not begun, and quiet has moved nothing.
LEMMA NothingMoved ==
  ASSUME LateInv, Quiet, run = "early" \/ pc = "load"
  PROVE  moved = {}
  <1>1. ASSUME NEW r \in moved PROVE FALSE
    BY <1>1 DEF LateInv, Quiet
  <1> QED
    BY <1>1

LEMMA LateInit == Init => LateInv
  BY DEF Init, LateInv, AtFiles, Working

-----------------------------------------------------------------------------
(* The early run, while it replaces no id.                                 *)

\* What a replaced id leaves behind.
LEMMA MoveIsLoud ==
  ASSUME NEW file, NEW n, NEW id, run = "early", moved' = Move(file, n, id)
  PROVE  ~Quiet'
  <1> DEFINE r == [run |-> run, file |-> file, name |-> n, from |-> id]
  <1>1. r \in moved' /\ r.run = "early"
    BY DEF Move
  <1> HIDE DEF r
  <1> QED
    BY <1>1 DEF Quiet

LEMMA EarlyGroup ==
  ASSUME TInv, EarlyDone, Quiet', run = "early",
         NEW g \in Name, NEW id \in Nat, GroupBlock(g, id)
  PROVE  EarlyDone'
  <1>t. /\ TypeOK /\ pos \in Nat \ {0} /\ db.gid \in [Name -> IdOrNone]
        /\ \A i \in DOMAIN lines : i \in Nat
    BY LineAt DEF TInv, TypeOK, Accounts
  <1>1. /\ pc = "group" /\ pos <= Len(lines) /\ lines' = lines /\ g = Line.group
        /\ toGrant' = toGrant /\ db'.uid = db.uid /\ db'.pgid = db.pgid
        /\ db'.gid = [db.gid EXCEPT ![g] = id]
        /\ \/ Line.user = NoUser /\ pos' = pos + 1 /\ pc' = "group"
           \/ pos' = pos /\ pc' = "user"
    BY DEF GroupBlock, AtGroup, AfterGroup
  <1>2. db.gid[g] # NoId => id = db.gid[g]
    BY MoveIsLoud DEF GroupBlock
  <1>3. \A n \in Name : db.gid[n] # NoId => db'.gid[n] = db.gid[n]
    BY <1>t, <1>1, <1>2
  <1>4. pos \in DOMAIN lines
    BY <1>t, <1>1 DEF TypeOK
  <1>5. GroupFits(db', pos)
    <2>1. db'.gid[g] = id /\ id # NoId /\ (Line.gid \notin IdKind => id = Line.gid)
      BY <1>t, <1>1 DEF GroupBlock, NoId
    <2> QED
      BY <1>1, <2>1 DEF GroupFits, Line
  <1>6. ASSUME NEW i \in DOMAIN lines, i < pos
        PROVE  LineFits(db', i, pos' - 1) /\ \A h \in Name : Asks(i, h) => h \in Range(toGrant)
    <2>1. LineFits(db, i, pos - 1) /\ \A h \in Name : Asks(i, h) => h \in Range(toGrant)
      BY <1>1, <1>6 DEF EarlyDone
    <2>2. pos - 1 \in Int /\ pos' - 1 \in Int /\ pos - 1 <= pos' - 1
      BY <1>t, <1>1
    <2>3. LineFits(db', i, pos' - 1)
      BY <1>t, <1>1, <1>3, <2>1, <2>2, LineFitsKept
    <2> QED
      BY <2>1, <2>3
  <1>7. ASSUME Line.user = NoUser
        PROVE  LineFits(db', pos, pos) /\ \A h \in Name : ~Asks(pos, h)
    BY <1>5, <1>7 DEF LineFits, UserFits, PrimaryFits, Asks, Line
  <1>8. \A i \in DOMAIN lines : i < pos' =>
           LineFits(db', i, pos' - 1) /\ \A h \in Name : Asks(i, h) => h \in Range(toGrant)
    <2>1. CASE pos' = pos
      BY <1>6, <2>1
    <2>2. CASE pos' # pos
      <3>1. pos' = pos + 1 /\ pos' - 1 = pos /\ Line.user = NoUser
        BY <1>t, <1>1, <2>2
      <3>2. \A i \in DOMAIN lines : i < pos' => i < pos \/ i = pos
        BY <1>t, <3>1
      <3> QED
        BY <1>6, <1>7, <3>1, <3>2
    <2> QED
      BY <2>1, <2>2
  <1> QED
    BY <1>1, <1>5, <1>8
    DEF EarlyDone, LineFits, GroupFits, UserFits, PrimaryFits, Asks

LEMMA EarlyUser ==
  ASSUME TInv, EarlyDone, Quiet', run = "early",
         NEW u \in Name, NEW id \in Nat, UserBlock(u, id)
  PROVE  EarlyDone'
  <1>t. /\ TypeOK /\ pos \in Nat \ {0} /\ toGrant \in Seq(Name)
        /\ db.uid \in [Name -> IdOrNone] /\ db.pgid \in [Name -> IdOrNone]
        /\ \A i \in DOMAIN lines : i \in Nat
    BY LineAt DEF TInv, TypeOK, Accounts
  <1>1. /\ pc = "user" /\ pos <= Len(lines) /\ lines' = lines /\ u = Line.user
        /\ toGrant' = toGrant \o Line.groups
        /\ db'.gid = db.gid /\ db'.uid = [db.uid EXCEPT ![u] = id]
        /\ db'.pgid = [db.pgid EXCEPT ![u] = db.gid[Line.group]]
        /\ pos' = pos + 1 /\ pc' = "group"
    BY DEF UserBlock, AtUser, AfterUser, TInv, UserReady
  <1>2. db.uid[u] # NoId => id = db.uid[u]
    BY MoveIsLoud DEF UserBlock
  <1>3. /\ \A n \in Name : db.uid[n] # NoId => db'.uid[n] = db.uid[n]
        /\ \A n \in Name : n # u => db'.pgid[n] = db.pgid[n]
        /\ db'.uid[u] = id /\ db'.pgid[u] = db.gid[Line.group]
    BY <1>t, <1>1, <1>2
  <1>4. pos \in DOMAIN lines /\ lines[pos] = Line /\ pos' - 1 = pos
    BY <1>t, <1>1 DEF TypeOK, Line
  <1>5. Range(toGrant') = Range(toGrant) \cup Range(Line.groups)
    BY <1>t, <1>1, <1>4, LineAt, RangeOfBoth
  <1>6. ASSUME NEW i \in DOMAIN lines, i < pos
        PROVE  LineFits(db', i, pos) /\ \A h \in Name : Asks(i, h) => h \in Range(toGrant')
    <2>1. LineFits(db, i, pos - 1) /\ \A h \in Name : Asks(i, h) => h \in Range(toGrant)
      BY <1>1, <1>6 DEF EarlyDone
    <2>2. pos - 1 \in Int /\ pos \in Int /\ pos - 1 <= pos /\ pos <= pos
      BY <1>t
    <2>3. \/ lines[i].user # NoUser => db'.pgid[lines[i].user] = db.pgid[lines[i].user]
          \/ \E k \in DOMAIN lines : i < k /\ k <= pos /\ lines[k].user = lines[i].user
      <3>1. CASE lines[i].user = u
        BY <1>1, <1>4, <1>6, <2>2, <3>1
      <3>2. CASE lines[i].user # u
        BY <1>t, <1>3, <3>2, LineAt
      <3> QED
        BY <3>1, <3>2
    <2>k. \A k \in Name : /\ db.gid[k] # NoId => db'.gid[k] = db.gid[k]
                          /\ db.uid[k] # NoId => db'.uid[k] = db.uid[k]
      BY <1>1, <1>3
    <2>4. LineFits(db', i, pos)
      BY <1>t, <2>1, <2>2, <2>3, <2>k, LineFitsKept
    <2> QED
      BY <1>5, <2>1, <2>4
  <1>7. LineFits(db', pos, pos) /\ \A h \in Name : Asks(pos, h) => h \in Range(toGrant')
    <2>1. GroupFits(db', pos)
      BY <1>1 DEF EarlyDone, GroupFits
    <2>2. UserFits(db', pos)
      <3>1. id # NoId /\ (Line.uid \notin IdKind => id = Line.uid)
        BY DEF UserBlock, NoId
      <3> QED
        BY <1>1, <1>3, <1>4, <3>1 DEF UserFits
    <2>3. PrimaryFits(db', pos, pos)
      BY <1>1, <1>3, <1>4 DEF PrimaryFits
    <2> QED
      BY <1>4, <1>5, <2>1, <2>2, <2>3 DEF LineFits, Asks
  <1>8. \A i \in DOMAIN lines : i < pos' =>
           LineFits(db', i, pos' - 1) /\ \A h \in Name : Asks(i, h) => h \in Range(toGrant')
    <2>1. \A i \in DOMAIN lines : i < pos' => i < pos \/ i = pos
      BY <1>t, <1>1
    <2> QED
      BY <1>4, <1>6, <1>7, <2>1
  <1> QED
    BY <1>1, <1>8 DEF EarlyDone, LineFits, GroupFits, UserFits, PrimaryFits, Asks

LEMMA EarlyGrant ==
  ASSUME TInv, EarlyDone, NEW g \in Name, NEW id \in Nat, NEW ms \in SUBSET Name,
         GrantBlock(g, id, ms)
  PROVE  EarlyDone'
  <1>t. /\ TypeOK /\ pos \in Nat \ {0} /\ toGrant \in Seq(Name)
        /\ db.gid \in [Name -> IdOrNone] /\ db.mem \in [Name -> SUBSET Name]
    BY DEF TInv, TypeOK, Accounts
  <1>1. /\ pc = "grant" /\ pc' = pc /\ lines' = lines /\ pos' = pos /\ g = Head(toGrant)
        /\ toGrant # <<>> /\ toGrant' = Tail(toGrant)
        /\ db'.uid = db.uid /\ db'.pgid = db.pgid
        /\ db'.gid = [db.gid EXCEPT ![g] = id] /\ db'.mem = [db.mem EXCEPT ![g] = ms]
    BY DEF GrantBlock, AtGrant, Group
  <1>2. /\ db'.gid[g] = id /\ id # NoId /\ db'.mem[g] = ms
        /\ \A n \in Name : n # g => db'.gid[n] = db.gid[n] /\ db'.mem[n] = db.mem[n]
    BY <1>t, <1>1 DEF NoId
  <1>3. db.gid[g] # NoId => id = db.gid[g] /\ db.mem[g] \subseteq ms
    BY DEF GrantBlock
  <1>4. Kept(db, db')
    BY <1>1, <1>2, <1>3 DEF Kept
  <1>5. ASSUME NEW i \in DOMAIN lines, Asks(i, g)
        PROVE  Finds(db', g, lines[i].user)
    <2>1. lines[i].user \in Requesting(g) /\ lines[i].user \in Name
      BY <1>t, <1>5, LineAt DEF Asks, Requesting
    <2>2. \E m \in ms : m \in PartOf[lines[i].user]
      <3>1. CASE Requesting(g) \subseteq ms
        BY <2>1, <3>1, NameAssumption
      <3>2. CASE FoundInText(g) /\ ms = db.mem[g]
        BY <2>1, <3>2 DEF FoundInText
      <3> QED
        BY <3>1, <3>2 DEF GrantBlock
    <2> QED
      BY <1>2, <2>2 DEF Finds
  <1>6. ASSUME NEW i \in DOMAIN lines, i < pos
        PROVE  /\ LineFits(db', i, pos - 1)
               /\ \A h \in Name : Asks(i, h) =>
                     h \in Range(toGrant') \/ Finds(db', h, lines[i].user)
    <2>1. /\ LineFits(db, i, pos - 1)
          /\ \A h \in Name : Asks(i, h) =>
                h \in Range(toGrant) \/ Finds(db, h, lines[i].user)
      BY <1>1, <1>6 DEF EarlyDone
    <2>2. pos - 1 \in Int /\ pos - 1 <= pos - 1
      BY <1>t
    <2>3. \A k \in Name : /\ db.gid[k] # NoId => db'.gid[k] = db.gid[k]
                          /\ db.uid[k] # NoId => db'.uid[k] = db.uid[k]
      BY <1>4 DEF Kept
    <2>4. LineFits(db', i, pos - 1)
      BY <1>t, <1>1, <2>1, <2>2, <2>3, LineFitsKept
    <2>5. ASSUME NEW h \in Name, Asks(i, h)
          PROVE  h \in Range(toGrant') \/ Finds(db', h, lines[i].user)
      <3>1. CASE h = g
        BY <1>5, <2>5, <3>1
      <3>2. CASE h # g /\ h \in Range(toGrant)
        BY <1>t, <1>1, <3>2, RangeOfTail
      <3>3. CASE Finds(db, h, lines[i].user)
        BY <1>4, <3>3, FindsKept
      <3> QED
        BY <2>1, <2>5, <3>1, <3>2, <3>3
    <2> QED
      BY <2>4, <2>5
  <1>7. pos > Len(lines)
    BY <1>1 DEF EarlyDone
  <1> QED
    BY <1>1, <1>6, <1>7 DEF EarlyDone, LineFits, GroupFits, UserFits, PrimaryFits, Asks, Finds

-----------------------------------------------------------------------------
(* Writing and the packages.                                               *)

LEMMA FitsKept ==
  ASSUME TypeOK, NEW a, NEW b, Kept(a, b), Fits(a),
         \A n \in Name : a.uid[n] # NoId => b.pgid[n] = a.pgid[n]
  PROVE  Fits(b)
  <1>1. ASSUME NEW i \in DOMAIN lines PROVE LineFits(b, i, Len(lines))
    <2>1. LineFits(a, i, Len(lines)) /\ Len(lines) \in Int /\ Len(lines) <= Len(lines)
      BY DEF Fits, TypeOK
    <2>2. lines[i].user # NoUser => b.pgid[lines[i].user] = a.pgid[lines[i].user]
      BY <2>1, LineAt DEF LineFits, UserFits
    <2>3. \A k \in Name : /\ a.gid[k] # NoId => b.gid[k] = a.gid[k]
                          /\ a.uid[k] # NoId => b.uid[k] = a.uid[k]
      BY DEF Kept
    <2> QED
      BY <2>1, <2>2, <2>3, LineFitsKept
  <1>2. ASSUME NEW i \in DOMAIN lines, NEW g \in Name, Asks(i, g)
        PROVE  Finds(b, g, lines[i].user)
    BY <1>2, FindsKept DEF Fits
  <1> QED
    BY <1>1, <1>2 DEF Fits

\* The early run leaves files that fit.
LEMMA EarlyWrite ==
  ASSUME TInv, MembersInv, EarlyDone, moved = {}, Write
  PROVE  Fits(etc')
  <1>t. /\ TypeOK /\ pc = "write" /\ pc \in Working
        /\ Len(lines) \in Nat /\ pos \in Nat
        /\ \A i \in DOMAIN lines : i \in Nat /\ i <= Len(lines)
    BY LineAt DEF TInv, TypeOK, Write, Working
  <1>1. /\ etc'.uid = db.uid /\ etc'.pgid = db.pgid /\ etc'.gid = db.gid
        /\ etc'.mem = [g \in Name |-> WrittenMembers(g)]
    BY <1>t, WrittenFields
  <1>2. MovedNames("group") = {}
    BY DEF MovedNames, MovedIn
  <1>3. \A g \in Name : WrittenMembers(g) = db.mem[g]
    BY <1>t, <1>2 DEF WrittenMembers, MembersInv, TextKept
  <1>4. Kept(db, etc')
    BY <1>1, <1>3 DEF Kept
  <1>5. pos > Len(lines) /\ Range(toGrant) = {}
    BY <1>t DEF EarlyDone, Range
  <1>6. Fits(db)
    <2>1. ASSUME NEW i \in DOMAIN lines PROVE LineFits(db, i, Len(lines))
      <3>1. LineFits(db, i, pos - 1)
        BY <1>t, <1>5 DEF EarlyDone
      <3> QED
        BY <1>t, <3>1 DEF LineFits, PrimaryFits
    <2>2. ASSUME NEW i \in DOMAIN lines, NEW g \in Name, Asks(i, g)
          PROVE  Finds(db, g, lines[i].user)
      BY <1>t, <1>5, <2>2 DEF EarlyDone
    <2> QED
      BY <2>1, <2>2 DEF Fits
  <1> QED
    BY <1>t, <1>1, <1>4, <1>6, FitsKept

\* Packages take nothing away.
LEMMA PackagesKeep ==
  ASSUME TInv, MembersInv, Fits(etc), Package
  PROVE  Fits(etc')
  <1>t. TypeOK /\ etc \in Accounts
    BY DEF TInv, TypeOK
  <1>m. \A g \in Name : etc.mem[g] \subseteq etc'.mem[g]
    BY <1>t, PackagesAddMembers DEF MembersInv, PackageMembers
  <1>1. CASE InstallGroup
    <2>1. PICK g \in Name, id \in Nat :
             /\ etc.gid[g] = NoId /\ etc'.uid = etc.uid /\ etc'.pgid = etc.pgid
             /\ etc'.gid = [etc.gid EXCEPT ![g] = id]
      BY <1>t, <1>1, InstallGroupEffect
    <2>2. Kept(etc, etc')
      BY <1>t, <1>m, <2>1 DEF Kept, Accounts
    <2> QED
      BY <1>t, <2>1, <2>2, FitsKept
  <1>2. CASE InstallUser
    <2>1. PICK u \in Name, g \in Name, id \in Nat :
             /\ etc.uid[u] = NoId /\ etc'.gid = etc.gid
             /\ etc'.uid = [etc.uid EXCEPT ![u] = id]
             /\ etc'.pgid = [etc.pgid EXCEPT ![u] = etc.gid[g]]
      BY <1>t, <1>2, InstallUserEffect
    <2>2. \A n \in Name : etc.uid[n] # NoId =>
             etc'.uid[n] = etc.uid[n] /\ etc'.pgid[n] = etc.pgid[n]
      BY <1>t, <2>1 DEF Accounts
    <2>3. Kept(etc, etc')
      BY <1>m, <2>1, <2>2 DEF Kept
    <2> QED
      BY <1>t, <2>2, <2>3, FitsKept
  <1>3. CASE InstallMember \/ InstallShadow
    <2>1. etc'.uid = etc.uid /\ etc'.pgid = etc.pgid /\ etc'.gid = etc.gid
      BY <1>t, <1>3, InstallOtherEffect
    <2>2. Kept(etc, etc')
      BY <1>m, <2>1 DEF Kept
    <2> QED
      BY <1>t, <2>1, <2>2, FitsKept
  <1> QED
    BY <1>1, <1>2, <1>3 DEF Package

-----------------------------------------------------------------------------
(* The late run, on files that fit.                                        *)

LEMMA LateGroup ==
  ASSUME TInv, Fits(etc), LateSame, NEW g \in Name, NEW id \in Nat, GroupBlock(g, id)
  PROVE  LateSame'
  <1>t. /\ TypeOK /\ pos \in Nat \ {0} /\ db.gid \in [Name -> IdOrNone]
        /\ \A i \in DOMAIN lines : i \in Nat
    BY LineAt DEF TInv, TypeOK, Accounts
  <1>1. /\ pc = "group" /\ pos <= Len(lines) /\ lines' = lines /\ g = Line.group
        /\ UNCHANGED <<etc, toGrant>> /\ db'.uid = db.uid /\ db'.pgid = db.pgid
        /\ db'.gid = [db.gid EXCEPT ![g] = id]
        /\ \/ Line.user = NoUser /\ pos' = pos + 1 /\ pc' = "group"
           \/ pos' = pos /\ pc' = "user"
    BY DEF GroupBlock, AtGroup, AfterGroup
  <1>2. pos \in DOMAIN lines /\ lines[pos] = Line
    BY <1>t, <1>1 DEF TypeOK, Line
  <1>3. db.gid[g] # NoId /\ (Line.gid \notin IdKind => db.gid[g] = Line.gid)
    BY <1>1, <1>2 DEF Fits, LineFits, GroupFits, LateSame
  <1>4. id = db.gid[g] /\ db'.mem = db.mem
    BY <1>3 DEF GroupBlock
  <1>5. db'.gid = db.gid
    BY <1>t, <1>1, <1>4
  <1>6. \A k \in DOMAIN lines : pos <= k /\ lines[k].user \in Name => pos' <= k
    BY <1>t, <1>1, <1>2, NameAssumption
  <1> QED
    BY <1>1, <1>4, <1>5, <1>6 DEF LateSame

LEMMA LateUser ==
  ASSUME TInv, Fits(etc), LateSame, NEW u \in Name, NEW id \in Nat, UserBlock(u, id)
  PROVE  LateSame'
  <1>t. /\ TypeOK /\ pos \in Nat \ {0} /\ toGrant \in Seq(Name)
        /\ db.uid \in [Name -> IdOrNone] /\ db.pgid \in [Name -> IdOrNone]
        /\ \A i \in DOMAIN lines : i \in Nat /\ i <= Len(lines)
    BY LineAt DEF TInv, TypeOK, Accounts
  <1>1. /\ pc = "user" /\ pos <= Len(lines) /\ lines' = lines /\ u = Line.user
        /\ Line.user # NoUser
        /\ etc' = etc /\ toGrant' = toGrant \o Line.groups
        /\ db'.gid = db.gid /\ db'.mem = db.mem /\ db'.uid = [db.uid EXCEPT ![u] = id]
        /\ db'.pgid = [db.pgid EXCEPT ![u] = db.gid[Line.group]]
        /\ pos' = pos + 1 /\ pc' = "group"
    BY DEF UserBlock, AtUser, AfterUser, TInv, UserReady
  <1>2. pos \in DOMAIN lines /\ lines[pos] = Line
    BY <1>t, <1>1 DEF TypeOK, Line
  <1>f. LineFits(etc, pos, Len(lines)) /\ \A g \in Name : Asks(pos, g) => etc.gid[g] # NoId
    BY <1>2 DEF Fits, Finds
  <1>3. db.uid[u] # NoId /\ (Line.uid \notin IdKind => db.uid[u] = Line.uid)
    BY <1>1, <1>2, <1>f DEF LineFits, UserFits, LateSame
  <1>4. id = db.uid[u]
    BY <1>3 DEF UserBlock
  <1>5. db'.uid = db.uid
    BY <1>t, <1>1, <1>4
  <1>6. ASSUME NEW w \in Name
        PROVE  \/ db'.pgid[w] = etc.pgid[w]
               \/ \E k \in DOMAIN lines : pos' <= k /\ lines[k].user = w
    <2>1. CASE w = u
      <3>1. db'.pgid[w] = etc.gid[Line.group]
        BY <1>t, <1>1, <2>1 DEF LateSame
      <3>2. \/ etc.pgid[u] = etc.gid[Line.group]
            \/ \E k \in DOMAIN lines : pos < k /\ lines[k].user = u
        BY <1>1, <1>2, <1>f DEF LineFits, PrimaryFits
      <3> QED
        BY <1>t, <1>1, <2>1, <3>1, <3>2
    <2>2. CASE w # u
      <3>1. db'.pgid[w] = db.pgid[w]
        BY <1>t, <1>1, <2>2
      <3>2. \A k \in DOMAIN lines : pos <= k /\ lines[k].user = w => pos' <= k
        BY <1>t, <1>1, <1>2, <2>2
      <3> QED
        BY <3>1, <3>2 DEF LateSame
    <2> QED
      BY <2>1, <2>2
  <1>7. \A g \in Range(toGrant') : etc.gid[g] # NoId
    <2>1. Range(toGrant') = Range(toGrant) \cup Range(Line.groups)
      BY <1>t, <1>1, <1>2, LineAt, RangeOfBoth
    <2>2. \A g \in Range(Line.groups) : g \in Name /\ Asks(pos, g)
      BY <1>t, <1>1, <1>2, LineAt DEF Asks, Range
    <2> QED
      BY <1>f, <2>1, <2>2 DEF LateSame
  <1> QED
    BY <1>1, <1>5, <1>6, <1>7 DEF LateSame

LEMMA LateGrant ==
  ASSUME TInv, LateSame, NEW g \in Name, NEW id \in Nat, NEW ms \in SUBSET Name,
         GrantBlock(g, id, ms)
  PROVE  LateSame'
  <1>t. /\ TypeOK /\ toGrant \in Seq(Name)
        /\ db.gid \in [Name -> IdOrNone] /\ db.mem \in [Name -> SUBSET Name]
    BY DEF TInv, TypeOK, Accounts
  <1>1. /\ pc' = pc /\ lines' = lines /\ pos' = pos /\ etc' = etc /\ g = Head(toGrant)
        /\ toGrant # <<>> /\ toGrant' = Tail(toGrant)
        /\ db'.uid = db.uid /\ db'.pgid = db.pgid
        /\ db'.gid = [db.gid EXCEPT ![g] = id] /\ db'.mem = [db.mem EXCEPT ![g] = ms]
    BY DEF GrantBlock, AtGrant, Group
  <1>2. g \in Range(toGrant) /\ Range(toGrant') \subseteq Range(toGrant)
    BY <1>t, <1>1, RangeOfTail
  <1>3. db.gid[g] # NoId /\ IsText(g)
    BY <1>2 DEF LateSame, IsText
  <1>4. id = db.gid[g] /\ ms = db.mem[g]
    BY <1>3 DEF GrantBlock
  <1>5. db'.gid = db.gid /\ db'.mem = db.mem
    BY <1>t, <1>1, <1>4
  <1> QED
    BY <1>1, <1>2, <1>5 DEF LateSame

\* No block fails: whatever is asked for is there.
LEMMA LateSucceeds ==
  ASSUME TInv, Fits(etc), LateSame
  PROVE  ~AddGroupFails /\ ~AddUserFails /\ ~GrantNewGroupFails /\ ~GrantFails
  <1>t. TypeOK /\ pos \in Nat \ {0} /\ toGrant \in Seq(Name)
    BY DEF TInv, TypeOK
  <1>d. pos <= Len(lines) => pos \in DOMAIN lines /\ lines[pos] = Line
    BY <1>t DEF TypeOK, Line
  <1>1. ~AddGroupFails
    BY <1>d DEF AddGroupFails, AtGroup, Fits, LineFits, GroupFits, LateSame
  <1>2. ~AddUserFails
    BY <1>d DEF AddUserFails, AtUser, TInv, UserReady, Fits, LineFits, UserFits, LateSame
  <1>3. AtGrant => db.gid[Group] # NoId /\ Group \in Name
    <2>1. AtGrant => Group \in Range(toGrant) /\ Group \in Name
      BY <1>t, RangeOfTail DEF AtGrant, Group
    <2> QED
      BY <2>1 DEF LateSame
  <1>4. AtGrant => FoundInText(Group)
    <2>1. ASSUME AtGrant, NEW u \in Requesting(Group)
          PROVE  \E m \in db.mem[Group] : m \in PartOf[u]
      <3>1. PICK i \in DOMAIN lines : lines[i].user = u /\ Asks(i, Group)
        BY DEF Requesting, Asks
      <3> QED
        BY <1>3, <2>1, <3>1 DEF Fits, Finds, LateSame
    <2> QED
      BY <2>1 DEF FoundInText
  <1> QED
    BY <1>1, <1>2, <1>3, <1>4 DEF GrantNewGroupFails, GrantFails

-----------------------------------------------------------------------------
(* The steps together.                                                     *)

\* Only a late run that has begun has moved something late.
LateMoves == /\ \A r \in moved : r.run = "late" => run = "late" /\ pc # "load"
             /\ pc = "install" => run = "early"

QuietRuns == /\ run = "early" /\ pc \in Working => EarlyDone
             /\ AtFiles => Fits(etc)
             /\ run = "late" => pc \notin Errors
             /\ run = "late" /\ pc \in Working => LateSame

LEMMA LateMovesStep ==
  ASSUME TInv, LateMoves, [Next]_vars
  PROVE  LateMoves'
  <1>1. CASE Failing
    <2>1. \E why \in Errors : Fail(why)
      BY <1>1 DEF Failing, LoadFails, AddGroupFails, AddUserFails, GrantNewGroupFails,
                  GrantFails, AddFails, Errors
    <2> QED
      BY <2>1 DEF Fail, Errors, LateMoves, control
  <1>2. CASE Load \/ LinesDone \/ GrantsDone \/ Write \/ LateRun \/ UNCHANGED vars
    BY <1>2 DEF Load, LinesDone, GrantsDone, Write, LateRun, vars, control, generators,
                LateMoves
  <1>3. CASE Package
    BY <1>3, InstallFrame DEF Package, LateMoves
  <1>4. ASSUME NEW n, NEW id, NEW ms,
               GroupBlock(n, id) \/ UserBlock(n, id) \/ GrantBlock(n, id, ms)
        PROVE  LateMoves'
    <2>1. run' = run /\ pc # "load" /\ pc' \in {"group", "user", "grant"}
      BY <1>4 DEF GroupBlock, UserBlock, GrantBlock, AtGroup, AtUser, AtGrant,
                  AfterGroup, AfterUser
    <2>2. \A r \in moved' : r \in moved \/ r.run = run
      BY <1>4 DEF GroupBlock, UserBlock, GrantBlock, Move
    <2> QED
      BY <2>1, <2>2 DEF LateMoves
  <1> QED
    BY BlockShape, <1>1, <1>2, <1>3, <1>4 DEF Block

LEMMA QuietRunsStep ==
  ASSUME TInv, SharedInv, MembersInv, LateInv, Quiet, Quiet', [Next]_vars
  PROVE  QuietRuns'
  <1>t. /\ TypeOK /\ run \in {"early", "late"} /\ pos \in Nat \ {0} /\ toGrant \in Seq(Name)
        /\ \A i \in DOMAIN lines : i \in Nat /\ i >= 1 /\ i <= Len(lines)
    BY LineAt DEF TInv, TypeOK
  <1>q. QuietRuns
    BY DEF LateInv, QuietRuns
  <1>same. ASSUME lines' = lines
           PROVE  etc' = etc => (Fits(etc)' <=> Fits(etc))
    BY <1>same DEF Fits, LineFits, GroupFits, UserFits, PrimaryFits, Asks, Finds
  <1>1. CASE Load
    <2>1. /\ lines' = lines /\ run' = run /\ etc' = etc /\ db' = etc /\ pos' = 1
          /\ toGrant' = <<>> /\ pc = "load" /\ pc' = "group"
      BY <1>1 DEF Load, control
    <2>2. run' = "early" => EarlyDone'
      BY <1>t, <2>1 DEF EarlyDone
    <2>3. run' = "late" => Fits(etc)'
      BY <1>same, <1>q, <2>1 DEF QuietRuns, AtFiles
    <2>4. LateSame'
      BY <2>1 DEF LateSame, Range
    <2> QED
      BY <2>1, <2>2, <2>3, <2>4 DEF QuietRuns, AtFiles, Errors
  <1>2. CASE Failing
    <2>1. /\ \E why \in Errors : Fail(why)
          /\ pc \in {"load"} \cup Working
      BY <1>2 DEF Failing, LoadFails, AddGroupFails, AddUserFails, GrantNewGroupFails,
                  GrantFails, AddFails, Errors, AtGroup, AtUser, AtGrant, Working
    <2>2. run' = run /\ pc' \in Errors
      BY <2>1 DEF Fail, control
    <2>3. run # "late"
      <3>1. CASE LoadFails
        <4>1. pc = "load" /\ (Duplicates(etc.uid) \/ Duplicates(etc.gid))
          BY <3>1 DEF LoadFails
        <4>2. MovedNames("passwd") = {} /\ MovedNames("group") = {}
          BY <4>1, NothingMoved DEF MovedNames, MovedIn
        <4> QED
          BY <4>1, <4>2 DEF SharedInv, DuplicatesAreMoved, SharedOnlyWith, Duplicates
      <3>2. CASE ~LoadFails
        <4>1. pc \in Working
          BY <1>2, <3>2 DEF Failing, AddGroupFails, AddUserFails, GrantNewGroupFails,
                            GrantFails, AtGroup, AtUser, AtGrant, Working
        <4>2. run = "late" => Fits(etc) /\ LateSame
          BY <1>q, <4>1 DEF QuietRuns, AtFiles
        <4> QED
          BY <1>2, <3>2, <4>2, LateSucceeds DEF Failing
      <3> QED
        BY <3>1, <3>2
    <2> QED
      BY <1>t, <2>2, <2>3 DEF QuietRuns, AtFiles, Errors, Working
  <1>3. CASE LinesDone \/ GrantsDone
    <2>1. /\ UNCHANGED <<lines, run, etc, db, pos, toGrant>> /\ pc \in Working
          /\ \/ pc = "group" /\ pos > Len(lines) /\ pc' = "grant"
             \/ pc = "grant" /\ toGrant = <<>> /\ pc' = "write"
      BY <1>3 DEF LinesDone, GrantsDone, control, Working
    <2>2. EarlyDone => EarlyDone'
      BY <2>1 DEF EarlyDone, LineFits, GroupFits, UserFits, PrimaryFits, Asks, Finds
    <2>3. LateSame => LateSame'
      BY <2>1 DEF LateSame
    <2>4. Fits(etc)' <=> Fits(etc)
      BY <1>same, <2>1
    <2> QED
      BY <1>q, <2>1, <2>2, <2>3, <2>4 DEF QuietRuns, AtFiles, Working, Errors
  <1>4. CASE Write
    <2>1. /\ lines' = lines /\ run' = run /\ pc \in Working
          /\ pc' = IF run = "early" THEN "install" ELSE "done"
      BY <1>4 DEF Write, control, Working
    <2>2. run = "early" => Fits(etc')
      <3>1. run = "early" => moved = {} /\ EarlyDone
        BY <1>q, <2>1, NothingMoved DEF QuietRuns
      <3> QED
        BY <1>4, <3>1, EarlyWrite
    <2>3. Fits(etc)' <=> Fits(etc')
      BY <2>1 DEF Fits, LineFits, GroupFits, UserFits, PrimaryFits, Asks, Finds
    <2> QED
      BY <1>t, <2>1, <2>2, <2>3 DEF QuietRuns, AtFiles, Working, Errors
  <1>5. CASE Package
    <2>1. lines' = lines /\ run' = run /\ pc = "install" /\ pc' = pc
      BY <1>5, InstallFrame DEF Package
    <2>2. Fits(etc')
      BY <1>5, <1>q, <2>1, PackagesKeep DEF QuietRuns, AtFiles
    <2>3. Fits(etc)' <=> Fits(etc')
      BY <2>1 DEF Fits, LineFits, GroupFits, UserFits, PrimaryFits, Asks, Finds
    <2> QED
      BY <2>1, <2>2, <2>3 DEF QuietRuns, AtFiles, Working, Errors
  <1>6. CASE LateRun
    <2>1. lines' = lines /\ etc' = etc /\ pc = "install" /\ pc' = "load"
      BY <1>6 DEF LateRun
    <2>2. Fits(etc)'
      BY <1>q, <1>same, <2>1 DEF QuietRuns, AtFiles
    <2> QED
      BY <2>1, <2>2 DEF QuietRuns, AtFiles, Working, Errors
  <1>7. CASE UNCHANGED vars
    <2>1. UNCHANGED <<lines, run, pc, pos, etc, db, toGrant>>
      BY <1>7 DEF vars
    <2>2. /\ EarlyDone' <=> EarlyDone
          /\ LateSame' <=> LateSame
      BY <2>1 DEF EarlyDone, LateSame, LineFits, GroupFits, UserFits, PrimaryFits, Asks, Finds
    <2>3. Fits(etc)' <=> Fits(etc)
      BY <1>same, <2>1
    <2> QED
      BY <1>q, <2>1, <2>2, <2>3 DEF QuietRuns, AtFiles
  <1>8. ASSUME NEW n \in Name, NEW id \in Nat, NEW ms \in SUBSET Name,
               GroupBlock(n, id) \/ UserBlock(n, id) \/ GrantBlock(n, id, ms)
        PROVE  QuietRuns'
    <2>1. /\ UNCHANGED <<lines, run, etc>> /\ pc \in Working
          /\ pc' \in {"group", "user", "grant"}
      BY <1>8 DEF GroupBlock, UserBlock, GrantBlock, AtGroup, AtUser, AtGrant,
                  AfterGroup, AfterUser, Working
    <2>2. run = "early" => EarlyDone'
      BY <1>8, <1>q, <2>1, EarlyGroup, EarlyUser, EarlyGrant DEF QuietRuns
    <2>3. run = "late" => Fits(etc) /\ LateSame
      BY <1>q, <2>1 DEF QuietRuns, AtFiles
    <2>4. run = "late" => LateSame'
      BY <1>8, <2>3, LateGroup, LateUser, LateGrant
    <2>5. Fits(etc)' <=> Fits(etc)
      BY <1>same, <2>1
    <2> QED
      BY <2>1, <2>2, <2>3, <2>4, <2>5 DEF QuietRuns, AtFiles, Errors
  <1> QED
    BY BlockShape, <1>1, <1>2, <1>3, <1>4, <1>5, <1>6, <1>7, <1>8 DEF Block

LEMMA LateStep == TInv /\ SharedInv /\ MembersInv /\ LateInv /\ [Next]_vars => LateInv'
  <1> SUFFICES ASSUME TInv, SharedInv, MembersInv, LateInv, [Next]_vars PROVE LateInv'
    OBVIOUS
  <1>1. LateMoves'
    BY LateMovesStep DEF LateInv, LateMoves
  <1>2. Quiet' => QuietRuns'
    BY MovesKept, QuietRunsStep
  <1> QED
    BY <1>1, <1>2 DEF LateInv, LateMoves, QuietRuns

LEMMA LateIdle == TInv /\ LateInv => LateRunIdle
  <1> SUFFICES ASSUME TInv, LateInv, run = "late", Quiet PROVE
          /\ pc \notin Errors
          /\ pc \in Working => /\ db.uid = etc.uid /\ db.gid = etc.gid /\ db.mem = etc.mem
                               /\ pc = "write" => db.pgid = etc.pgid
    BY DEF LateRunIdle, Quiet
  <1>1. pc \notin Errors /\ (pc \in Working => LateSame)
    BY DEF LateInv
  <1>2. ASSUME pc = "write", LateSame PROVE db.pgid = etc.pgid
    <2>1. pos > Len(lines) /\ pos \in Nat /\ Len(lines) \in Nat
          /\ db.pgid \in [Name -> IdOrNone] /\ etc.pgid \in [Name -> IdOrNone]
      BY <1>2 DEF TInv, TypeOK, Accounts, LateSame
    <2>2. \A k \in DOMAIN lines : ~(pos <= k)
      BY <2>1, LineAt DEF TInv
    <2>3. \A u \in Name : db.pgid[u] = etc.pgid[u]
      BY <1>2, <2>2 DEF LateSame
    <2> QED
      BY <2>1, <2>3
  <1> QED
    BY <1>1, <1>2 DEF LateSame

\* Running the program again is safe: unless the early run replaced an id, the late
\* run does not fail and leaves ids, primary groups and members as they are.
THEOREM LateRunLeavesAccounts == Spec => []LateRunIdle
  BY Typed, SharedInit, SharedStep, MembersInit, MembersStep, LateInit, LateStep, LateIdle,
     PTL DEF Spec
=============================================================================
