------------------------------ MODULE Sysusers ------------------------------
(***************************************************************************)
(* make_sysusers.py, which adds the users and groups that collections      *)
(* request to passwd, group, shadow and gshadow of the target.  A build    *)
(* runs it twice with the same request file: early, before the packages    *)
(* are installed, and late, after they added accounts of their own.        *)
(*                                                                         *)
(* One step is one block of a loop of merge_sysusers().  An error ends the *)
(* run before anything is written, and with it the build.  Fields that no  *)
(* property is about (password, home, shell, comment) are left out.        *)
(***************************************************************************)
EXTENDS Integers, Sequences, Functions

CONSTANTS Name,           \* names of users and groups, of two characters or more
          PartOf,         \* PartOf[n]: the names in whose text n occurs, n included
          LineSpace,      \* the request files considered
          EtcSpace,       \* the account files considered, before the early run
          IdMin, IdMax,   \* the ranges of SYSTEM_ and REGULAR_USER_ID_RANGE
          PackageIds,     \* ids that packages choose from
          MaxInstalls     \* bound on what packages do between the runs

NoUser == "-"
NoId == -1
System == -1
Regular == -2
IdKind == {System, Regular}
IdOrNone == Nat \cup {NoId}

\* A line of the request file; a line without user requests a group only.
SysusersEntry ==
    [user : Name \cup {NoUser}, uid : (Nat \ {0}) \cup IdKind,
     group : Name, gid : (Nat \ {0}) \cup IdKind, groups : Seq(Name)]

\* The four files.  uid, pgid: fields of passwd; gid, mem: fields of group.  A
\* shadow entry comes from elsewhere ("theirs") or from this program ("ours").
Shadow == [Name -> {"none", "theirs", "ours"}]
Accounts ==
    [uid : [Name -> IdOrNone], pgid : [Name -> IdOrNone],
     gid : [Name -> IdOrNone], mem : [Name -> SUBSET Name],
     shadow : Shadow, gshadow : Shadow, shadowed : BOOLEAN, gshadowed : BOOLEAN]

InUse(ids) == {ids[n] : n \in Name} \ {NoId}
Duplicates(ids) == \E m, n \in Name : m # n /\ ids[m] = ids[n] /\ ids[m] # NoId

\* No id twice; the primary group of each user exists; only groups have members.
Sane(a) == /\ ~Duplicates(a.uid) /\ ~Duplicates(a.gid)
           /\ \A n \in Name : a.uid[n] # NoId => a.pgid[n] \in InUse(a.gid)
           /\ \A n \in Name : a.gid[n] = NoId => a.mem[n] = {}

ASSUME NameAssumption == /\ NoUser \notin Name
                         /\ PartOf \in [Name -> SUBSET Name] /\ \A n \in Name : n \in PartOf[n]
ASSUME LineAssumption == LineSpace \subseteq Seq(SysusersEntry)
ASSUME EtcAssumption == EtcSpace \subseteq Accounts /\ \A a \in EtcSpace : Sane(a)
ASSUME IdAssumption == /\ IdMin \in [IdKind -> Nat] /\ IdMax \in [IdKind -> Nat]
                       /\ PackageIds \subseteq Nat
                       /\ MaxInstalls \in Nat

VARIABLES
    lines,     \* the request file, complete before the early run
    etc,       \* the account files of the target
    run,       \* "early" or "late"
    pc,        \* the block that is next, or how the run failed
    pos,       \* the line that is next
    db,        \* users_groups_db
    uidKeys,   \* the keys of passwd.by_id
    gidKeys,   \* the keys of group.by_id
    changed,   \* the groups whose entry is marked as changed
    cache,     \* _name_id_cache of both generators
    next,      \* _id_next of both generators
    toGrant,   \* the keys of group_members_map, in order
    installs,  \* what packages did so far
    moved      \* history: entries whose id was replaced, and the id they had

vars == <<lines, etc, run, pc, pos, db, uidKeys, gidKeys, changed, cache, next,
          toGrant, installs, moved>>

generators == <<cache, next>>
control == <<lines, run, installs>>

Errors == {"duplicate", "unhashable", "exhausted", "no_add"}
Working == {"group", "user", "grant", "write"}
Fail(why) == /\ pc' = why
             /\ UNCHANGED <<control, etc, pos, db, uidKeys, gidKeys, changed,
                            generators, toGrant, moved>>

FreshCache == [v \in IdKind |-> [n \in Name |-> NoId]]

Init == /\ lines \in LineSpace
        /\ etc \in EtcSpace
        /\ run = "early"
        /\ pc = "load"
        /\ pos = 1
        /\ db = etc
        /\ uidKeys = {} /\ gidKeys = {} /\ changed = {}
        /\ cache = FreshCache /\ next = IdMin
        /\ toGrant = <<>>
        /\ installs = 0
        /\ moved = {}

-----------------------------------------------------------------------------
(* load_users_groups_db()                                                  *)

Load == /\ pc = "load"
        /\ ~Duplicates(etc.uid) /\ ~Duplicates(etc.gid)
        /\ pc' = "group"
        /\ pos' = 1
        /\ db' = etc
        /\ uidKeys' = InUse(etc.uid) /\ gidKeys' = InUse(etc.gid)
        /\ changed' = {}
        /\ cache' = FreshCache /\ next' = IdMin
        /\ toGrant' = <<>>
        /\ UNCHANGED <<control, etc, moved>>

\* EntryDB.add() raises DuplicateKeyError.
LoadFails == /\ pc = "load"
             /\ Duplicates(etc.uid) \/ Duplicates(etc.gid)
             /\ Fail("duplicate")

-----------------------------------------------------------------------------
(* UidGidGenerator.get() and resolve_id()                                  *)

\* A fault that the checks detect: both kinds of ids are taken from one range.
FreeRegular(v) == {i \in next[Regular]..IdMax[Regular] : i \notin uidKeys /\ i \notin gidKeys}

Free(v) == {i \in next[v]..IdMax[v] : i \notin uidKeys /\ i \notin gidKeys}
FirstFree(v) == CHOOSE i \in Free(v) : \A k \in Free(v) : i <= k

Computed(v, n) == v \in IdKind /\ cache[v][n] = NoId

\* If there is a user or a group of this name, but not both, the entry itself
\* is returned, where an id is expected: it is not hashable.
GivesEntry(v, n) == Computed(v, n) /\ ((db.uid[n] = NoId) # (db.gid[n] = NoId))
GivesNothing(v, n) == Computed(v, n) /\ ~GivesEntry(v, n) /\ Free(v) = {}
Resolvable(v, n) == ~GivesEntry(v, n) /\ ~GivesNothing(v, n)

\* A fault that the checks detect: -1 and -2 are not resolved.
Unresolved(v, n) == v

Resolved(v, n) == IF v \notin IdKind THEN v
                  ELSE IF cache[v][n] # NoId THEN cache[v][n]
                  ELSE FirstFree(v)

\* A fault that the checks detect: the id after the next one is tried next.
AdvanceByTwo(v, n) ==
    IF Computed(v, n)
    THEN /\ cache' = [cache EXCEPT ![v][n] = FirstFree(v)]
         /\ next' = [next EXCEPT ![v] = FirstFree(v) + 2]
    ELSE UNCHANGED generators

Advance(v, n) ==
    IF Computed(v, n)
    THEN /\ cache' = [cache EXCEPT ![v][n] = FirstFree(v)]
         /\ next' = [next EXCEPT ![v] = FirstFree(v) + 1]
    ELSE UNCHANGED generators

\* Adding an entry fails: no id, an entry for an id, or an id that is taken.
AddFails(v, n, keys) ==
    \/ GivesEntry(v, n) /\ Fail("unhashable")
    \/ GivesNothing(v, n) /\ Fail("exhausted")
    \/ Resolvable(v, n) /\ Resolved(v, n) \in keys /\ Fail("duplicate")

-----------------------------------------------------------------------------
(* The loop over the lines.                                                *)

Line == lines[pos]
AtGroup == pc = "group" /\ pos <= Len(lines)
AtUser == pc = "user"

Move(file, n, id) == moved \cup {[run |-> run, file |-> file, name |-> n, from |-> id]}

\* gshadow.add_or_replace(), if there is a gshadow.
ResetGshadow(a, n) == IF a.gshadowed THEN [a EXCEPT !.gshadow[n] = "ours"] ELSE a

\* A fault that the checks detect: a shadow entry is added only if it is missing.
AddMissingShadow(a, n) ==
    IF a.shadowed /\ a.shadow[n] = "none" THEN [a EXCEPT !.shadow[n] = "ours"] ELSE a

ResetShadow(a, n) == IF a.shadowed THEN [a EXCEPT !.shadow[n] = "ours"] ELSE a

AfterGroup == IF Line.user = NoUser
              THEN pos' = pos + 1 /\ pc' = "group"
              ELSE pos' = pos /\ pc' = "user"

AddGroup ==
    /\ AtGroup
    /\ db.gid[Line.group] = NoId
    /\ Resolvable(Line.gid, Line.group)
    /\ LET id == Resolved(Line.gid, Line.group) IN
         /\ id \notin gidKeys
         /\ db' = ResetGshadow([db EXCEPT !.gid[Line.group] = id,
                                          !.mem[Line.group] = {}], Line.group)
         /\ gidKeys' = gidKeys \cup {id}
    /\ changed' = changed \cup {Line.group}
    /\ Advance(Line.gid, Line.group)
    /\ AfterGroup
    /\ UNCHANGED <<control, etc, uidKeys, toGrant, moved>>

AddGroupFails == /\ AtGroup
                 /\ db.gid[Line.group] = NoId
                 /\ AddFails(Line.gid, Line.group, gidKeys)

\* The new id does not become a key of by_id.
UpdateGroup ==
    /\ AtGroup
    /\ LET old == db.gid[Line.group] IN
         /\ old # NoId
         /\ IF Line.gid \in IdKind \cup {old}
            THEN /\ db' = ResetGshadow(db, Line.group)
                 /\ UNCHANGED <<changed, moved>>
            ELSE /\ db' = ResetGshadow([db EXCEPT !.gid[Line.group] = Line.gid], Line.group)
                 /\ changed' = changed \cup {Line.group}
                 /\ moved' = Move("group", Line.group, old)
    /\ AfterGroup
    /\ UNCHANGED <<control, etc, uidKeys, gidKeys, generators, toGrant>>

\* A fault that the checks detect: only the last line's groups are granted.
AfterUserLastGroups == /\ pos' = pos + 1
                       /\ pc' = "group"
                       /\ toGrant' = Line.groups

\* A group that two users name is listed twice; the second visit has no effect.
AfterUser == /\ pos' = pos + 1
             /\ pc' = "group"
             /\ toGrant' = toGrant \o Line.groups

\* Faults that the checks detect: an id that is taken is accepted; the primary
\* group has the user's id.
AddUserUnchecked ==
    /\ AtUser
    /\ db.uid[Line.user] = NoId
    /\ Resolvable(Line.uid, Line.user)
    /\ LET id == Resolved(Line.uid, Line.user) IN
         /\ db' = ResetShadow([db EXCEPT !.uid[Line.user] = id,
                                         !.pgid[Line.user] = db.gid[Line.group]], Line.user)
         /\ uidKeys' = uidKeys \cup {id}
    /\ Advance(Line.uid, Line.user)
    /\ AfterUser
    /\ UNCHANGED <<control, etc, gidKeys, changed, moved>>

AddUserOwnGroup ==
    /\ AtUser
    /\ db.uid[Line.user] = NoId
    /\ Resolvable(Line.uid, Line.user)
    /\ LET id == Resolved(Line.uid, Line.user) IN
         /\ id \notin uidKeys
         /\ db' = ResetShadow([db EXCEPT !.uid[Line.user] = id,
                                         !.pgid[Line.user] = id], Line.user)
         /\ uidKeys' = uidKeys \cup {id}
    /\ Advance(Line.uid, Line.user)
    /\ AfterUser
    /\ UNCHANGED <<control, etc, gidKeys, changed, moved>>

AddUser ==
    /\ AtUser
    /\ db.uid[Line.user] = NoId
    /\ Resolvable(Line.uid, Line.user)
    /\ LET id == Resolved(Line.uid, Line.user) IN
         /\ id \notin uidKeys
         /\ db' = ResetShadow([db EXCEPT !.uid[Line.user] = id,
                                         !.pgid[Line.user] = db.gid[Line.group]], Line.user)
         /\ uidKeys' = uidKeys \cup {id}
    /\ Advance(Line.uid, Line.user)
    /\ AfterUser
    /\ UNCHANGED <<control, etc, gidKeys, changed, moved>>

AddUserFails == /\ AtUser
                /\ db.uid[Line.user] = NoId
                /\ AddFails(Line.uid, Line.user, uidKeys)

UpdateUser ==
    /\ AtUser
    /\ LET old == db.uid[Line.user]
           new == IF Line.uid \in IdKind THEN old ELSE Line.uid
       IN  /\ old # NoId
           /\ db' = ResetShadow([db EXCEPT !.uid[Line.user] = new,
                                           !.pgid[Line.user] = db.gid[Line.group]], Line.user)
           /\ moved' = IF new = old THEN moved ELSE Move("passwd", Line.user, old)
    /\ AfterUser
    /\ UNCHANGED <<control, etc, uidKeys, gidKeys, changed, generators>>

LinesDone == /\ pc = "group"
             /\ pos > Len(lines)
             /\ pc' = "grant"
             /\ UNCHANGED <<control, etc, pos, db, uidKeys, gidKeys, changed,
                            generators, toGrant, moved>>

-----------------------------------------------------------------------------
(* The loop over group_members_map.                                        *)

AtGrant == pc = "grant" /\ toGrant # <<>>
Group == Head(toGrant)

Requesting(g) == {lines[i].user : i \in {k \in DOMAIN lines :
                        lines[k].user # NoUser /\ g \in Range(lines[k].groups)}}

\* The members of a group that was loaded are the text of the field.
IsText(g) == etc.gid[g] # NoId

\* A group that nobody requested by a line of its own has no gshadow entry.
GrantNewGroup ==
    /\ AtGrant
    /\ db.gid[Group] = NoId
    /\ Resolvable(System, Group)
    /\ LET id == Resolved(System, Group) IN
         /\ id \notin gidKeys
         /\ db' = [db EXCEPT !.gid[Group] = id, !.mem[Group] = Requesting(Group)]
         /\ gidKeys' = gidKeys \cup {id}
    /\ changed' = changed \cup {Group}
    /\ Advance(System, Group)
    /\ toGrant' = Tail(toGrant)
    /\ UNCHANGED <<control, etc, pc, pos, uidKeys, moved>>

GrantNewGroupFails == /\ AtGrant
                      /\ db.gid[Group] = NoId
                      /\ AddFails(System, Group, gidKeys)

Grant ==
    /\ AtGrant
    /\ db.gid[Group] # NoId
    /\ ~IsText(Group)
    /\ db' = [db EXCEPT !.mem[Group] = @ \cup Requesting(Group)]
    /\ changed' = changed \cup {Group}
    /\ toGrant' = Tail(toGrant)
    /\ UNCHANGED <<control, etc, pc, pos, uidKeys, gidKeys, generators, moved>>

\* A fault that the checks detect: only equal names are found.
FoundAsOnlyMember(g) == \A u \in Requesting(g) : db.mem[g] = {u}

\* "username not in gr_mem" looks for a part of the text ...
FoundInText(g) == \A u \in Requesting(g) : \E m \in db.mem[g] : m \in PartOf[u]

GrantFound ==
    /\ AtGrant
    /\ db.gid[Group] # NoId
    /\ IsText(Group)
    /\ FoundInText(Group)
    /\ toGrant' = Tail(toGrant)
    /\ UNCHANGED <<control, etc, pc, pos, db, uidKeys, gidKeys, changed,
                   generators, moved>>

\* ... and a text has no add().
GrantFails ==
    /\ AtGrant
    /\ db.gid[Group] # NoId
    /\ IsText(Group)
    /\ ~FoundInText(Group)
    /\ Fail("no_add")

GrantsDone == /\ pc = "grant"
              /\ toGrant = <<>>
              /\ pc' = "write"
              /\ UNCHANGED <<control, etc, pos, db, uidKeys, gidKeys, changed,
                             generators, toGrant, moved>>

-----------------------------------------------------------------------------
(* write_outfile(), four times.                                            *)

\* A fault that the checks detect: the text is joined in any case.
WrittenMembersJoined(g) == IF IsText(g) THEN {} ELSE db.mem[g]

\* An entry that is not changed is written as it was read.  Joining a text puts
\* a comma between any two of its characters: no member's name is left.
WrittenMembers(g) == IF IsText(g) /\ g \in changed THEN {} ELSE db.mem[g]

Write == /\ pc = "write"
         /\ etc' = [db EXCEPT !.mem = [g \in Name |-> WrittenMembers(g)]]
         /\ pc' = IF run = "early" THEN "install" ELSE "done"
         /\ UNCHANGED <<control, pos, db, uidKeys, gidKeys, changed, generators,
                        toGrant, moved>>

-----------------------------------------------------------------------------
(* Between the runs: packages add accounts, with adduser and addgroup.     *)

Install(a) == /\ pc = "install"
              /\ installs < MaxInstalls
              /\ installs' = installs + 1
              /\ etc' = a
              /\ UNCHANGED <<lines, run, pc, pos, db, uidKeys, gidKeys, changed,
                             generators, toGrant, moved>>

WithGroup(a, g, id) ==
    [a EXCEPT !.gid[g] = id, !.mem[g] = {},
              !.gshadow[g] = IF a.gshadowed THEN "theirs" ELSE "none"]
WithUser(a, u, id, gid) ==
    [a EXCEPT !.uid[u] = id, !.pgid[u] = gid,
              !.shadow[u] = IF a.shadowed THEN "theirs" ELSE "none"]

InstallGroup == \E g \in Name, id \in PackageIds :
    /\ etc.gid[g] = NoId /\ id \notin InUse(etc.gid)
    /\ Install(WithGroup(etc, g, id))

InstallUser == \E u, g \in Name, id \in PackageIds :
    /\ etc.uid[u] = NoId /\ id \notin InUse(etc.uid)
    /\ etc.gid[g] # NoId
    /\ Install(WithUser(etc, u, id, etc.gid[g]))

InstallMember == \E u, g \in Name :
    /\ etc.uid[u] # NoId /\ etc.gid[g] # NoId /\ u \notin etc.mem[g]
    /\ Install([etc EXCEPT !.mem[g] = @ \cup {u}])

\* shadowconfig on
InstallShadow ==
    /\ ~etc.shadowed \/ ~etc.gshadowed
    /\ Install([etc EXCEPT
           !.shadowed = TRUE, !.gshadowed = TRUE,
           !.shadow = [n \in Name |-> IF etc.uid[n] = NoId \/ @[n] # "none" THEN @[n] ELSE "theirs"],
           !.gshadow = [n \in Name |-> IF etc.gid[n] = NoId \/ @[n] # "none" THEN @[n] ELSE "theirs"]])

LateRun == /\ pc = "install"
           /\ run' = "late"
           /\ pc' = "load"
           /\ UNCHANGED <<lines, etc, pos, db, uidKeys, gidKeys, changed,
                          generators, toGrant, installs, moved>>

Ended == pc \in Errors \cup {"done"} /\ UNCHANGED vars

Next == \/ Load \/ LoadFails
        \/ AddGroup \/ AddGroupFails \/ UpdateGroup
        \/ AddUser \/ AddUserFails \/ UpdateUser \/ LinesDone
        \/ GrantNewGroup \/ GrantNewGroupFails \/ Grant \/ GrantFound \/ GrantFails
        \/ GrantsDone \/ Write
        \/ InstallGroup \/ InstallUser \/ InstallMember \/ InstallShadow \/ LateRun
        \/ Ended

Spec == Init /\ [][Next]_vars

-----------------------------------------------------------------------------
(* Properties.                                                             *)

MoveRecord == [run : {"early", "late"}, file : {"passwd", "group"},
               name : Name, from : IdOrNone]

\* Each variable has the type that the code gives it; an entry that takes the
\* place of an id never gets into the databases.
TypeOK == /\ lines \in Seq(SysusersEntry)
          /\ etc \in Accounts /\ db \in Accounts
          /\ run \in {"early", "late"}
          /\ pc \in {"load", "install", "done"} \cup Working \cup Errors
          /\ pos \in Nat \ {0}
          /\ uidKeys \subseteq Nat /\ gidKeys \subseteq Nat
          /\ changed \subseteq Name
          /\ cache \in [IdKind -> [Name -> IdOrNone]]
          /\ next \in [IdKind -> Nat]
          /\ toGrant \in Seq(Name)
          /\ installs \in 0..MaxInstalls
          /\ moved \subseteq MoveRecord

MovedIn(file) == {r \in moved : r.file = file}
MovedNames(file) == {r.name : r \in MovedIn(file)}

MovedFrom(file) == {r.from : r \in MovedIn(file)}

\* Two users, or two groups, get the same id only by a line that replaces the id
\* of an existing account: whatever is added, by explicit or by computed id, is
\* checked against all others.
SharedOnlyWith(ids, movedNames) ==
    \A m, n \in Name : m # n /\ ids[m] = ids[n] /\ ids[m] # NoId =>
        m \in movedNames \/ n \in movedNames

DuplicatesAreMoved ==
    \A a \in {db, etc} : /\ SharedOnlyWith(a.uid, MovedNames("passwd"))
                         /\ SharedOnlyWith(a.gid, MovedNames("group"))

\* The primary group of each user exists, in memory and in the files, unless the
\* group had the user's gid before a line replaced it: other users of that group
\* are not updated.
PrimaryGroupIn(a, ids) == \A u \in Name : a.uid[u] # NoId => a.pgid[u] \in ids

PrimaryGroupsExist ==
    \A a \in {db, etc} : PrimaryGroupIn(a, InUse(a.gid) \cup MovedFrom("group"))

\* A generator is exhausted only if every id of its range was taken, by an account
\* that was loaded or by one that this run added: it skips no id that is free.
ExhaustedMeansFull ==
    pc = "exhausted" => \E v \in IdKind : IdMin[v]..IdMax[v] \subseteq uidKeys \cup gidKeys

\* Unless the early run replaced an id, the late run succeeds, whatever packages
\* added in between, and leaves ids, primary groups and members alone.
LateRunIdle ==
    run = "late" /\ (\A r \in moved : r.run = "late") =>
        /\ pc \notin Errors
        /\ pc \in Working => /\ db.uid = etc.uid /\ db.gid = etc.gid /\ db.mem = etc.mem
                             /\ pc = "write" => db.pgid = etc.pgid

\* If there are shadow files after the late run, each requested user has the shadow
\* entry that the program wrote, with the requested password, even if a package
\* created the files after the early run; each requested group has a gshadow entry.
ShadowEntriesSet ==
    pc = "done" => \A i \in DOMAIN lines :
        /\ etc.shadowed /\ lines[i].user # NoUser => etc.shadow[lines[i].user] = "ours"
        /\ etc.gshadowed => etc.gshadow[lines[i].group] = "ours"

\* Nobody is removed from a group, except from one that gets another id.
MembersLostOnlyByMove ==
    [][\A g \in Name : etc.mem[g] \subseteq etc'.mem[g] \/ g \in MovedNames("group")]_vars

\* "groups is the comma-separated list of additional groups the user should be
\* part of" (make_sysusers.py:563): after the loop each user is a member.
MembershipsGranted ==
    pc \in {"write", "no_add"} => \A i \in DOMAIN lines :
        lines[i].user # NoUser =>
            \A g \in Range(lines[i].groups) : lines[i].user \in db.mem[g]
=============================================================================
