--------------------------- MODULE MCRealSysusers ---------------------------
(***************************************************************************)
(* The lines that collections/base/hooks/setup/06-sysusers.sh and          *)
(* collections/systemd/hooks/setup/10-sysusers.sh write, with the defaults *)
(* of collections/base/config and every choice of features, on the account *)
(* files of Debian's base-passwd (one of its users and groups stands for   *)
(* all of them: their ids are outside both ranges).                        *)
(***************************************************************************)
EXTENDS Sysusers, TLC

SshGroups == <<"ssh-login", "ssh-shell", "ssh-forwarding">>
SshGids == <<900, 901, 902>>
SystemdUsers == <<"messagebus", "systemd-network", "systemd-resolve",
                  "systemd-timesync", "systemd-coredump">>

RealName == Range(SshGroups) \cup Range(SystemdUsers)
    \cup {"systemd-journal", "cosmo", "wanda", "ctrl", "nogroup", "nobody"}
RealPartOf == [n \in RealName |-> {n}]

RealIdMin == (System :> 100 @@ Regular :> 1000)
RealIdMax == (System :> 399 @@ Regular :> 1999)

GroupLine(g, gid) == [user |-> NoUser, uid |-> System, group |-> g, gid |-> gid, groups |-> <<>>]
UserLine(u, id, groups) == [user |-> u, uid |-> id, group |-> u, gid |-> id, groups |-> groups]

If(cond, part) == IF cond THEN part ELSE <<>>

\* get_user_extra_groups()
ExtraGroups(sshd, forwarding) ==
    If(sshd, <<"ssh-login", "ssh-shell">>) \o If(sshd /\ forwarding, <<"ssh-forwarding">>)

BaseLines(sshd, forwarding, login, unpriv, ctrl) ==
    If(sshd, [i \in 1..3 |-> GroupLine(SshGroups[i], SshGids[i])])
      \o If(login, <<UserLine("cosmo", 1000, ExtraGroups(sshd, forwarding))>>)
      \o If(unpriv, <<UserLine("wanda", 1001, <<>>)>>)
      \o If(ctrl, <<UserLine("ctrl", 999, ExtraGroups(sshd, forwarding))>>)

SystemdLines ==
    <<UserLine("messagebus", System, <<>>), GroupLine("systemd-journal", System)>>
      \o [i \in 1..4 |-> UserLine(SystemdUsers[i + 1], System, <<>>)]

\* Collections depend on base: its hook is the first of those with its number.
RealLineSpace ==
    {BaseLines(s, f, l, u, c) \o If(d, SystemdLines) :
        s \in BOOLEAN, f \in BOOLEAN, l \in BOOLEAN, u \in BOOLEAN, c \in BOOLEAN, d \in BOOLEAN}

BaseIds == ("nogroup" :> 65534)
BaseUids == ("nobody" :> 65534)
BaseGidOfUser == ("nobody" :> 65534)
IdsOf(f) == [n \in RealName |-> IF n \in DOMAIN f THEN f[n] ELSE NoId]

BasePasswd ==
    [uid |-> IdsOf(BaseUids), pgid |-> IdsOf(BaseGidOfUser), gid |-> IdsOf(BaseIds),
     mem |-> [n \in RealName |-> {}],
     shadow |-> [n \in RealName |-> "none"], gshadow |-> [n \in RealName |-> "none"],
     shadowed |-> FALSE, gshadowed |-> FALSE]

RealEtcSpace == {BasePasswd}

\* No request of the shipped collections fails, neither early nor late.
RequestsSucceed == pc \notin Errors

\* In the late run's files each requested user has the id that was asked for, or
\* one of the system range, and a group of its own with the same id: the hooks
\* that follow set the owner of home directories with both.
UsersAsRequested ==
    pc = "done" => \A i \in DOMAIN lines :
        LET u == lines[i].user IN
        u # NoUser => /\ etc.uid[u] = etc.gid[u] /\ etc.pgid[u] = etc.gid[u]
                      /\ IF lines[i].uid = System
                         THEN etc.uid[u] \in RealIdMin[System]..RealIdMax[System]
                         ELSE etc.uid[u] = lines[i].uid
=============================================================================
