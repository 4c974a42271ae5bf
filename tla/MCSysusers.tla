----------------------------- MODULE MCSysusers -----------------------------
(***************************************************************************)
(* Three names, one of which is part of another's text, ranges of two      *)
(* system ids and one regular id, and all requests of up to two lines of   *)
(* the shapes below.                                                       *)
(***************************************************************************)
EXTENDS Sysusers, TLC

MCName == {"log", "login", "adm"}
MCPartOf == [n \in MCName |-> IF n = "log" THEN {"log", "login"} ELSE {n}]

MCIdMin == (System :> 6 @@ Regular :> 20)
MCIdMax == (System :> 7 @@ Regular :> 20)

GroupLine(g, gid) == [user |-> NoUser, uid |-> System, group |-> g, gid |-> gid, groups |-> <<>>]
UserLine(u, uid, g, gid, groups) ==
    [user |-> u, uid |-> uid, group |-> g, gid |-> gid, groups |-> groups]

\* The users of the model are "log" and "login".
MCLine ==
    {GroupLine(g, id) : g \in {"log", "adm"}, id \in {System, 6}}
    \cup {UserLine(u, id, u, id, groups) :
            u \in {"log", "login"}, id \in {System, Regular, 6}, groups \in {<<>>, <<"adm">>}}
    \cup {UserLine(u, id, "adm", gid, <<>>) :
            u \in {"log", "login"}, id \in {System, 6}, gid \in {System, 5}}

MCLineSpace == {<<l>> : l \in MCLine} \cup {<<l, m>> : l \in MCLine, m \in MCLine}

NoAccounts ==
    [uid |-> [n \in MCName |-> NoId], pgid |-> [n \in MCName |-> NoId],
     gid |-> [n \in MCName |-> NoId], mem |-> [n \in MCName |-> {}],
     shadow |-> [n \in MCName |-> "none"], gshadow |-> [n \in MCName |-> "none"],
     shadowed |-> FALSE, gshadowed |-> FALSE]

\* A group with a member, which is the primary group of that member.
OneGroup == [NoAccounts EXCEPT !.uid["login"] = 5, !.pgid["login"] = 4,
                               !.gid["adm"] = 4, !.mem["adm"] = {"login"}]
\* The same with shadow files, and an id of the range in use.
OwnGroup == [NoAccounts EXCEPT !.uid["log"] = 7, !.pgid["log"] = 6, !.gid["log"] = 6,
                               !.shadowed = TRUE, !.gshadowed = TRUE,
                               !.shadow["log"] = "theirs", !.gshadow["log"] = "theirs"]

MCEtcSpace == {NoAccounts, OneGroup, OwnGroup}
=============================================================================
