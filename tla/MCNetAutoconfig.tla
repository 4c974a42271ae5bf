-------------------------- MODULE MCNetAutoconfig --------------------------
(***************************************************************************)
(* Two interfaces; inputs without and with one or both of them, in either  *)
(* family and order, some with a stanza of another kind.                   *)
(***************************************************************************)
EXTENDS NetAutoconfig, TLC

S(i, f) == [kind |-> "static", name |-> i, fam |-> f]
O(k, v) == [kind |-> "option", key |-> k, val |-> v]
X == [kind |-> "other"]

MCBefore == {<<"eth0", "eth1">>}
MCTaken == {<<1, "eth0">>, <<2, "eth1">>}

\* Texts that the host may change to.
MCEdits ==
    { <<X>>,
      <<S("eth1", 4), O("address", "a")>>,
      <<X, S("eth0", 4), O("address", "a"), O("gateway", "b"),
        S("eth1", 6), O("address", "a"), O("other", "b")>>,
      <<S("eth0", 4), O("gateway", "a"), S("eth1", 4), S("eth0", 6), O("address", "b"),
        O("gateway", "a"), O("gateway", "b")>>,
      <<O("gateway", "b"), S("eth0", 4), O("address", "a"), X, O("address", "b"), O("gateway", "a"),
        S("eth1", 4), O("address", "b"), X, O("other", "a")>> }

\* The first text may also be any that alternates stanzas and options.
MCInputs ==
    MCEdits \cup {<<a, O("address", "a"), b, O(k, "b")>> :
                      a \in {S("eth0", 4), X}, b \in {S("eth0", 4), S("eth0", 6), S("eth1", 4), X},
                      k \in Key}
=============================================================================
