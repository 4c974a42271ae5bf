----------------------------- MODULE TopoOrder -----------------------------
(***************************************************************************)
(* What resolving build collections promises, without saying how: the      *)
(* selected collections are placed one at a time, each only after all      *)
(* those it requires; a virtual one is placed but not emitted; resolving   *)
(* stops with an error only if nothing more can be placed, or because of a *)
(* virtual collection that asks to come last.                              *)
(***************************************************************************)
EXTENDS CollectionGraph

VARIABLES meta, wanted, done, out, outcome

vars == <<meta, wanted, done, out, outcome>>

Init == /\ meta \in [Name -> MetaRecord]
        /\ wanted \in Seq(Name)
        /\ done = {}
        /\ out = <<>>
        /\ outcome = "running"

Placeable(n) == /\ n \in Selected(meta, wanted) \ done
                /\ Requires(meta, wanted, n) \subseteq done

Place == /\ outcome = "running"
         /\ ~HasLateVirtual(meta, wanted)
         /\ \E n \in Name :
              /\ Placeable(n)
              /\ done' = done \cup {n}
              /\ out' = IF meta[n].virtual THEN out ELSE Append(out, n)
         /\ UNCHANGED <<meta, wanted, outcome>>

Complete == /\ outcome = "running"
            /\ ~HasLateVirtual(meta, wanted)
            /\ done = Selected(meta, wanted)
            /\ outcome' = "resolved"
            /\ UNCHANGED <<meta, wanted, done, out>>

Stuck == /\ outcome = "running"
         /\ ~HasLateVirtual(meta, wanted)
         /\ Selected(meta, wanted) \ done # {}
         /\ \A n \in Name : ~Placeable(n)
         /\ outcome' = "cycle"
         /\ UNCHANGED <<meta, wanted, done, out>>

Reject == /\ outcome = "running"
          /\ done = {}
          /\ HasLateVirtual(meta, wanted)
          /\ outcome' = "late_virtual"
          /\ UNCHANGED <<meta, wanted, done, out>>

Next == Place \/ Complete \/ Stuck \/ Reject

Spec == Init /\ [][Next]_vars
=============================================================================
