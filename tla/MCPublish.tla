----------------------------- MODULE MCPublish -----------------------------
(***************************************************************************)
(* Two terminals, three runs: a persistent staging directory on another    *)
(* filesystem, and temporary ones.                                         *)
(***************************************************************************)
EXTENDS Publish
=============================================================================
