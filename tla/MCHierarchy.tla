----------------------------- MODULE MCHierarchy -----------------------------
(***************************************************************************)
(* Five nodes: sequences of up to five siblings, trees of up to five       *)
(* levels, every way to move a sequence of any of them to another, and     *)
(* walks over each of these trees.                                         *)
(***************************************************************************)
EXTENDS FreeNodes
=============================================================================
