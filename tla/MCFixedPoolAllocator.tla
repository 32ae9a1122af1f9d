------------------------ MODULE MCFixedPoolAllocator ------------------------
(***************************************************************************)
(* Two-bit words: each of the 256 sets of allocated indices is reached and *)
(* iterated over, with full, partly filled and empty words at every level. *)
(***************************************************************************)
EXTENDS FixedPoolAllocator
=============================================================================
