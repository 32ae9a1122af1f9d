-------------------------- MODULE MCBitmapIteration --------------------------
(***************************************************************************)
(* Two-bit words: each of the 256 sets of allocated indices is reached and *)
(* iterated over.                                                          *)
(***************************************************************************)
EXTENDS BitmapIteration
=============================================================================
