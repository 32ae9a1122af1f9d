---------------------------- MODULE MCObjectPool ----------------------------
(***************************************************************************)
(* One word of three bits: the array grows to two and to three slots, the  *)
(* word can be filled, and the generation of an index comes round.         *)
(***************************************************************************)
EXTENDS ObjectPool
=============================================================================
