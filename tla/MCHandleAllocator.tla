-------------------------- MODULE MCHandleAllocator --------------------------
(***************************************************************************)
(* Two indices, two generations and three deallocations of an index        *)
(* between resets: the generation of an index comes round once.            *)
(***************************************************************************)
EXTENDS HandleAllocator
=============================================================================
