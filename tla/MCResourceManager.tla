-------------------------- MODULE MCResourceManager --------------------------
(***************************************************************************)
(* Two names at two addresses and textures of up to two levels, in a       *)
(* staging buffer of three alignment units: slices fill it, leave an       *)
(* unaligned rest, and one is larger than the buffer.                      *)
(***************************************************************************)
EXTENDS ResourceManager
=============================================================================
