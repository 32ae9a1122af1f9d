---------------------------- MODULE MCRenderLoop ----------------------------
(***************************************************************************)
(* Buffers of two slots and up to five events: a burst overflows the back  *)
(* buffer while the front one is processed.                                *)
(***************************************************************************)
EXTENDS RenderLoop
=============================================================================
