------------------------- MODULE MCResourceRegistry -------------------------
(***************************************************************************)
(* Two names, two addresses, two references to an entry and three queued   *)
(* transitions: an entry can be released, erased, and its address reused   *)
(* for either name within one sync.                                        *)
(***************************************************************************)
EXTENDS ResourceRegistry
=============================================================================
