--------------------------- MODULE MCUploadContext ---------------------------
(***************************************************************************)
(* A staging buffer of three alignment units: an upload of one byte leaves *)
(* the cursor unaligned, and the next may fit what remains, but not from   *)
(* the next aligned offset on.                                             *)
(***************************************************************************)
EXTENDS UploadContext
=============================================================================
