--------------------------- MODULE MCInputManager ---------------------------
(***************************************************************************)
(* A queue of two events, two waiting messages, times up to 5 with a tick  *)
(* of 2, and both lags a tick allows: five changes make presses and        *)
(* releases within a frame, across frames and late in the queue, overflow, *)
(* and focus that comes and goes and overtakes them.                       *)
(***************************************************************************)
EXTENDS InputManager
=============================================================================
