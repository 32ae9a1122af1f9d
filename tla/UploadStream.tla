---------------------------- MODULE UploadStream ----------------------------
(***************************************************************************)
(* What renderer/upload_context promises: uploads reach the GPU in the     *)
(* order they were recorded, each with the bytes it was given, and a flush *)
(* returns when all of them have.                                          *)
(***************************************************************************)
EXTENDS Naturals, Sequences

VARIABLES recorded,  \* number of uploads recorded so far, numbered from 1
          landed,    \* for each upload the GPU has executed, the uploads whose bytes it read
          flushed    \* uploads known to have landed when the last flush returned

vars == <<recorded, landed, flushed>>

Init == recorded = 0 /\ landed = <<>> /\ flushed = 0

Record == recorded' = recorded + 1 /\ UNCHANGED <<landed, flushed>>

Land == /\ Len(landed) < recorded
        /\ landed' = Append(landed, {Len(landed) + 1})
        /\ UNCHANGED <<recorded, flushed>>

Flush == /\ Len(landed) = recorded
         /\ flushed' = recorded
         /\ UNCHANGED <<recorded, landed>>

Next == Record \/ Land \/ Flush

Spec == Init /\ [][Next]_vars
=============================================================================
