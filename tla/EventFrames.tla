----------------------------- MODULE EventFrames -----------------------------
(***************************************************************************)
(* What input/event_queue promises: events are collected in the order they *)
(* are pushed, none is lost while there is room, and the frame being       *)
(* processed does not change until the next one begins.                    *)
(***************************************************************************)
EXTENDS Naturals, Sequences

CONSTANTS Event, k_max_events

VARIABLES collected,  \* pushed since the frame began
          frame       \* what the frame processes

vars == <<collected, frame>>

Init == collected = <<>> /\ frame = <<>>

PushEvent(e) == /\ Len(collected) < k_max_events
                /\ collected' = Append(collected, e)
                /\ UNCHANGED frame

NextFrame == /\ frame' = collected
             /\ collected' = <<>>

Next == NextFrame \/ \E e \in Event : PushEvent(e)

Spec == Init /\ [][Next]_vars
=============================================================================
