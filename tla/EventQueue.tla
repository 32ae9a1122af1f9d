----------------------------- MODULE EventQueue -----------------------------
(***************************************************************************)
(* input/event_queue: two buffers, m_front and m_back pointing at one each *)
(* with the number of events it holds.  push_event and swap_queues run     *)
(* under m_mutex, so each is one step; front_queue takes no lock, and its  *)
(* view is read in place while others push.                                *)
(***************************************************************************)
EXTENDS Naturals, Sequences

CONSTANTS Event,         \* what is pushed
          NoEvent,       \* a slot that was never written
          k_max_events   \* slots of a buffer

ASSUME QueueAssumption == NoEvent \notin Event /\ k_max_events \in Nat \ {0}

VARIABLES buffer,   \* m_buffer_a and m_buffer_b, slot by slot
          m_front,
          m_back

queueVars == <<buffer, m_front, m_back>>

Buffer == {"a", "b"}
Slot   == 0 .. k_max_events - 1
Queue  == [begin : Buffer, end : 0 .. k_max_events]

\* Types: no queue claims more events than a buffer has slots.
QueueTypeOK == /\ buffer \in [Buffer -> [Slot -> Event \cup {NoEvent}]]
               /\ m_front \in Queue
               /\ m_back \in Queue

QueueInit == /\ buffer = [b \in Buffer |-> [s \in Slot |-> NoEvent]]
             /\ m_front = [begin |-> "a", end |-> 0]
             /\ m_back = [begin |-> "b", end |-> 0]

\* Mutant: one event more than there are slots is let in.
FullOffByOne == m_back.end > k_max_events

Full == m_back.end >= k_max_events

push_event(e) ==
    /\ ~ Full
    /\ buffer' = [buffer EXCEPT ![m_back.begin][m_back.end] = e]
    /\ m_back' = [m_back EXCEPT !.end = @ + 1]
    /\ UNCHANGED m_front

\* The event is discarded.
push_event_full(e) == Full /\ UNCHANGED queueVars

\* Mutant: both queues keep the buffer they had.
SwapCountsOnly ==
    /\ m_front' = [m_front EXCEPT !.end = m_back.end]
    /\ m_back' = [m_back EXCEPT !.end = 0]
    /\ UNCHANGED buffer

\* Mutant: the events that were processed stay in what is now the back buffer.
SwapKeepingEvents ==
    /\ m_front' = m_back
    /\ m_back' = m_front
    /\ UNCHANGED buffer

swap_queues ==
    /\ m_front' = m_back
    /\ m_back' = [m_front EXCEPT !.end = 0]
    /\ UNCHANGED buffer

\* The events from the beginning of a queue to its end.
Contents(q) == [k \in 1 .. q.end |-> buffer[q.begin][k - 1]]

Frames == INSTANCE EventFrames WITH collected <- Contents(m_back),
                                    frame <- Contents(m_front)
=============================================================================
