---------------------------- MODULE InputManager ----------------------------
(***************************************************************************)
(* input/input_manager behind the event queue, for one key, the activation *)
(* of the window and its size; the mouse buttons run the same code as the  *)
(* keys.                                                                   *)
(*                                                                         *)
(* Time: an event carries the system tick count of its message, which      *)
(* advances every Tick; a frame carries the performance counter, shifted   *)
(* to agree with the tick count when the clock was first read.  That tick  *)
(* count was up to a tick old, so the frames' clock runs `lag' behind.     *)
(***************************************************************************)
EXTENDS Integers, Sequences

CONSTANTS Tick,          \* period of the tick count
          Lag,           \* the lags to consider
          Size,          \* sizes of the window
          k_max_events,  \* capacity of the event queue
          WordSize,      \* 2^64 in the code
          MaxTime, MaxMessages, MaxChanges  \* bounds: the time, the messages that wait, and
                         \* how often the key, the focus or the size changes

ASSUME InputAssumption == /\ Tick \in Nat \ {0}
                          /\ Lag \subseteq 0 .. Tick - 1
                          /\ k_max_events \in Nat /\ WordSize \in Nat
                          /\ MaxTime \in Nat /\ MaxTime > Tick /\ MaxTime < WordSize
                          /\ MaxMessages \in Nat /\ MaxChanges \in Nat

VARIABLES now, lag,           \* real time, and how far the frames' clock is behind it
          key, focused, size, \* the key, the focus and the size of the window
          messages,           \* key messages posted to the window, not yet dispatched
          collected, frame,   \* the event queue
          processing,         \* the render thread has swapped the queues
          im,                 \* the input manager
          changes,            \* of the key, the focus and the size, so far
          missed              \* history: what it was not told last, see Aspect

vars == <<now, lag, key, focused, size, messages, collected, frame, processing, im, changes, missed>>

queue == INSTANCE EventFrames WITH Event <- {}

Type  == {"key_down", "key_up", "window_size", "activate", "deactivate"}
Times == 0 .. MaxTime

\* The time of a key event and the size of a resize.
Event == [type : Type, value : Times \cup Size]

\* What may have been missed: the last change of the key was not posted, the last key message
\* to arrive was not heard, nor the last size, or the last activation was discarded.
Aspect == {"unposted", "key", "size", "activation"}

\* m_last_frame_time_us, m_current_frame_time_us, m_is_active, m_window_size and the
\* key_state of the key.
Manager == [last : Times, current : Times, active : BOOLEAN, size : Size,
            press : Times, accumulated : 0 .. WordSize - 1,
            just_pressed : BOOLEAN, just_released : BOOLEAN, held : BOOLEAN]

\* Types: the queues stay within their sizes, and the manager holds times it was given.
TypeOK == /\ now \in Times /\ lag \in Lag
          /\ key \in BOOLEAN /\ focused \in BOOLEAN /\ size \in Size
          /\ messages \in Seq(Event) /\ Len(messages) <= MaxMessages
          /\ collected \in Seq(Event) /\ Len(collected) <= k_max_events
          /\ frame \in Seq(Event) /\ Len(frame) <= k_max_events
          /\ processing \in BOOLEAN
          /\ im \in Manager
          /\ changes \in 0 .. MaxChanges
          /\ missed \subseteq Aspect

Init == /\ now = Tick
        /\ lag \in Lag
        /\ key = FALSE
        /\ focused = TRUE
        /\ size \in Size
        /\ messages = <<>>
        /\ queue!Init
        /\ processing = FALSE
        /\ im = [last |-> 0, current |-> 0, active |-> TRUE, size |-> size,
                 press |-> 0, accumulated |-> 0,
                 just_pressed |-> FALSE, just_released |-> FALSE, held |-> FALSE]
        /\ changes = 0
        /\ missed = {}
-----------------------------------------------------------------------------
get_event_time_us == now - (now % Tick)
highp_time_us     == now - lag

Message(type, value) == [type |-> type, value |-> value]

Pass == /\ now < MaxTime
        /\ now' = now + 1
        /\ UNCHANGED <<lag, key, focused, size, messages, collected, frame, processing, im, changes, missed>>

Change == changes < MaxChanges /\ changes' = changes + 1

Post(m) == /\ Len(messages) < MaxMessages
           /\ messages' = Append(messages, m)

\* The key goes down or up, or repeats; a window without the focus gets no message.
Key(down) ==
    /\ Change
    /\ ~ down => key
    /\ key' = down
    /\ UNCHANGED <<now, lag, focused, size, collected, frame, processing, im>>
    /\ \/ /\ focused
          /\ Post(Message(IF down THEN "key_down" ELSE "key_up", get_event_time_us))
          /\ missed' = missed \ {"unposted"}
       \/ /\ ~ focused
          /\ missed' = missed \cup {"unposted"}
          /\ UNCHANGED messages

\* What an event tells of, and whether a manager that is told everything hears it: without
\* the focus, and after an activation that was discarded, it skips all but activations.
Tells(e) == CASE e.type \in {"key_down", "key_up"}     -> "key"
              [] e.type = "window_size"                -> "size"
              [] e.type \in {"activate", "deactivate"} -> "activation"

Heard(e) == Tells(e) = "activation" \/ (focused /\ "activation" \notin missed)

\* Mutant: the size of the back buffer is not checked.
PushUnchecked(e) == /\ collected' = Append(collected, e)
                    /\ UNCHANGED <<frame, missed>>

Push(e) == \/ /\ queue!PushEvent(e)
              /\ missed' = IF Heard(e) THEN missed \ {Tells(e)} ELSE missed \cup {Tells(e)}
           \/ /\ Len(collected) >= k_max_events
              /\ missed' = missed \cup {Tells(e)}
              /\ UNCHANGED <<collected, frame>>

Dispatch == /\ messages # <<>>
            /\ Push(Head(messages))
            /\ messages' = Tail(messages)
            /\ UNCHANGED <<now, lag, key, focused, size, processing, im, changes>>

\* WM_SIZE and WM_ACTIVATE are sent, not posted: they overtake what has been posted.
Resize(s) == /\ Change
             /\ s # size
             /\ size' = s
             /\ Push(Message("window_size", s))
             /\ UNCHANGED <<now, lag, key, focused, messages, processing, im>>

Focus == /\ Change
         /\ focused' = ~ focused
         /\ UNCHANGED <<now, lag, key, size, messages, processing, im>>
         /\ Push(Message(IF focused THEN "deactivate" ELSE "activate", 0))

Swap == /\ ~ processing
        /\ processing' = TRUE
        /\ queue!NextFrame
        /\ UNCHANGED <<now, lag, key, focused, size, messages, im, changes, missed>>
-----------------------------------------------------------------------------
begin_frame(m, time) ==
    [m EXCEPT !.last = m.current, !.current = time,
              !.accumulated = 0, !.just_pressed = FALSE, !.just_released = FALSE]

on_key_down(m, time) ==
    IF m.held THEN m
    ELSE [m EXCEPT !.held = TRUE, !.just_pressed = TRUE, !.press = time]

Earlier(a, b) == IF a < b THEN a ELSE b
Later(a, b)   == IF a > b THEN a ELSE b

\* Mutant: what was held before the frame is counted again.
DurationSincePress(m, time) == (Earlier(time, m.current) - m.press) % WordSize

\* uint64 arithmetic: only a key that went down after the last frame adds to the time.
Duration(m, time) ==
    IF m.press > m.last THEN (Earlier(time, m.current) - m.press) % WordSize ELSE 0

on_key_up(m, time) ==
    IF ~ m.held THEN m
    ELSE [m EXCEPT !.held = FALSE, !.just_released = TRUE,
                   !.accumulated = (@ + Duration(m, time)) % WordSize]

\* Mutant: a manager that is not active handles its events all the same, but never wakes.
HandleNeverActive(m, e) ==
    CASE e.type = "key_down"    -> on_key_down(m, e.value)
      [] e.type = "key_up"      -> on_key_up(m, e.value)
      [] e.type = "window_size" -> [m EXCEPT !.size = e.value]
      [] e.type = "activate"    -> m
      [] e.type = "deactivate"  -> [m EXCEPT !.active = FALSE]

Handle(m, e) ==
    IF ~ m.active THEN [m EXCEPT !.active = (e.type = "activate")]
    ELSE CASE e.type = "key_down"    -> on_key_down(m, e.value)
           [] e.type = "key_up"      -> on_key_up(m, e.value)
           [] e.type = "window_size" -> [m EXCEPT !.size = e.value]
           [] e.type = "activate"    -> m
           [] e.type = "deactivate"  -> [m EXCEPT !.active = FALSE]

\* The manager before the first event and after each.
Processed(m, events) ==
    LET after[k \in 0 .. Len(events)] == IF k = 0 THEN m ELSE Handle(after[k - 1], events[k])
    IN  after

process_events(m, events) == Processed(m, events)[Len(events)]

\* The rest of the frame, up to end_frame, on the events of the last swap; the view of
\* them ends with the frame.
Frame == /\ processing
         /\ processing' = FALSE
         /\ im' = process_events(begin_frame(im, highp_time_us), frame)
         /\ frame' = <<>>
         /\ UNCHANGED <<now, lag, key, focused, size, messages, collected, changes, missed>>

Next == \/ Pass
        \/ \E down \in BOOLEAN : Key(down)
        \/ \E s \in Size : Resize(s)
        \/ Dispatch
        \/ Focus
        \/ Swap
        \/ Frame

Spec == Init /\ [][Next]_vars
-----------------------------------------------------------------------------
Quiet == messages = <<>> /\ collected = <<>> /\ ~ processing

\* Between frames, once nothing waits, the manager agrees with the world on everything whose
\* last change it was told, whatever it missed before, and however activations and sizes
\* overtook the keys.
\*   - It takes the window for active exactly when it has the focus, unless the queue was full
\*     for the last change of the focus.
\*   - It knows the size, unless the last size came while the window had no focus, while its
\*     last activation was lost, or to a full queue.
\*   - It knows the key, unless the key changed last without the focus, or its last message
\*     arrived as such a size: also one posted before the focus left, which is overtaken.
CaughtUp == Quiet =>
    /\ "activation" \notin missed => im.active = focused
    /\ "size" \notin missed => im.size = size
    /\ "unposted" \notin missed /\ "key" \notin missed => im.held = key

\* total_us of get_hold_factor.
HoldTime ==
    LET since == Later(im.press, im.last)
    IN  (im.accumulated + IF im.held THEN im.current - since ELSE 0) % WordSize

\* The time a key was held in a frame is not longer than the frame: the subtractions of
\* unsigned times from two clocks wrap in no frame but one that a press is stamped ahead of,
\* which the lag of the frames' clock allows, and by no more than the lag.  The next frame that
\* reaches the press is right again.
HoldFitsFrame == \/ HoldTime <= im.current - im.last
                 \/ im.press > im.current /\ im.press <= im.current + lag

\* input_manager.hpp:73, "how long the key has been held": the same without the exception,
\* which holds only while the two clocks agree.
HoldNeverWraps == HoldTime <= im.current - im.last

\* input_manager.hpp:68, "Returns true if the specified key is in the pressed state during
\* this frame".
HeldIsPressed == Quiet /\ focused /\ im.active => (im.held => key)
=============================================================================
