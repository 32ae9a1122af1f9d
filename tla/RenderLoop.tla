----------------------------- MODULE RenderLoop -----------------------------
(***************************************************************************)
(* The two threads of an application built on render_app_base.  The main   *)
(* thread dispatches window messages: each handler pushes one event, and   *)
(* on_close stops the render thread, joins it and destroys the window.     *)
(* The render thread initialises, then swaps the event queues and renders  *)
(* until m_running is false.                                               *)
(*                                                                         *)
(* init shows the window (main.cpp), which is a call into the thread that  *)
(* owns it: it returns once the main thread dispatches.                    *)
(***************************************************************************)
EXTENDS EventQueue

CONSTANT MaxEvents  \* bound on the events pushed, numbered in the order of their pushes

ASSUME LoopAssumption == /\ MaxEvents \in Nat \ {0}
                         /\ 1 .. MaxEvents \subseteq Event

VARIABLES main,       \* what the main thread does
          render,     \* where the render thread is
          m_running,
          view,       \* what front_queue returned
          position,   \* events of the view that render has processed
          pushed,     \* number of events pushed
          accepted,   \* history: the events that were not discarded
          handled     \* history: the events that render has processed

loopVars == <<main, render, m_running, view, position, pushed, accepted, handled>>
vars     == <<queueVars, loopVars>>

\* Types: no write leaves a buffer, and render reads within its view.
TypeOK == /\ QueueTypeOK
          /\ main \in {"run_render_loop", "dispatch", "join", "destroyed"}
          /\ render \in {"none", "init", "show", "swap", "front", "render", "shutdown", "ended"}
          /\ m_running \in BOOLEAN
          /\ view \in Queue
          /\ position \in 0 .. view.end
          /\ pushed \in 0 .. MaxEvents
          /\ accepted \in Seq(Event)
          /\ handled \in Seq(Event)

\* The constructor has pushed the initial size of the window.
Init == /\ buffer = [b \in Buffer |-> [s \in Slot |-> IF b = "b" /\ s = 0 THEN 1 ELSE NoEvent]]
        /\ m_front = [begin |-> "a", end |-> 0]
        /\ m_back = [begin |-> "b", end |-> 1]
        /\ main = "run_render_loop"
        /\ render = "none"
        /\ m_running = FALSE
        /\ view = m_front
        /\ position = 0
        /\ pushed = 1
        /\ accepted = <<1>>
        /\ handled = <<>>
-----------------------------------------------------------------------------
start_render_thread ==
    /\ main = "run_render_loop"
    /\ main' = "dispatch"
    /\ m_running' = TRUE
    /\ render' = "init"
    /\ UNCHANGED <<queueVars, view, position, pushed, accepted, handled>>

\* on_move, on_key_down and the other handlers of the window's messages.
Dispatch ==
    LET e == pushed + 1
    IN  /\ main = "dispatch"
        /\ pushed < MaxEvents
        /\ pushed' = e
        /\ \/ push_event(e) /\ accepted' = Append(accepted, e)
           \/ push_event_full(e) /\ UNCHANGED accepted
        /\ UNCHANGED <<main, render, m_running, view, position, handled>>

\* Mutant: the window is destroyed without waiting for the render thread.
on_close_without_join ==
    /\ main = "dispatch"
    /\ m_running' = FALSE
    /\ main' = "destroyed"
    /\ UNCHANGED <<queueVars, render, view, position, pushed, accepted, handled>>

\* Mutant: m_running stays as it is.
on_close_without_store ==
    /\ main = "dispatch"
    /\ main' = IF m_running THEN "join" ELSE "destroyed"
    /\ UNCHANGED <<queueVars, render, m_running, view, position, pushed, accepted, handled>>

\* on_close; stop_render_thread waits only if it is the one that stops the thread.
on_close ==
    /\ main = "dispatch"
    /\ m_running' = FALSE
    /\ main' = IF m_running THEN "join" ELSE "destroyed"
    /\ UNCHANGED <<queueVars, render, view, position, pushed, accepted, handled>>

\* join returns, and the window is destroyed.
joined ==
    /\ main = "join"
    /\ render = "ended"
    /\ main' = "destroyed"
    /\ UNCHANGED <<queueVars, render, m_running, view, position, pushed, accepted, handled>>

Step(from, to) == render = from /\ render' = to

init == /\ Step("init", "show")
        /\ UNCHANGED <<queueVars, main, m_running, view, position, pushed, accepted, handled>>

\* show returns: the main thread has answered.
shown == /\ Step("show", "swap")
         /\ main = "dispatch"
         /\ UNCHANGED <<queueVars, main, m_running, view, position, pushed, accepted, handled>>

Swap == /\ Step("swap", "front")
        /\ swap_queues
        /\ UNCHANGED <<main, m_running, view, position, pushed, accepted, handled>>

front_queue == /\ Step("front", "render")
               /\ view' = m_front
               /\ position' = 0
               /\ UNCHANGED <<queueVars, main, m_running, pushed, accepted, handled>>

\* process_events reads the next event of the view where it lies.
ProcessEvent == /\ Step("render", "render")
                /\ position < view.end
                /\ position' = position + 1
                /\ handled' = Append(handled, buffer[view.begin][position])
                /\ UNCHANGED <<queueVars, main, m_running, view, pushed, accepted>>

\* Mutant: a frame processes one event at most.
FrameEndAfterOne ==
    /\ Step("render", IF m_running THEN "swap" ELSE "shutdown")
    /\ position = 1 \/ view.end = 0
    /\ UNCHANGED <<queueVars, main, m_running, view, position, pushed, accepted, handled>>

\* The end of render, and the test of m_running.
FrameEnd == /\ Step("render", IF m_running THEN "swap" ELSE "shutdown")
            /\ position = view.end
            /\ UNCHANGED <<queueVars, main, m_running, view, position, pushed, accepted, handled>>

shutdown == /\ Step("shutdown", "ended")
            /\ UNCHANGED <<queueVars, main, m_running, view, position, pushed, accepted, handled>>

RenderThread == init \/ shown \/ Swap \/ front_queue \/ ProcessEvent \/ FrameEnd \/ shutdown

Next == start_render_thread \/ Dispatch \/ on_close \/ joined \/ RenderThread

\* main() starts the render thread, which runs whenever it can; a join that can return does.
Spec == /\ Init /\ [][Next]_vars
        /\ WF_vars(start_render_thread) /\ WF_vars(RenderThread) /\ WF_vars(joined)
-----------------------------------------------------------------------------
\* What the render thread has yet to process, in the order of the pushes: the rest of the
\* frame and then the back buffer.
Undelivered ==
    LET rest == CASE render = "front"  -> Contents(m_front)
                  [] render = "render" -> SubSeq(Contents(view), position + 1, view.end)
                  [] OTHER             -> <<>>
    IN  rest \o Contents(m_back)

\* Every event that was accepted is processed once and in order, or still waits: no push
\* between a swap and the end of its frame changes, repeats or loses one.
DeliveredOnceInOrder == accepted = handled \o Undelivered

\* The window, and the queue in it, are gone only after the render thread has ended.
WindowOutlivesRenderThread == main = "destroyed" => render = "ended"

\* The render loop uses the queue as the frames of EventFrames.
IsEventFrames == [][Frames!Next]_(Frames!vars)

\* on_close returns, unless the render thread had not come out of init.
CloseReturns == (main = "join") ~> (main = "destroyed" \/ render = "show")

\* An accepted event is processed, unless the window is closed.
AcceptedIsHandled ==
    \A e \in Event :
        (e \in {accepted[k] : k \in DOMAIN accepted})
            ~> (e \in {handled[k] : k \in DOMAIN handled} \/ main \in {"join", "destroyed"})
=============================================================================
