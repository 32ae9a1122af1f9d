-------------------------- MODULE RenderLoopProofs --------------------------
(***************************************************************************)
(* For buffers of any size and any number of events: every accepted event  *)
(* is processed once and in order, the window outlives the render thread,  *)
(* and the two buffers implement the frames of EventFrames.                *)
(***************************************************************************)
EXTENDS RenderLoop, SequenceTheorems, TLAPS

\* The slots of a queue that hold its events.
Filled(q) == \A s \in Slot : s < q.end => buffer[q.begin][s] \in Event

\* The two pointers never meet, the view is the front queue while it is read, and the
\* main thread dispatches only while m_running is true.
LoopInv == /\ TypeOK
           /\ m_front.begin # m_back.begin
           /\ Filled(m_front) /\ Filled(m_back)
           /\ render = "render" => view = m_front
           /\ main = "run_render_loop" => render = "none"
           /\ main = "dispatch" => m_running
           /\ WindowOutlivesRenderThread

-----------------------------------------------------------------------------
\* A function on 1 .. n is a sequence of length n.
LEMMA FunctionIsSeq ==
    ASSUME NEW S, NEW n \in Nat, NEW f \in [1 .. n -> S]
    PROVE  f \in Seq(S) /\ Len(f) = n
<1>1. f \in Seq(S)
  BY SeqDef
<1>2. DOMAIN f = 1 .. Len(f) /\ Len(f) \in Nat
  BY <1>1, LenProperties
<1>3. 1 .. n = 1 .. Len(f)
  BY <1>2
<1> QED BY <1>1, <1>2, <1>3

\* The contents of a queue whose slots are filled.
LEMMA ContentsIsSeq ==
    ASSUME TypeOK, NEW q \in Queue, Filled(q)
    PROVE  /\ Contents(q) \in Seq(Event)
           /\ Len(Contents(q)) = q.end
           /\ \A k \in 1 .. q.end : Contents(q)[k] = buffer[q.begin][k - 1]
<1> USE QueueAssumption
<1>1. q.end \in 0 .. k_max_events /\ q.end \in Nat
  BY DEF Queue
<1>2. \A k \in 1 .. q.end : k - 1 \in Slot /\ k - 1 < q.end
  BY <1>1 DEF Slot
<1>3. Contents(q) \in [1 .. q.end -> Event]
  BY <1>2 DEF Contents, Filled
<1>4. Contents(q) \in Seq(Event) /\ Len(Contents(q)) = q.end
  BY <1>1, <1>3, FunctionIsSeq
<1> QED BY <1>4 DEF Contents

\* push_event appends to the back queue and leaves the front queue alone.
LEMMA PushAppends ==
    ASSUME LoopInv, NEW e \in Event, push_event(e)
    PROVE  /\ QueueTypeOK'
           /\ m_front' = m_front
           /\ m_back'.begin = m_back.begin
           /\ Filled(m_front)' /\ Filled(m_back)'
           /\ Contents(m_front)' = Contents(m_front)
           /\ Contents(m_back)' = Append(Contents(m_back), e)
           /\ Len(Contents(m_back)) < k_max_events
<1> USE QueueAssumption
<1>1. /\ m_back \in Queue /\ m_front \in Queue
      /\ buffer \in [Buffer -> [Slot -> Event \cup {NoEvent}]]
      /\ m_front.begin # m_back.begin
      /\ Filled(m_front) /\ Filled(m_back)
  BY DEF LoopInv, TypeOK, QueueTypeOK
<1>2. /\ m_back.end \in Slot /\ m_back.end \in Nat
      /\ m_front' = m_front
      /\ m_back' = [m_back EXCEPT !.end = @ + 1]
      /\ buffer' = [buffer EXCEPT ![m_back.begin][m_back.end] = e]
  BY <1>1 DEF push_event, Full, Queue, Slot
<1>3. /\ m_back' \in Queue
      /\ m_back'.begin = m_back.begin
      /\ m_back'.end = m_back.end + 1
  BY <1>1, <1>2 DEF Queue, Slot
<1>4. /\ buffer' \in [Buffer -> [Slot -> Event \cup {NoEvent}]]
      /\ buffer'[m_front.begin] = buffer[m_front.begin]
      /\ \A s \in Slot : buffer'[m_back.begin][s] = IF s = m_back.end THEN e
                                                    ELSE buffer[m_back.begin][s]
  BY <1>1, <1>2 DEF Queue
<1>5. Filled(m_front)' /\ Filled(m_back)'
  <2>1. Filled(m_front)'
    BY <1>1, <1>2, <1>4 DEF Filled
  <2>2. ASSUME NEW s \in Slot, s < m_back'.end PROVE buffer'[m_back'.begin][s] \in Event
    <3>1. s = m_back.end \/ s < m_back.end
      BY <1>2, <1>3, <2>2 DEF Slot
    <3> QED BY <1>1, <1>3, <1>4, <3>1 DEF Filled
  <2> QED BY <2>1, <2>2 DEF Filled
<1>6. QueueTypeOK'
  BY <1>1, <1>2, <1>3, <1>4 DEF QueueTypeOK
<1>7. Contents(m_front)' = Contents(m_front)
  BY <1>2, <1>4 DEF Contents
<1>8. /\ Contents(m_back) \in Seq(Event)
      /\ Len(Contents(m_back)) = m_back.end
      /\ \A k \in 1 .. m_back.end : Contents(m_back)[k] = buffer[m_back.begin][k - 1]
  BY <1>1, ContentsIsSeq DEF LoopInv
<1>9. Contents(m_back)' = Append(Contents(m_back), e)
  <2> DEFINE c == Contents(m_back)
             n == m_back.end
             d == [k \in 1 .. n + 1 |-> buffer'[m_back.begin][k - 1]]
  <2>1. Contents(m_back)' = d
    BY <1>3 DEF Contents
  <2>2. ASSUME NEW k \in 1 .. n + 1 PROVE k - 1 \in Slot /\ d[k] = IF k = n + 1 THEN e ELSE c[k]
    <3>1. k - 1 \in Slot /\ k \in Int
      BY <1>2, <2>2 DEF Slot
    <3>2. d[k] = IF k - 1 = n THEN e ELSE buffer[m_back.begin][k - 1]
      BY <1>4, <2>2, <3>1
    <3>3. k # n + 1 => k \in 1 .. n
      BY <1>2, <2>2
    <3> HIDE DEF d, c
    <3>4. k - 1 = n <=> k = n + 1
      BY <1>2, <3>1
    <3>5. k # n + 1 => c[k] = buffer[m_back.begin][k - 1]
      BY <1>8, <3>3 DEF c
    <3> QED BY <3>1, <3>2, <3>4, <3>5
  <2>3. \A k \in 1 .. n : c[k] \in Event
    BY <1>8, ElementOfSeq
  <2>4. d \in [1 .. n + 1 -> Event]
    <3>1. ASSUME NEW k \in 1 .. n + 1 PROVE d[k] \in Event
      <4>1. k = n + 1 \/ k \in 1 .. n
        BY <1>2
      <4> HIDE DEF d, c
      <4> QED BY <2>2, <2>3, <4>1
    <3> QED BY <3>1
  <2> HIDE DEF d, c
  <2>5. d \in Seq(Event) /\ Len(d) = n + 1
    BY <1>2, <2>4, FunctionIsSeq
  <2>6. c \in Seq(Event) /\ Len(c) = n
    BY <1>8 DEF c
  <2>7. /\ Append(c, e) \in Seq(Event)
        /\ Len(Append(c, e)) = n + 1
        /\ \A k \in 1 .. n : Append(c, e)[k] = c[k]
        /\ Append(c, e)[n + 1] = e
    BY <2>6, AppendProperties
  <2>8. \A k \in 1 .. n + 1 : d[k] = Append(c, e)[k]
    <3>1. ASSUME NEW k \in 1 .. n + 1 PROVE d[k] = Append(c, e)[k]
      <4>1. k = n + 1 \/ (k \in 1 .. n /\ k # n + 1)
        BY <1>2
      <4> QED BY <2>2, <2>7, <4>1
    <3> QED BY <3>1
  <2>9. d = Append(c, e)
    BY <2>5, <2>7, <2>8, SeqEqual
  <2> QED BY <2>1, <2>9 DEF c
<1>10. m_back.end < k_max_events
  BY <1>1, <1>2 DEF Slot
<1> QED BY <1>2, <1>3, <1>5, <1>6, <1>7, <1>8, <1>9, <1>10

\* swap_queues makes the back queue the front one and leaves an empty back queue.
LEMMA SwapMoves ==
    ASSUME LoopInv, swap_queues
    PROVE  /\ QueueTypeOK'
           /\ m_front'.begin # m_back'.begin
           /\ Filled(m_front)' /\ Filled(m_back)'
           /\ Contents(m_front)' = Contents(m_back)
           /\ Contents(m_back)' = << >>
<1> USE QueueAssumption
<1>1. /\ m_back \in Queue /\ m_front \in Queue
      /\ buffer \in [Buffer -> [Slot -> Event \cup {NoEvent}]]
      /\ m_front.begin # m_back.begin
      /\ Filled(m_back)
  BY DEF LoopInv, TypeOK, QueueTypeOK
<1>2. /\ m_front' = m_back
      /\ m_back' = [m_front EXCEPT !.end = 0]
      /\ buffer' = buffer
  BY DEF swap_queues
<1>3. /\ m_back' \in Queue
      /\ m_back'.begin = m_front.begin
      /\ m_back'.end = 0
  BY <1>1, <1>2 DEF Queue
<1>4. Filled(m_front)' /\ Filled(m_back)'
  BY <1>1, <1>2, <1>3 DEF Filled, Slot
<1>5. Contents(m_front)' = Contents(m_back)
  BY <1>2 DEF Contents
<1>6. Contents(m_back)' = << >>
  <2>1. Contents(m_back)' = [k \in 1 .. 0 |-> buffer'[m_back'.begin][k - 1]]
    BY <1>3 DEF Contents
  <2>2. \A k : k \notin 1 .. 0
    OBVIOUS
  <2>3. [k \in 1 .. 0 |-> buffer'[m_back'.begin][k - 1]] = << >>
    BY <2>2
  <2> QED BY <2>1, <2>3
<1> QED BY <1>1, <1>2, <1>3, <1>4, <1>5, <1>6 DEF QueueTypeOK
-----------------------------------------------------------------------------
\* The constructor, which pushes the initial size of the window, establishes the invariant.
LEMMA LoopInit == Init => LoopInv
<1> SUFFICES ASSUME Init PROVE LoopInv
  OBVIOUS
<1> USE QueueAssumption, LoopAssumption DEF Init
<1>1. 1 \in Event /\ 0 \in Slot
  BY DEF Slot
<1>2. QueueTypeOK
  BY <1>1 DEF QueueTypeOK, Queue, Buffer
<1>3. <<1>> \in Seq(Event) /\ << >> \in Seq(Event)
  BY <1>1
<1>4. view \in Queue /\ position \in 0 .. view.end
  BY <1>2 DEF QueueTypeOK, Queue
<1>5. pushed \in 0 .. MaxEvents
  OBVIOUS
<1>6. TypeOK
  BY <1>2, <1>3, <1>4, <1>5 DEF TypeOK
<1>7. Filled(m_front) /\ Filled(m_back)
  BY <1>1 DEF Filled, Slot, Buffer
<1> QED BY <1>6, <1>7 DEF LoopInv, WindowOutlivesRenderThread

\* What LoopInv says of the queues is kept by a step that leaves them alone.
LEMMA QueuesUnchanged ==
    ASSUME LoopInv, UNCHANGED queueVars
    PROVE  /\ QueueTypeOK'
           /\ m_front'.begin # m_back'.begin
           /\ Filled(m_front)' /\ Filled(m_back)'
           /\ Contents(m_front)' = Contents(m_front)
           /\ Contents(m_back)' = Contents(m_back)
  BY DEF LoopInv, TypeOK, QueueTypeOK, queueVars, Filled, Contents

\* A handler of the main thread keeps the invariant, whether its event is accepted or not.
LEMMA LoopDispatch ==
    ASSUME LoopInv, Dispatch
    PROVE  LoopInv'
<1> USE LoopAssumption
<1>1. /\ pushed + 1 \in Event
      /\ pushed' \in 0 .. MaxEvents
      /\ UNCHANGED <<main, render, m_running, view, position, handled>>
  BY DEF Dispatch, LoopInv, TypeOK
<1>2. CASE push_event(pushed + 1) /\ accepted' = Append(accepted, pushed + 1)
  <2>1. accepted' \in Seq(Event)
    BY <1>1, <1>2, AppendProperties DEF LoopInv, TypeOK
  <2>2. TypeOK'
    BY <1>1, <1>2, <2>1, PushAppends DEF LoopInv, TypeOK
  <2> QED BY <1>1, <1>2, <2>2, PushAppends DEF LoopInv, WindowOutlivesRenderThread
<1>3. CASE push_event_full(pushed + 1) /\ UNCHANGED accepted
  <2>1. UNCHANGED queueVars
    BY <1>3 DEF push_event_full
  <2>2. TypeOK'
    BY <1>1, <1>3, <2>1, QueuesUnchanged DEF LoopInv, TypeOK
  <2> QED BY <1>1, <2>1, <2>2, QueuesUnchanged DEF LoopInv, WindowOutlivesRenderThread, queueVars
<1> QED BY <1>2, <1>3 DEF Dispatch

\* The steps of the main thread other than Dispatch.
LEMMA LoopMain ==
    ASSUME LoopInv, start_render_thread \/ on_close \/ joined
    PROVE  LoopInv'
<1>1. /\ UNCHANGED queueVars
      /\ UNCHANGED <<view, position, pushed, accepted, handled>>
  BY DEF start_render_thread, on_close, joined
<1>2. CASE start_render_thread
  <2>1. TypeOK'
    BY <1>1, <1>2, QueuesUnchanged DEF LoopInv, TypeOK, start_render_thread
  <2> QED BY <1>1, <1>2, <2>1, QueuesUnchanged
          DEF LoopInv, WindowOutlivesRenderThread, start_render_thread
<1>3. CASE on_close
  <2>1. main' = "join" /\ main = "dispatch" /\ render' = render /\ m_running' = FALSE
    BY <1>3 DEF LoopInv, on_close
  <2>2. TypeOK'
    BY <1>1, <2>1, QueuesUnchanged DEF LoopInv, TypeOK
  <2> QED BY <1>1, <2>1, <2>2, QueuesUnchanged
          DEF LoopInv, WindowOutlivesRenderThread, queueVars
<1>4. CASE joined
  <2>1. TypeOK'
    BY <1>1, <1>4, QueuesUnchanged DEF LoopInv, TypeOK, joined
  <2> QED BY <1>1, <1>4, <2>1, QueuesUnchanged
          DEF LoopInv, WindowOutlivesRenderThread, joined, queueVars
<1> QED BY <1>2, <1>3, <1>4

\* So do the steps of the render thread.
LEMMA LoopRender ==
    ASSUME LoopInv, RenderThread
    PROVE  LoopInv'
<1>1. /\ main' = main /\ main # "run_render_loop" /\ main # "destroyed"
      /\ m_running' = m_running
      /\ UNCHANGED <<pushed, accepted>>
  BY DEF LoopInv, TypeOK, WindowOutlivesRenderThread, RenderThread, Step,
         init, shown, Swap, front_queue, ProcessEvent, FrameEnd, shutdown
<1>2. CASE init \/ shown \/ FrameEnd \/ shutdown
  <2>1. /\ UNCHANGED queueVars
        /\ UNCHANGED <<view, position, handled>>
        /\ render' \in {"show", "swap", "shutdown", "ended"}
    BY <1>2 DEF init, shown, FrameEnd, shutdown, Step
  <2>2. TypeOK'
    BY <1>1, <2>1, QueuesUnchanged DEF LoopInv, TypeOK
  <2> QED BY <1>1, <2>1, <2>2, QueuesUnchanged DEF LoopInv, WindowOutlivesRenderThread
<1>3. CASE Swap
  <2>1. swap_queues /\ render' = "front" /\ UNCHANGED <<view, position, handled>>
    BY <1>3 DEF Swap, Step
  <2>2. TypeOK'
    BY <1>1, <2>1, SwapMoves DEF LoopInv, TypeOK
  <2> QED BY <1>1, <2>1, <2>2, SwapMoves DEF LoopInv, WindowOutlivesRenderThread
<1>4. CASE front_queue
  <2>1. /\ UNCHANGED queueVars
        /\ view' = m_front /\ position' = 0 /\ handled' = handled /\ render' = "render"
    BY <1>4 DEF front_queue, Step
  <2>2. m_front \in Queue /\ 0 \in 0 .. m_front.end
    BY QueueAssumption DEF LoopInv, TypeOK, QueueTypeOK, Queue
  <2>3. TypeOK'
    BY <1>1, <2>1, <2>2, QueuesUnchanged DEF LoopInv, TypeOK
  <2> QED BY <1>1, <2>1, <2>3, QueuesUnchanged DEF LoopInv, WindowOutlivesRenderThread, queueVars
<1>5. CASE ProcessEvent
  <2>1. /\ UNCHANGED queueVars
        /\ render = "render" /\ render' = "render" /\ view' = view
        /\ position < view.end /\ position' = position + 1
        /\ handled' = Append(handled, buffer[view.begin][position])
    BY <1>5 DEF ProcessEvent, Step
  <2>2. view = m_front /\ view.end \in 0 .. k_max_events /\ position \in 0 .. view.end
    BY <2>1 DEF LoopInv, TypeOK, QueueTypeOK, Queue
  <2>3. position' \in 0 .. view.end /\ position \in Slot
    BY <2>1, <2>2, QueueAssumption DEF Slot
  <2>4. buffer[view.begin][position] \in Event
    BY <2>1, <2>2, <2>3 DEF LoopInv, Filled
  <2>5. handled' \in Seq(Event)
    BY <2>1, <2>4, AppendProperties DEF LoopInv, TypeOK
  <2>6. TypeOK'
    BY <1>1, <2>1, <2>3, <2>5, QueuesUnchanged DEF LoopInv, TypeOK
  <2> QED BY <1>1, <2>1, <2>2, <2>6, QueuesUnchanged
          DEF LoopInv, WindowOutlivesRenderThread, queueVars
<1> QED BY <1>2, <1>3, <1>4, <1>5 DEF RenderThread

\* Each step keeps the invariant.
LEMMA LoopStep == LoopInv /\ [Next]_vars => LoopInv'
<1> SUFFICES ASSUME LoopInv, [Next]_vars PROVE LoopInv'
  OBVIOUS
<1>1. CASE UNCHANGED vars
  BY <1>1 DEF vars, queueVars, loopVars, LoopInv, TypeOK, QueueTypeOK, Filled,
              WindowOutlivesRenderThread
<1>2. CASE Next
  BY <1>2, LoopDispatch, LoopMain, LoopRender DEF Next
<1> QED BY <1>1, <1>2

\* The inductive invariant.
THEOREM LoopInvariant == Spec => []LoopInv
<1> QED BY LoopInit, LoopStep, PTL DEF Spec

\* The state of the two threads keeps its types.
THEOREM LoopTypeOK == Spec => []TypeOK
<1>1. LoopInv => TypeOK
  BY DEF LoopInv
<1> QED BY <1>1, LoopInvariant, PTL

\* on_close destroys the window, and the queue in it, only after the join.
THEOREM WindowOutlives == Spec => []WindowOutlivesRenderThread
<1>1. LoopInv => WindowOutlivesRenderThread
  BY DEF LoopInv
<1> QED BY <1>1, LoopInvariant, PTL

-----------------------------------------------------------------------------
\* What is left of the frame, the first part of Undelivered.
Rest == CASE render = "front"  -> Contents(m_front)
          [] render = "render" -> SubSeq(Contents(view), position + 1, view.end)
          [] OTHER             -> << >>

\* The rest of the frame and the back buffer are sequences of events, of known lengths.
LEMMA RestIsSeq ==
    ASSUME LoopInv
    PROVE  /\ Contents(m_front) \in Seq(Event) /\ Len(Contents(m_front)) = m_front.end
           /\ Contents(m_back) \in Seq(Event)
           /\ Rest \in Seq(Event)
           /\ Undelivered = Rest \o Contents(m_back)
           /\ handled \in Seq(Event)
           /\ accepted \in Seq(Event)
<1>1. /\ Contents(m_front) \in Seq(Event) /\ Len(Contents(m_front)) = m_front.end
      /\ Contents(m_back) \in Seq(Event)
  BY ContentsIsSeq DEF LoopInv, TypeOK, QueueTypeOK
<1>2. CASE render = "render"
  <2>1. /\ Rest = SubSeq(Contents(m_front), position + 1, m_front.end)
        /\ position \in 0 .. m_front.end
    BY <1>2 DEF Rest, LoopInv, TypeOK
  <2>2. m_front.end \in Nat
    BY QueueAssumption DEF LoopInv, TypeOK, QueueTypeOK, Queue
  <2>3. \A k \in position + 1 .. m_front.end : Contents(m_front)[k] \in Event
    BY <1>1, <2>1, <2>2, ElementOfSeq
  <2>4. SubSeq(Contents(m_front), position + 1, m_front.end) \in Seq(Event)
    BY <2>1, <2>2, <2>3, SubSeqProperties
  <2> QED BY <1>1, <2>1, <2>4 DEF Undelivered, Rest, LoopInv, TypeOK
<1>3. CASE render # "render"
  <2>1. Rest \in Seq(Event)
    BY <1>1, <1>3, EmptySeq DEF Rest
  <2> QED BY <1>1, <2>1 DEF Undelivered, Rest, LoopInv, TypeOK
<1> QED BY <1>2, <1>3

\* Appending to the last of three sequences appends to their concatenation.
LEMMA AppendToLast ==
    ASSUME NEW S, NEW h \in Seq(S), NEW r \in Seq(S), NEW c \in Seq(S), NEW e \in S
    PROVE  h \o (r \o Append(c, e)) = Append(h \o (r \o c), e)
<1>1. <<e>> \in Seq(S)
  OBVIOUS
<1>2. r \o c \in Seq(S) /\ h \o (r \o c) \in Seq(S)
  BY ConcatProperties
<1>3. r \o Append(c, e) = (r \o c) \o <<e>>
  BY <1>1, AppendIsConcat, ConcatAssociative
<1>4. h \o ((r \o c) \o <<e>>) = (h \o (r \o c)) \o <<e>>
  BY <1>1, <1>2, ConcatAssociative
<1> QED BY <1>2, <1>3, <1>4, AppendIsConcat

\* Moving the first element of the second of three sequences to the end of the first.
LEMMA MoveFirst ==
    ASSUME NEW S, NEW h \in Seq(S), NEW r \in Seq(S), NEW c \in Seq(S), NEW e \in S
    PROVE  h \o ((<<e>> \o r) \o c) = Append(h, e) \o (r \o c)
<1>1. <<e>> \in Seq(S)
  OBVIOUS
<1>2. r \o c \in Seq(S)
  BY ConcatProperties
<1>3. (<<e>> \o r) \o c = <<e>> \o (r \o c)
  BY <1>1, ConcatAssociative
<1>4. h \o (<<e>> \o (r \o c)) = (h \o <<e>>) \o (r \o c)
  BY <1>1, <1>2, ConcatAssociative
<1> QED BY <1>3, <1>4, AppendIsConcat

\* Each step keeps the events delivered once and in order.
LEMMA DeliveredStep ==
    ASSUME LoopInv, LoopInv', DeliveredOnceInOrder, [Next]_vars
    PROVE  DeliveredOnceInOrder'
<1>1. /\ accepted = handled \o (Rest \o Contents(m_back))
      /\ Rest \in Seq(Event) /\ Contents(m_back) \in Seq(Event)
      /\ Contents(m_front) \in Seq(Event) /\ Len(Contents(m_front)) = m_front.end
      /\ handled \in Seq(Event)
  BY RestIsSeq DEF DeliveredOnceInOrder
<1>2. Undelivered' = Rest' \o Contents(m_back)'
  BY DEF Undelivered, Rest
<1>3. SUFFICES accepted' = handled' \o (Rest' \o Contents(m_back)')
  BY <1>2 DEF DeliveredOnceInOrder
<1>4. UNCHANGED queueVars =>
         Contents(m_back)' = Contents(m_back) /\ Contents(m_front)' = Contents(m_front)
  BY QueuesUnchanged
<1>5. CASE \/ UNCHANGED vars
           \/ start_render_thread \/ on_close \/ joined
           \/ init \/ shown \/ shutdown
  <2>1. /\ UNCHANGED <<queueVars, view, position, accepted, handled>>
        /\ \/ render' = render
           \/ render \notin {"front", "render"} /\ render' \notin {"front", "render"}
    BY <1>5 DEF vars, loopVars, LoopInv, start_render_thread, on_close, joined, init, shown,
                shutdown, Step
  <2>2. Rest' = Rest
    BY <2>1 DEF Rest, Contents, queueVars
  <2> QED BY <1>1, <1>4, <2>1, <2>2
<1>6. CASE Dispatch
  <2>1. UNCHANGED <<render, view, position, handled>>
    BY <1>6 DEF Dispatch
  <2>2. CASE push_event(pushed + 1) /\ accepted' = Append(accepted, pushed + 1)
    <3>1. pushed + 1 \in Event
      BY <1>6, LoopAssumption DEF Dispatch, LoopInv, TypeOK
    <3>2. /\ Contents(m_back)' = Append(Contents(m_back), pushed + 1)
          /\ Contents(m_front)' = Contents(m_front)
          /\ m_front' = m_front
      BY <2>2, <3>1, PushAppends
    <3>3. Rest' = Rest
      <4>1. CASE render = "render"
        <5>1. view = m_front /\ Contents(view)' = Contents(view)
          BY <2>1, <3>2, <4>1 DEF LoopInv
        <5> QED BY <2>1, <4>1, <5>1 DEF Rest
      <4>2. CASE render # "render"
        BY <2>1, <3>2, <4>2 DEF Rest
      <4> QED BY <4>1, <4>2
    <3>4. handled \o (Rest \o Append(Contents(m_back), pushed + 1))
             = Append(handled \o (Rest \o Contents(m_back)), pushed + 1)
      <4> DEFINE r == Rest
                 c == Contents(m_back)
                 e == pushed + 1
      <4>1. handled \in Seq(Event) /\ r \in Seq(Event) /\ c \in Seq(Event) /\ e \in Event
        BY <1>1, <3>1
      <4> HIDE DEF r, c, e
      <4>2. handled \o (r \o Append(c, e)) = Append(handled \o (r \o c), e)
        BY ONLY <4>1, AppendToLast, SMTT(60)
      <4> QED BY <4>2 DEF r, c, e
    <3>5. accepted' = Append(handled \o (Rest \o Contents(m_back)), pushed + 1)
      BY <1>1, <2>2
    <3>6. handled' \o (Rest' \o Contents(m_back)')
             = handled \o (Rest \o Append(Contents(m_back), pushed + 1))
      BY <2>1, <3>2, <3>3
    <3> QED BY <3>4, <3>5, <3>6
  <2>3. CASE push_event_full(pushed + 1) /\ UNCHANGED accepted
    <3>1. UNCHANGED queueVars
      BY <2>3 DEF push_event_full
    <3>2. Rest' = Rest
      BY <2>1, <3>1 DEF Rest, Contents, queueVars
    <3> QED BY <1>1, <1>4, <2>1, <2>3, <3>1, <3>2
  <2> QED BY <1>6, <2>2, <2>3 DEF Dispatch
<1>7. CASE Swap
  <2>1. /\ swap_queues
        /\ render = "swap" /\ render' = "front" /\ UNCHANGED <<accepted, handled>>
    BY <1>7 DEF Swap, Step
  <2>2. Rest = << >> /\ Rest' = Contents(m_back) /\ Contents(m_back)' = << >>
    BY <2>1, SwapMoves DEF Rest
  <2> QED BY <1>1, <2>1, <2>2, ConcatEmptySeq
<1>8. CASE front_queue
  <2>1. /\ UNCHANGED queueVars
        /\ render = "front" /\ render' = "render" /\ UNCHANGED <<accepted, handled>>
        /\ view' = m_front /\ position' = 0
    BY <1>8 DEF front_queue, Step
  <2>2. Contents(view)' = Contents(m_front)
    BY <2>1 DEF Contents, queueVars
  <2>3. Rest = Contents(m_front) /\ Rest' = SubSeq(Contents(m_front), 1, m_front.end)
    <3>1. Rest = Contents(m_front)
      BY <2>1 DEF Rest
    <3>2. Rest' = SubSeq(Contents(view)', position' + 1, view'.end)
      BY <2>1 DEF Rest
    <3>3. position' + 1 = 1
      BY <2>1
    <3> QED BY <2>1, <2>2, <3>1, <3>2, <3>3
  <2>4. Rest' = Rest
    BY <1>1, <2>3, SubSeqFull
  <2> QED BY <1>1, <1>4, <2>1, <2>4
<1>9. CASE ProcessEvent
  <2> DEFINE c == Contents(m_front)
             e == buffer[m_front.begin][position]
  <2>1. /\ UNCHANGED queueVars
        /\ render = "render" /\ render' = "render" /\ accepted' = accepted /\ view' = view
        /\ view = m_front /\ position < m_front.end /\ position' = position + 1
        /\ handled' = Append(handled, e)
    BY <1>9 DEF ProcessEvent, Step, LoopInv
  <2>2. position \in Nat /\ m_front.end \in Nat /\ m_front \in Queue
    BY <2>1, QueueAssumption DEF LoopInv, TypeOK, QueueTypeOK, Queue
  <2>3. position + 1 \in 1 .. m_front.end
    BY <2>1, <2>2
  <2>4. c[position + 1] = e /\ e \in Event
    <3>1. c[position + 1] = buffer[m_front.begin][(position + 1) - 1]
      BY <2>3 DEF Contents
    <3>2. (position + 1) - 1 = position
      BY <2>2
    <3>3. c[position + 1] \in Event
      BY <1>1, <2>3, ElementOfSeq
    <3> QED BY <3>1, <3>2, <3>3
  <2>5. Rest = SubSeq(c, position + 1, m_front.end)
    BY <2>1 DEF Rest
  <2>6. Rest' = SubSeq(c, (position + 1) + 1, m_front.end)
    <3>1. Contents(view)' = c
      BY <2>1 DEF Contents, queueVars
    <3> QED BY <2>1, <3>1 DEF Rest, queueVars
  <2> HIDE DEF c, e
  <2>7. SubSeq(c, position + 1, m_front.end)
           = << c[position + 1] >> \o SubSeq(c, (position + 1) + 1, m_front.end)
    <3>1. m_front.end \in position + 1 .. Len(c) /\ position + 1 \in 1 .. Len(c)
      BY <1>1, <2>2, <2>3 DEF c
    <3>2. c \in Seq(Event)
      BY <1>1 DEF c
    <3> QED BY <3>1, <3>2, SubSeqRecursiveFirst
  <2>8. Rest = <<e>> \o Rest'
    BY <2>4, <2>5, <2>6, <2>7
  <2>9. Rest' \in Seq(Event)
    <3>1. \A k \in (position + 1) + 1 .. m_front.end : c[k] \in Event
      <4>1. \A k \in (position + 1) + 1 .. m_front.end : k \in 1 .. m_front.end
        BY <2>2
      <4> QED BY <1>1, <4>1, ElementOfSeq DEF c
    <3>2. (position + 1) + 1 \in Int /\ m_front.end \in Int
      BY <2>2
    <3> QED BY <2>6, <3>1, <3>2, SubSeqProperties
  <2>10. accepted' = handled \o ((<<e>> \o Rest') \o Contents(m_back)')
    BY <1>1, <1>4, <2>1, <2>8
  <2>11. handled \o ((<<e>> \o Rest') \o Contents(m_back)')
            = Append(handled, e) \o (Rest' \o Contents(m_back)')
    <3> DEFINE r == Rest'
               b == Contents(m_back)'
    <3>1. handled \in Seq(Event) /\ r \in Seq(Event) /\ b \in Seq(Event) /\ e \in Event
      BY <1>1, <1>4, <2>1, <2>4, <2>9
    <3> HIDE DEF r, b
    <3>2. handled \o ((<<e>> \o r) \o b) = Append(handled, e) \o (r \o b)
      BY ONLY <3>1, MoveFirst, SMTT(60)
    <3> QED BY <3>2 DEF r, b
  <2>12. handled' = Append(handled, e)
    BY <2>1
  <2> QED BY <2>10, <2>11, <2>12
<1>10. CASE FrameEnd
  <2>1. /\ UNCHANGED <<queueVars, accepted, handled>>
        /\ render = "render" /\ render' \notin {"front", "render"}
        /\ view = m_front /\ position = m_front.end
    BY <1>10 DEF FrameEnd, Step, LoopInv
  <2>2. m_front.end \in Nat
    BY QueueAssumption DEF LoopInv, TypeOK, QueueTypeOK, Queue
  <2>3. Rest' = << >>
    BY <2>1 DEF Rest
  <2>4. Rest = SubSeq(Contents(m_front), m_front.end + 1, m_front.end)
    BY <2>1 DEF Rest
  <2>5. Rest = << >>
    BY <2>2, <2>4, SubSeqEmpty
  <2> QED BY <1>1, <1>4, <2>1, <2>3, <2>5
<1> QED BY <1>5, <1>6, <1>7, <1>8, <1>9, <1>10 DEF Next, RenderThread

\* The size of the window, pushed by the constructor, waits in the back buffer.
LEMMA DeliveredInit == Init => DeliveredOnceInOrder
<1> SUFFICES ASSUME Init PROVE DeliveredOnceInOrder
  OBVIOUS
<1>1. LoopInv
  BY LoopInit
<1>2. Rest = << >>
  BY DEF Init, Rest
<1>3. Contents(m_back) = <<1>>
  <2>1. m_back.begin = "b" /\ m_back.end = 1 /\ m_back \in Queue /\ Filled(m_back) /\ TypeOK
    BY <1>1 DEF Init, LoopInv, TypeOK, QueueTypeOK
  <2>2. /\ Contents(m_back) \in Seq(Event)
        /\ Len(Contents(m_back)) = 1
        /\ Contents(m_back)[1] = buffer["b"][1 - 1]
    <3>1. /\ Contents(m_back) \in Seq(Event)
          /\ Len(Contents(m_back)) = m_back.end
          /\ \A k \in 1 .. m_back.end : Contents(m_back)[k] = buffer[m_back.begin][k - 1]
      BY <2>1, ContentsIsSeq
    <3> QED BY <2>1, <3>1
  <2>3. buffer["b"][0] = 1
    BY QueueAssumption DEF Init, Buffer, Slot
  <2>4. 1 \in Event
    BY LoopAssumption
  <2>5. <<1>> \in Seq(Event) /\ Len(<<1>>) = 1 /\ <<1>>[1] = 1
    BY <2>4
  <2>6. \A k \in 1 .. 1 : Contents(m_back)[k] = <<1>>[k]
    BY <2>2, <2>3, <2>5
  <2> QED BY <2>2, <2>5, <2>6, SeqEqual
<1>4. <<1>> \in Seq(Event)
  BY <1>1, <1>3, RestIsSeq
<1>5. Undelivered = << >> \o <<1>>
  BY <1>1, <1>2, <1>3, RestIsSeq
<1> QED BY <1>4, <1>5, ConcatEmptySeq DEF Init, DeliveredOnceInOrder

\* Every accepted event is processed once and in order, or still waits for it, whatever
\* push_event, swap_queues and the reads of the front buffer do in between.
THEOREM DeliveredInOrder == Spec => []DeliveredOnceInOrder
<1>1. LoopInv /\ LoopInv' /\ DeliveredOnceInOrder /\ [Next]_vars => DeliveredOnceInOrder'
  BY DeliveredStep
<1> QED BY <1>1, DeliveredInit, LoopInvariant, PTL DEF Spec

\* The two buffers, swapped and read as the threads do, implement the frames that
\* EventFrames promises.
THEOREM ImplementsEventFrames == Spec => IsEventFrames
<1>1. ASSUME LoopInv, [Next]_vars PROVE [Frames!Next]_(Frames!vars)
  <2>1. CASE UNCHANGED queueVars
    BY <1>1, <2>1, QueuesUnchanged DEF Frames!vars
  <2>2. ASSUME Dispatch, push_event(pushed + 1) PROVE Frames!Next
    <3>1. pushed + 1 \in Event
      BY <1>1, <2>2, LoopAssumption DEF Dispatch, LoopInv, TypeOK
    <3>2. Frames!PushEvent(pushed + 1)
      BY <1>1, <2>2, <3>1, PushAppends DEF Frames!PushEvent
    <3> QED BY <3>1, <3>2 DEF Frames!Next
  <2>3. ASSUME swap_queues PROVE Frames!Next
    <3>1. Frames!NextFrame
      BY <1>1, <2>3, SwapMoves DEF Frames!NextFrame
    <3> QED BY <3>1 DEF Frames!Next
  <2>4. CASE UNCHANGED vars
    <3>1. UNCHANGED queueVars
      BY <2>4 DEF vars
    <3> QED BY <2>1, <3>1
  <2>5. CASE start_render_thread \/ on_close \/ joined
    <3>1. UNCHANGED queueVars
      BY <2>5 DEF start_render_thread, on_close, joined
    <3> QED BY <2>1, <3>1
  <2>6. CASE Dispatch
    <3>1. CASE push_event(pushed + 1)
      BY <2>2, <2>6, <3>1
    <3>2. CASE push_event_full(pushed + 1)
      <4>1. UNCHANGED queueVars
        BY <3>2 DEF push_event_full
      <4> QED BY <2>1, <4>1
    <3> QED BY <2>6, <3>1, <3>2 DEF Dispatch
  <2>7. CASE RenderThread
    <3>1. CASE Swap
      BY <2>3, <3>1 DEF Swap
    <3>2. CASE init \/ shown \/ front_queue \/ ProcessEvent \/ FrameEnd \/ shutdown
      <4>1. UNCHANGED queueVars
        BY <3>2 DEF init, shown, front_queue, ProcessEvent, FrameEnd, shutdown
      <4> QED BY <2>1, <4>1
    <3> QED BY <2>7, <3>1, <3>2 DEF RenderThread
  <2> QED BY <1>1, <2>4, <2>5, <2>6, <2>7 DEF Next
<1> QED BY <1>1, LoopInvariant, PTL DEF Spec, IsEventFrames

=============================================================================
