------------------------- MODULE InputManagerProofs -------------------------
(***************************************************************************)
(* For queues, clocks and windows of any size: what the input manager      *)
(* believes is what the world is, as soon as nothing waits, in everything  *)
(* whose last change it was told; and no key is held longer than the frame *)
(* unless its press is stamped ahead of the frame, by no more than the lag *)
(* between the clocks.                                                     *)
(*                                                                         *)
(* What the frame and the queue tell, one event after the other, leads     *)
(* from what the manager believes to what it will believe.  That agrees    *)
(* with the world in what was heard last, and the last key message that    *)
(* waits agrees with the key: messages are only about keys, so that what   *)
(* overtakes them changes nothing they say.                                *)
(***************************************************************************)
EXTENDS InputManager, ArithmeticLemmas, SequenceTheorems

KeyEvent   == [type : {"key_down", "key_up"}, value : Times]
SizeEvent  == [type : {"window_size"}, value : Size]
FocusEvent == [type : {"activate", "deactivate"}, value : {0}]
Pushed == KeyEvent \cup SizeEvent \cup FocusEvent

\* What a manager believes.
World == [held : BOOLEAN, active : BOOLEAN, size : Size]
Belief(m) == [held |-> m.held, active |-> m.active, size |-> m.size]

\* What an event makes of a belief.
Tell(w, e) == IF ~ w.active THEN [w EXCEPT !.active = (e.type = "activate")]
              ELSE CASE e.type = "key_down"    -> [w EXCEPT !.held = TRUE]
                     [] e.type = "key_up"      -> [w EXCEPT !.held = FALSE]
                     [] e.type = "window_size" -> [w EXCEPT !.size = e.value]
                     [] e.type = "activate"    -> w
                     [] e.type = "deactivate"  -> [w EXCEPT !.active = FALSE]

\* Events lead from one belief to another.
Leads(f, s) == /\ f \in [0 .. Len(s) -> World]
               /\ \A k \in 1 .. Len(s) : f[k] = Tell(f[k - 1], s[k])
Told(s, v, w) == \E f : Leads(f, s) /\ f[0] = v /\ f[Len(s)] = w

TypesInv == /\ now \in Times /\ now >= Tick /\ lag \in Lag
            /\ key \in BOOLEAN /\ focused \in BOOLEAN /\ size \in Size
            /\ messages \in Seq(KeyEvent) /\ Len(messages) <= MaxMessages
            /\ collected \in Seq(Pushed) /\ Len(collected) <= k_max_events
            /\ frame \in Seq(Pushed) /\ Len(frame) <= k_max_events
            /\ processing \in BOOLEAN
            /\ ~ processing => frame = <<>>
            /\ im \in Manager
            /\ changes \in 0 .. MaxChanges
            /\ missed \subseteq Aspect

Down(e) == e.type = "key_down"

\* A belief in which everything that was heard last is so.
Agrees(w) == /\ "activation" \notin missed => w.active = focused
             /\ "size" \notin missed => w.size = size
             /\ "key" \notin missed /\ "unposted" \notin missed /\ messages = <<>> => w.held = key

\* The last message that waits is about the last change that was posted.
LastMessageAgrees ==
    "unposted" \notin missed /\ messages # <<>> => key = Down(messages[Len(messages)])

TellsWorld == /\ \E v, w \in World : Told(frame, Belief(im), v) /\ Told(collected, v, w) /\ Agrees(w)
              /\ LastMessageAgrees

BeliefInv == TypesInv /\ TellsWorld
-----------------------------------------------------------------------------
\* Handling an event keeps the types of the manager.
LEMMA TimesNat == /\ Times \subseteq Nat /\ 0 \in Times /\ Tick \in Times
                  /\ WordSize \in Nat \ {0} /\ 0 \in 0 .. WordSize - 1
                  /\ Times \subseteq 0 .. WordSize - 1
BY InputAssumption DEF Times

LEMMA Wraps == \A n \in Int : n % WordSize \in 0 .. WordSize - 1
BY TimesNat

LEMMA DurationType ==
    ASSUME NEW m \in Manager, NEW time \in Times
    PROVE  Duration(m, time) \in 0 .. WordSize - 1
<1>1. time \in Nat /\ m.current \in Nat /\ m.press \in Nat
  BY TimesNat DEF Manager
<1>2. Earlier(time, m.current) - m.press \in Int
  BY <1>1 DEF Earlier
<1> QED BY <1>2, Wraps, TimesNat DEF Duration

LEMMA KeyUpType ==
    ASSUME NEW m \in Manager, NEW time \in Times
    PROVE  on_key_up(m, time) \in Manager
<1>1. Duration(m, time) \in Int /\ m.accumulated \in Int
  BY DurationType DEF Manager
<1>2. (m.accumulated + Duration(m, time)) % WordSize \in 0 .. WordSize - 1
  BY <1>1, Wraps
<1> QED BY <1>2 DEF on_key_up, Manager

LEMMA HandleType ==
    ASSUME NEW m \in Manager, NEW e \in Pushed
    PROVE  Handle(m, e) \in Manager
<1>1. CASE ~ m.active
  <2>1. (e.type = "activate") \in BOOLEAN
    OBVIOUS
  <2>2. Handle(m, e) = [m EXCEPT !.active = (e.type = "activate")]
    BY <1>1 DEF Handle
  <2> QED BY <2>1, <2>2 DEF Manager
<1>2. CASE m.active /\ e \in KeyEvent
  <2>1. e.value \in Times /\ e.type \in {"key_down", "key_up"}
    BY <1>2 DEF KeyEvent
  <2>2. on_key_down(m, e.value) \in Manager
    BY <2>1 DEF on_key_down, Manager
  <2>3. on_key_up(m, e.value) \in Manager
    BY <2>1, KeyUpType
  <2> QED BY <1>2, <2>1, <2>2, <2>3 DEF Handle
<1>3. CASE m.active /\ e \in SizeEvent
  BY <1>3 DEF Handle, Manager, SizeEvent
<1>4. CASE m.active /\ e \in FocusEvent
  BY <1>4 DEF Handle, Manager, FocusEvent
<1> QED BY <1>1, <1>2, <1>3, <1>4 DEF Pushed

\* The manager after each event is the one before it that has handled the event.
LEMMA ProcessedSteps ==
    ASSUME NEW m \in Manager, NEW s \in Seq(Pushed)
    PROVE  /\ Processed(m, s) \in [0 .. Len(s) -> Manager]
           /\ Processed(m, s)[0] = m
           /\ \A k \in 1 .. Len(s) : Processed(m, s)[k] = Handle(Processed(m, s)[k - 1], s[k])
<1> DEFINE n == Len(s)
           step == [k \in 1 .. n |-> [v \in Manager |-> Handle(v, s[k])]]
<1>1. n \in Nat /\ \A k \in 1 .. n : s[k] \in Pushed
  BY ElementOfSeq, LenProperties
<1>2. Steps(step, n, Manager)
  <2> SUFFICES ASSUME NEW k \in 1 .. n, NEW v \in Manager PROVE Handle(v, s[k]) \in Manager
    BY DEF Steps
  <2> QED BY <1>1, HandleType
<1>3. PICK f : /\ f \in [0 .. n -> Manager]
               /\ f[0] = m /\ \A k \in 1 .. n : f[k] = step[k][f[k - 1]]
  <2>1. \E f : Iterates(f, step, n, Manager, m)
    <3>1. n \in Nat
      BY <1>1
    <3> HIDE DEF step, n
    <3> QED BY <1>2, <3>1, Iterated
  <2> QED BY <2>1 DEF Iterates
<1>4. ASSUME NEW k \in 1 .. n PROVE f[k] = Handle(f[k - 1], s[k])
  <2>1. f[k - 1] \in Manager
    BY <1>1, <1>3
  <2>2. step[k][f[k - 1]] = Handle(f[k - 1], s[k])
    BY <2>1
  <2> QED BY <1>3, <2>2
<1>5. f = [k \in 0 .. n |-> IF k = 0 THEN m ELSE Handle(f[k - 1], s[k])]
  <2>1. \A k \in 0 .. n : f[k] = IF k = 0 THEN m ELSE Handle(f[k - 1], s[k])
    <3>1. \A k \in 0 .. n : k # 0 => k \in 1 .. n
      BY <1>1
    <3> QED BY <1>3, <1>4, <3>1
  <2> QED BY <1>3, <2>1
<1> DEFINE g == CHOOSE g : g = [k \in 0 .. n |-> IF k = 0 THEN m ELSE Handle(g[k - 1], s[k])]
<1>6. Processed(m, s) = g
  BY DEF Processed
<1>7. g = [k \in 0 .. n |-> IF k = 0 THEN m ELSE Handle(g[k - 1], s[k])]
  <2> HIDE DEF n
  <2> QED BY <1>5, Zenon
<1> HIDE DEF g
<1> DEFINE h == Processed(m, s)
<1>8. /\ h[0] = m
      /\ \A k \in 1 .. n : h[k] = Handle(h[k - 1], s[k])
      /\ h = [k \in 0 .. n |-> h[k]]
  BY <1>1, <1>6, <1>7
<1>9. \A k \in 0 .. n : h[k] \in Manager
  <2> DEFINE Good == {k \in 0 .. n : h[k] \in Manager}
  <2> HIDE DEF h
  <2>1. 0 \in Good
    BY <1>1, <1>8
  <2>2. ASSUME NEW k \in 1 .. n, k - 1 \in Good PROVE k \in Good
    <3>1. h[k - 1] \in Manager /\ s[k] \in Pushed /\ k \in 0 .. n
      BY <1>1, <2>2
    <3>2. h[k] = Handle(h[k - 1], s[k])
      BY <1>8
    <3>3. h[k] \in Manager
      BY <3>1, <3>2, HandleType
    <3> QED BY <3>1, <3>3
  <2> HIDE DEF Good
  <2>3. 0 .. n \subseteq Good
    BY <1>1, <2>1, <2>2, UpTo
  <2> QED BY <2>3 DEF Good
<1>10. h \in [0 .. n -> Manager]
  <2> HIDE DEF h, n
  <2> QED BY <1>8, <1>9
<1> QED BY <1>8, <1>10
-----------------------------------------------------------------------------
\* What events tell.
LEMMA TellType == \A w \in World, e \in Pushed : Tell(w, e) \in World
<1> SUFFICES ASSUME NEW w \in World, NEW e \in Pushed PROVE Tell(w, e) \in World
  OBVIOUS
<1>1. (e.type = "activate") \in BOOLEAN
  OBVIOUS
<1> QED BY <1>1 DEF World, Tell, Pushed, KeyEvent, SizeEvent, FocusEvent

LEMMA NothingTold == \A v \in World : Told(<<>>, v, v)
<1> SUFFICES ASSUME NEW v \in World PROVE Told(<<>>, v, v)
  OBVIOUS
<1> DEFINE f == [k \in 0 .. 0 |-> v]
<1>1. Leads(f, <<>>) /\ f[0] = v /\ Len(<<>>) = 0
  BY DEF Leads
<1> QED BY <1>1 DEF Told

LEMMA ToldNothing == \A v, w : Told(<<>>, v, w) => v = w
BY DEF Told

\* One event more, at the end.
LEMMA ToldAppended ==
    ASSUME NEW s \in Seq(Pushed), NEW v \in World, NEW w \in World, NEW e \in Pushed,
           Told(s, v, w)
    PROVE  Told(Append(s, e), v, Tell(w, e))
<1>1. PICK f : Leads(f, s) /\ f[0] = v /\ f[Len(s)] = w
  BY DEF Told
<1>2. /\ Len(s) \in Nat /\ Len(Append(s, e)) = Len(s) + 1
      /\ Append(s, e)[Len(s) + 1] = e
      /\ \A k \in 1 .. Len(s) : Append(s, e)[k] = s[k]
  BY LenProperties, AppendProperties
<1> DEFINE n == Len(s)
           g == [k \in 0 .. n + 1 |-> IF k = n + 1 THEN Tell(w, e) ELSE f[k]]
<1> HIDE DEF n
<1>3. n \in Nat /\ n = Len(s)
  BY <1>2 DEF n
<1>4. g \in [0 .. n + 1 -> World]
  BY <1>1, <1>3, TellType DEF Leads
<1>5. g[0] = v /\ g[n + 1] = Tell(w, e) /\ g[n] = w
  BY <1>1, <1>3
<1>6. ASSUME NEW k \in 1 .. n + 1 PROVE g[k] = Tell(g[k - 1], Append(s, e)[k])
  <2>1. CASE k = n + 1
    BY <1>2, <1>3, <1>5, <2>1
  <2>2. CASE k # n + 1
    <3>1. k \in 1 .. n /\ g[k] = f[k] /\ g[k - 1] = f[k - 1]
      BY <1>3, <2>2
    <3> QED BY <1>1, <1>2, <1>3, <3>1 DEF Leads
  <2> QED BY <2>1, <2>2
<1> HIDE DEF g
<1>7. Leads(g, Append(s, e))
  BY <1>2, <1>3, <1>4, <1>6 DEF Leads
<1> QED BY <1>2, <1>3, <1>5, <1>7 DEF Told

\* A manager believes what it is told.
LEMMA ToldProcessed ==
    ASSUME NEW m \in Manager, NEW s \in Seq(Pushed), NEW w \in World, Told(s, Belief(m), w)
    PROVE  Belief(process_events(m, s)) = w
<1>1. PICK f : Leads(f, s) /\ f[0] = Belief(m) /\ f[Len(s)] = w
  BY DEF Told
<1> DEFINE n == Len(s)
           h == Processed(m, s)
<1>2. n \in Nat /\ \A k \in 1 .. n : s[k] \in Pushed
  BY LenProperties, ElementOfSeq
<1>3. \A k \in 1 .. n : f[k] = Tell(f[k - 1], s[k])
  BY <1>1 DEF Leads
<1>4. h \in [0 .. n -> Manager] /\ h[0] = m /\ \A k \in 1 .. n : h[k] = Handle(h[k - 1], s[k])
  BY ProcessedSteps
<1> HIDE DEF n, h
<1> DEFINE Agree == {k \in 0 .. n : Belief(h[k]) = f[k]}
<1>6. 0 \in Agree
  BY <1>1, <1>2, <1>4
<1>7. ASSUME NEW x \in Manager, NEW e \in Pushed
      PROVE  Belief(Handle(x, e)) = Tell(Belief(x), e)
  <2>1. CASE x.active /\ e \in KeyEvent
    BY <2>1 DEF KeyEvent, Belief, Handle, Tell, on_key_down, on_key_up, Manager
  <2>2. CASE x.active /\ e \in SizeEvent
    BY <2>2 DEF SizeEvent, Belief, Handle, Tell, Manager
  <2>3. CASE x.active /\ e \in FocusEvent
    BY <2>3 DEF FocusEvent, Belief, Handle, Tell, Manager
  <2>4. CASE ~ x.active
    BY <2>4 DEF Belief, Handle, Tell, Manager
  <2> QED BY <2>1, <2>2, <2>3, <2>4 DEF Pushed
<1>8. ASSUME NEW k \in 1 .. n, k - 1 \in Agree PROVE k \in Agree
  <2>1. h[k - 1] \in Manager /\ s[k] \in Pushed /\ k \in 0 .. n /\ Belief(h[k - 1]) = f[k - 1]
    BY <1>2, <1>4, <1>8
  <2>2. Belief(h[k]) = Tell(f[k - 1], s[k])
    BY <1>4, <1>7, <2>1
  <2> QED BY <1>3, <2>1, <2>2
<1> HIDE DEF Agree
<1>9. 0 .. n \subseteq Agree
  BY <1>2, <1>6, <1>8, UpTo
<1>10. Belief(h[n]) = f[n]
  BY <1>2, <1>9 DEF Agree
<1> QED BY <1>1, <1>10 DEF process_events, n, h
-----------------------------------------------------------------------------
\* The times and events that are stamped.
LEMMA Clocks ==
    ASSUME TypesInv
    PROVE  get_event_time_us \in Times /\ highp_time_us \in Times
<1>1. now \in Nat /\ Tick \in Nat \ {0} /\ now <= MaxTime /\ Tick <= now /\ MaxTime \in Nat
  BY InputAssumption DEF TypesInv, Times
<1>2. lag \in Nat /\ lag < Tick
  BY InputAssumption DEF TypesInv
<1>3. get_event_time_us \in Nat /\ get_event_time_us <= now
  BY <1>1, FloorMonotone DEF get_event_time_us
<1> QED BY <1>1, <1>2, <1>3 DEF Times, highp_time_us

LEMMA Stamped ==
    ASSUME TypesInv
    PROVE  /\ \A s \in Size : Message("window_size", s) \in SizeEvent
           /\ \A t \in {"key_down", "key_up"} : Message(t, get_event_time_us) \in KeyEvent
           /\ \A t \in {"activate", "deactivate"} : Message(t, 0) \in FocusEvent
BY Clocks DEF Message, SizeEvent, KeyEvent, FocusEvent

LEMMA PostType ==
    ASSUME TypesInv, NEW e \in KeyEvent, Post(e)
    PROVE  messages' \in Seq(KeyEvent) /\ Len(messages') <= MaxMessages
<1>1. Len(messages) \in Nat /\ Len(Append(messages, e)) = Len(messages) + 1
  BY LenProperties, AppendProperties DEF TypesInv
<1> QED BY <1>1, InputAssumption, AppendProperties DEF TypesInv, Post

LEMMA TellsAspect == \A e \in Pushed : Tells(e) \in Aspect
BY DEF Tells, Aspect, Pushed, KeyEvent, SizeEvent, FocusEvent

LEMMA PushType ==
    ASSUME TypesInv, NEW e \in Pushed, Push(e)
    PROVE  /\ collected' \in Seq(Pushed) /\ Len(collected') <= k_max_events
           /\ frame' = frame /\ missed' \subseteq Aspect
<1>1. Len(collected) \in Nat /\ Len(Append(collected, e)) = Len(collected) + 1
  BY LenProperties, AppendProperties DEF TypesInv
<1>2. missed' \subseteq Aspect
  BY TellsAspect DEF Push, TypesInv
<1>3. CASE queue!PushEvent(e)
  BY <1>1, <1>2, <1>3, InputAssumption, AppendProperties DEF TypesInv, queue!PushEvent
<1>4. CASE UNCHANGED <<collected, frame>>
  BY <1>2, <1>4 DEF TypesInv
<1> QED BY <1>3, <1>4 DEF Push

\* The rest of a frame.
LEMMA FrameBegins ==
    ASSUME TypesInv
    PROVE  /\ begin_frame(im, highp_time_us) \in Manager
           /\ Belief(begin_frame(im, highp_time_us)) = Belief(im)
BY Clocks, TimesNat DEF TypesInv, begin_frame, Manager, Belief

LEMMA FrameType ==
    ASSUME TypesInv, Frame
    PROVE  im' \in Manager
<1> DEFINE m == begin_frame(im, highp_time_us)
<1>1. m \in Manager /\ frame \in Seq(Pushed) /\ Len(frame) \in Nat
  BY FrameBegins, LenProperties DEF TypesInv
<1>2. im' = Processed(m, frame)[Len(frame)]
  BY DEF Frame, process_events
<1> HIDE DEF m
<1>3. Processed(m, frame) \in [0 .. Len(frame) -> Manager]
  BY <1>1, ProcessedSteps
<1> QED BY <1>1, <1>2, <1>3

LEMMA TypesStep == TypesInv /\ [Next]_vars => TypesInv'
<1> SUFFICES ASSUME TypesInv, [Next]_vars PROVE TypesInv'
  OBVIOUS
<1>1. CASE UNCHANGED vars
  BY <1>1 DEF vars, TypesInv
<1>2. CASE Pass
  <2>1. now' \in Times /\ now' >= Tick
    BY <1>2, InputAssumption DEF Pass, TypesInv, Times
  <2> QED BY <1>2, <2>1 DEF Pass, TypesInv
<1>3. ASSUME Change PROVE changes' \in 0 .. MaxChanges
  BY <1>3, InputAssumption DEF Change, TypesInv
<1>4. ASSUME NEW down \in BOOLEAN, Key(down) PROVE TypesInv'
  <2>1. changes' \in 0 .. MaxChanges
    BY <1>3, <1>4 DEF Key
  <2>2. missed' \subseteq Aspect
    BY <1>4 DEF Key, TypesInv, Aspect
  <2>3. CASE UNCHANGED messages
    BY <1>4, <2>1, <2>2, <2>3 DEF Key, TypesInv
  <2>4. CASE Post(Message(IF down THEN "key_down" ELSE "key_up", get_event_time_us))
    <3>1. messages' \in Seq(KeyEvent) /\ Len(messages') <= MaxMessages
      BY <2>4, Stamped, PostType
    <3> QED BY <1>4, <2>1, <2>2, <3>1 DEF Key, TypesInv
  <2> QED BY <1>4, <2>3, <2>4 DEF Key
<1>5. ASSUME NEW s \in Size, Resize(s) PROVE TypesInv'
  <2>1. changes' \in 0 .. MaxChanges /\ Push(Message("window_size", s))
    BY <1>3, <1>5 DEF Resize
  <2>2. /\ collected' \in Seq(Pushed) /\ Len(collected') <= k_max_events
        /\ frame' = frame /\ missed' \subseteq Aspect
    BY <2>1, Stamped, PushType DEF Pushed
  <2> QED BY <1>5, <2>1, <2>2 DEF Resize, TypesInv
<1>6. CASE Dispatch
  <2>1. /\ Head(messages) \in KeyEvent /\ Tail(messages) \in Seq(KeyEvent)
        /\ Len(Tail(messages)) <= Len(messages) /\ Len(Tail(messages)) \in Nat
        /\ Len(messages) \in Nat
    BY <1>6, HeadTailProperties, LenProperties DEF Dispatch, TypesInv
  <2>2. /\ collected' \in Seq(Pushed) /\ Len(collected') <= k_max_events
        /\ frame' = frame /\ missed' \subseteq Aspect
    BY <1>6, <2>1, PushType DEF Dispatch, Pushed
  <2>3. messages' \in Seq(KeyEvent) /\ Len(messages') <= MaxMessages
    BY <1>6, <2>1, InputAssumption DEF Dispatch, TypesInv
  <2> QED BY <1>6, <2>2, <2>3 DEF Dispatch, TypesInv
<1>7. CASE Focus
  <2>1. changes' \in 0 .. MaxChanges
    BY <1>3, <1>7 DEF Focus
  <2>2. Message(IF focused THEN "deactivate" ELSE "activate", 0) \in Pushed
    BY Stamped DEF Pushed
  <2>3. /\ collected' \in Seq(Pushed) /\ Len(collected') <= k_max_events
        /\ frame' = frame /\ missed' \subseteq Aspect
    BY <1>7, <2>2, PushType DEF Focus
  <2> QED BY <1>7, <2>1, <2>3 DEF Focus, TypesInv
<1>8. CASE Swap
  <2>1. <<>> \in Seq(Pushed) /\ Len(<<>>) <= k_max_events
    BY InputAssumption
  <2> QED BY <1>8, <2>1 DEF Swap, queue!NextFrame, TypesInv
<1>9. CASE Frame
  <2>1. <<>> \in Seq(Pushed) /\ Len(<<>>) <= k_max_events
    BY InputAssumption
  <2> QED BY <1>9, <2>1, FrameType DEF Frame, TypesInv
<1> QED BY <1>1, <1>2, <1>4, <1>5, <1>6, <1>7, <1>8, <1>9 DEF Next

LEMMA BeliefInit == Init => BeliefInv
<1> SUFFICES ASSUME Init PROVE BeliefInv
  OBVIOUS
<1>1. /\ Tick \in Times /\ 0 \in Times /\ Len(<<>>) = 0
      /\ 0 <= MaxMessages /\ 0 <= k_max_events /\ 0 \in 0 .. MaxChanges
      /\ 0 \in 0 .. WordSize - 1 /\ Tick >= Tick
  BY InputAssumption, TimesNat
<1>2. im \in Manager
  BY <1>1 DEF Init, Manager
<1>3. TypesInv
  <2>1. messages = <<>> /\ collected = <<>> /\ frame = <<>>
    BY DEF Init, queue!Init
  <2>2. /\ messages \in Seq(KeyEvent) /\ Len(messages) <= MaxMessages
        /\ collected \in Seq(Pushed) /\ Len(collected) <= k_max_events
        /\ frame \in Seq(Pushed) /\ Len(frame) <= k_max_events
    BY <1>1, <2>1
  <2>3. now \in Times /\ now >= Tick /\ changes \in 0 .. MaxChanges
    BY <1>1 DEF Init
  <2> QED BY <1>2, <2>1, <2>2, <2>3 DEF Init, TypesInv
<1>4. Belief(im) \in World /\ Agrees(Belief(im))
  BY DEF Init, Agrees, Belief, World
<1>5. messages = <<>> /\ collected = <<>> /\ frame = <<>>
  BY DEF Init, queue!Init
<1> QED BY <1>3, <1>4, <1>5, NothingTold DEF BeliefInv, TellsWorld, LastMessageAgrees

\* An event that is pushed tells its own thing, if it is heard, and nothing else.
LEMMA PushTells ==
    ASSUME TypesInv, NEW e \in Pushed, Push(e), NEW v \in World, NEW w \in World,
           Told(collected, v, w), "activation" \notin missed => w.active = focused
    PROVE  \E x \in World :
               /\ Told(collected', v, x)
               /\ "activation" \notin missed' =>
                      x.active = IF e \in FocusEvent THEN e.type = "activate" ELSE focused
               /\ "size" \notin missed' =>
                      IF e \in SizeEvent THEN x.size = e.value
                                         ELSE "size" \notin missed /\ x.size = w.size
               /\ "key" \notin missed' =>
                      IF e \in KeyEvent THEN x.held = Down(e)
                                        ELSE "key" \notin missed /\ x.held = w.held
<1>1. /\ e \in KeyEvent => /\ e \notin SizeEvent /\ e \notin FocusEvent /\ Tells(e) = "key"
                           /\ e.type \in {"key_down", "key_up"}
      /\ e \in SizeEvent => /\ e \notin FocusEvent /\ e \notin KeyEvent /\ Tells(e) = "size"
                            /\ e.type = "window_size"
      /\ e \in FocusEvent => /\ e \notin SizeEvent /\ e \notin KeyEvent /\ Tells(e) = "activation"
                             /\ e.type \in {"activate", "deactivate"}
      /\ e \in KeyEvent \/ e \in SizeEvent \/ e \in FocusEvent
  BY DEF Pushed, KeyEvent, SizeEvent, FocusEvent, Tells
<1>2. CASE UNCHANGED collected /\ missed' = missed \cup {Tells(e)}
  BY <1>1, <1>2
<1>3. CASE /\ collected' = Append(collected, e)
           /\ missed' = IF Heard(e) THEN missed \ {Tells(e)} ELSE missed \cup {Tells(e)}
  <2> DEFINE x == Tell(w, e)
  <2>1. collected \in Seq(Pushed)
    BY DEF TypesInv
  <2>2. Told(collected', v, x) /\ x \in World
    BY <1>3, <2>1, ToldAppended, TellType
  <2>3. CASE e \in FocusEvent
    <3>1. Heard(e) /\ missed' = missed \ {"activation"}
      BY <1>1, <1>3, <2>3 DEF Heard
    <3>2. x.active = (e.type = "activate") /\ x.size = w.size /\ x.held = w.held
      BY <1>1, <2>3 DEF Tell, World
    <3> HIDE DEF x
    <3> QED BY <1>1, <2>2, <2>3, <3>1, <3>2
  <2>4. CASE e \notin FocusEvent /\ Heard(e)
    <3>1. focused /\ "activation" \notin missed /\ w.active
      BY <1>1, <2>4 DEF Heard
    <3>2. missed' = missed \ {Tells(e)}
      BY <1>3, <2>4
    <3>3. CASE e \in KeyEvent
      <4>1. x.active = w.active /\ x.size = w.size /\ x.held = Down(e)
        BY <1>1, <3>1, <3>3 DEF Tell, World, Down
      <4> HIDE DEF x
      <4> QED BY <1>1, <2>2, <2>4, <3>1, <3>2, <3>3, <4>1
    <3>4. CASE e \in SizeEvent
      <4>1. x.active = w.active /\ x.size = e.value /\ x.held = w.held
        BY <1>1, <3>1, <3>4 DEF Tell, World, SizeEvent
      <4> HIDE DEF x
      <4> QED BY <1>1, <2>2, <2>4, <3>1, <3>2, <3>4, <4>1
    <3> QED BY <1>1, <2>4, <3>3, <3>4
  <2>5. CASE e \notin FocusEvent /\ ~ Heard(e)
    <3>1. missed' = missed \cup {Tells(e)}
      BY <1>3, <2>5
    <3>2. x.active = w.active
      BY <1>1, <2>5 DEF Tell, World
    <3>3. e \in KeyEvent => x.size = w.size
      BY <1>1 DEF Tell, World
    <3>4. e \in SizeEvent => x.held = w.held
      BY <1>1 DEF Tell, World
    <3> HIDE DEF x
    <3> QED BY <1>1, <2>2, <2>5, <3>1, <3>2, <3>3, <3>4
  <2> QED BY <2>3, <2>4, <2>5
<1> QED BY <1>2, <1>3 DEF Push, queue!PushEvent

\* No event is about what was not posted.
LEMMA PushKeepsUnposted ==
    ASSUME NEW e \in Pushed, Push(e)
    PROVE  "unposted" \in missed' <=> "unposted" \in missed
<1>1. Tells(e) # "unposted"
  BY DEF Pushed, KeyEvent, SizeEvent, FocusEvent, Tells
<1> QED BY <1>1 DEF Push

\* What waits leads from the manager to the world, whatever happens.
LEMMA BeliefStep == BeliefInv /\ [Next]_vars => BeliefInv'
<1> SUFFICES ASSUME TypesInv, TellsWorld, [Next]_vars PROVE TellsWorld'
  BY TypesStep DEF BeliefInv
<1>0. PICK v \in World, w \in World :
          Told(frame, Belief(im), v) /\ Told(collected, v, w) /\ Agrees(w)
  BY DEF TellsWorld
<1>1. CASE UNCHANGED <<key, focused, size, messages, collected, frame, im, missed>>
  BY <1>1 DEF TellsWorld, Agrees, LastMessageAgrees, Belief
<1>2. ASSUME NEW down \in BOOLEAN, Key(down) PROVE TellsWorld'
  <2> DEFINE e == Message(IF down THEN "key_down" ELSE "key_up", get_event_time_us)
  <2>1. key' = down /\ UNCHANGED <<focused, size, collected, frame, im>>
    BY <1>2 DEF Key
  <2>2. CASE Post(e) /\ missed' = missed \ {"unposted"}
    <3>1. e \in KeyEvent /\ Down(e) = down
      BY Stamped DEF Down, Message
    <3> HIDE DEF e
    <3>2. messages' = Append(messages, e)
      BY <2>2 DEF Post
    <3>3. messages'[Len(messages')] = e /\ messages' # <<>>
      <4>1. messages \in Seq(KeyEvent)
        BY DEF TypesInv
      <4>2. Len(messages') = Len(messages) + 1 /\ messages'[Len(messages) + 1] = e
        BY <3>1, <3>2, <4>1, AppendProperties
      <4>3. Len(messages) \in Nat
        BY <4>1, LenProperties
      <4> QED BY <4>2, <4>3
    <3>4. LastMessageAgrees'
      BY <2>1, <3>1, <3>3 DEF LastMessageAgrees
    <3>5. Agrees(w)'
      BY <1>0, <2>1, <2>2, <3>3 DEF Agrees
    <3> QED BY <1>0, <2>1, <3>4, <3>5 DEF TellsWorld
  <2>3. CASE missed' = missed \cup {"unposted"} /\ UNCHANGED messages
    <3>1. LastMessageAgrees' /\ Agrees(w)'
      BY <1>0, <2>1, <2>3 DEF LastMessageAgrees, Agrees
    <3> QED BY <1>0, <2>1, <3>1 DEF TellsWorld
  <2> QED BY <1>2, <2>2, <2>3 DEF Key
<1>3. ASSUME NEW s \in Size, Resize(s) PROVE TellsWorld'
  <2> DEFINE e == Message("window_size", s)
  <2>1. Push(e) /\ size' = s /\ UNCHANGED <<key, focused, messages, im>>
    BY <1>3 DEF Resize
  <2>2. e \in Pushed /\ e \in SizeEvent /\ e \notin FocusEvent /\ e \notin KeyEvent /\ e.value = s
    BY Stamped DEF Pushed, SizeEvent, FocusEvent, KeyEvent, Message
  <2> HIDE DEF e
  <2>3. PICK x \in World :
            /\ Told(collected', v, x)
            /\ "activation" \notin missed' => x.active = focused
            /\ "size" \notin missed' => x.size = s
            /\ "key" \notin missed' => "key" \notin missed /\ x.held = w.held
    <3>1. "activation" \notin missed => w.active = focused
      BY <1>0 DEF Agrees
    <3>2. PICK x \in World :
               /\ Told(collected', v, x)
               /\ "activation" \notin missed' =>
                      x.active = IF e \in FocusEvent THEN e.type = "activate" ELSE focused
               /\ "size" \notin missed' =>
                      IF e \in SizeEvent THEN x.size = e.value
                                         ELSE "size" \notin missed /\ x.size = w.size
               /\ "key" \notin missed' =>
                      IF e \in KeyEvent THEN x.held = Down(e)
                                        ELSE "key" \notin missed /\ x.held = w.held
      BY <1>0, <2>1, <2>2, <3>1, PushTells
    <3> QED BY <2>2, <3>2
  <2>4. "unposted" \in missed' <=> "unposted" \in missed
    BY <2>1, <2>2, PushKeepsUnposted
  <2>5. LastMessageAgrees' /\ Agrees(x)'
    BY <1>0, <2>1, <2>3, <2>4 DEF TellsWorld, LastMessageAgrees, Agrees
  <2>6. Told(frame, Belief(im), v)'
    BY <1>0, <2>1, <2>2, PushType
  <2> QED BY <2>3, <2>5, <2>6 DEF TellsWorld
<1>4. CASE Dispatch
  <2> DEFINE e == Head(messages)
  <2>1. /\ messages # <<>> /\ Push(e) /\ messages' = Tail(messages)
        /\ UNCHANGED <<key, focused, size, im>>
    BY <1>4 DEF Dispatch
  <2>2. messages \in Seq(KeyEvent)
    BY DEF TypesInv
  <2>3. /\ e \in KeyEvent /\ e = messages[1] /\ Len(messages) \in Nat \ {0}
        /\ Len(messages') = Len(messages) - 1
        /\ \A k \in 1 .. Len(messages) - 1 : messages'[k] = messages[k + 1]
        /\ messages' \in Seq(KeyEvent)
    BY <2>1, <2>2, HeadTailProperties, EmptySeq, LenProperties, ElementOfSeq
  <2>4. e \in Pushed /\ e \notin FocusEvent /\ e \notin SizeEvent
    BY <2>3 DEF Pushed, SizeEvent, FocusEvent, KeyEvent
  <2> HIDE DEF e
  <2>5. PICK x \in World :
            /\ Told(collected', v, x)
            /\ "activation" \notin missed' => x.active = focused
            /\ "size" \notin missed' => "size" \notin missed /\ x.size = w.size
            /\ "key" \notin missed' => x.held = Down(e)
    <3>1. "activation" \notin missed => w.active = focused
      BY <1>0 DEF Agrees
    <3>2. PICK x \in World :
               /\ Told(collected', v, x)
               /\ "activation" \notin missed' =>
                      x.active = IF e \in FocusEvent THEN e.type = "activate" ELSE focused
               /\ "size" \notin missed' =>
                      IF e \in SizeEvent THEN x.size = e.value
                                         ELSE "size" \notin missed /\ x.size = w.size
               /\ "key" \notin missed' =>
                      IF e \in KeyEvent THEN x.held = Down(e)
                                        ELSE "key" \notin missed /\ x.held = w.held
      BY <1>0, <2>1, <2>4, <3>1, PushTells
    <3> QED BY <2>3, <2>4, <3>2
  <2>6. "unposted" \in missed' <=> "unposted" \in missed
    BY <2>1, <2>4, PushKeepsUnposted
  <2>7. messages' = <<>> => messages[Len(messages)] = e
    <3> SUFFICES ASSUME messages' = <<>> PROVE messages[Len(messages)] = e
      OBVIOUS
    <3>1. Len(messages) = 1
      <4>1. Len(messages) - 1 = 0 /\ Len(messages) \in Nat
        BY <2>3
      <4> QED BY <4>1
    <3>2. messages[1] = e
      BY <2>3
    <3> QED BY <3>1, <3>2
  <2>8. messages' # <<>> => messages'[Len(messages')] = messages[Len(messages)]
    <3> SUFFICES ASSUME messages' # <<>> PROVE messages'[Len(messages')] = messages[Len(messages)]
      OBVIOUS
    <3>1. Len(messages) - 1 # 0
      BY <2>3, EmptySeq
    <3> QED BY <2>3, <3>1
  <2>9. "unposted" \notin missed => key = Down(messages[Len(messages)])
    BY <2>1 DEF TellsWorld, LastMessageAgrees
  <2>10. LastMessageAgrees'
    BY <2>1, <2>6, <2>8, <2>9 DEF LastMessageAgrees, Down
  <2>11. Agrees(x)'
    BY <1>0, <2>1, <2>5, <2>6, <2>7, <2>9 DEF Agrees
  <2>12. Told(frame, Belief(im), v)'
    BY <1>0, <2>1, <2>4, PushType
  <2> QED BY <2>5, <2>10, <2>11, <2>12 DEF TellsWorld
<1>5. CASE Focus
  <2> DEFINE e == Message(IF focused THEN "deactivate" ELSE "activate", 0)
  <2>1. Push(e) /\ focused' = ~ focused /\ UNCHANGED <<key, size, messages, im>>
    BY <1>5 DEF Focus
  <2>2. e \in FocusEvent /\ (e.type = "activate") = ~ focused
    BY Stamped DEF Message, TypesInv
  <2>3. e \in Pushed /\ e \notin SizeEvent /\ e \notin KeyEvent
    BY <2>2 DEF Pushed, SizeEvent, FocusEvent, KeyEvent
  <2> HIDE DEF e
  <2>4. PICK x \in World :
            /\ Told(collected', v, x)
            /\ "activation" \notin missed' => x.active = ~ focused
            /\ "size" \notin missed' => "size" \notin missed /\ x.size = w.size
            /\ "key" \notin missed' => "key" \notin missed /\ x.held = w.held
    <3>1. "activation" \notin missed => w.active = focused
      BY <1>0 DEF Agrees
    <3>2. PICK x \in World :
               /\ Told(collected', v, x)
               /\ "activation" \notin missed' =>
                      x.active = IF e \in FocusEvent THEN e.type = "activate" ELSE focused
               /\ "size" \notin missed' =>
                      IF e \in SizeEvent THEN x.size = e.value
                                         ELSE "size" \notin missed /\ x.size = w.size
               /\ "key" \notin missed' =>
                      IF e \in KeyEvent THEN x.held = Down(e)
                                        ELSE "key" \notin missed /\ x.held = w.held
      BY <1>0, <2>1, <2>3, <3>1, PushTells
    <3> QED BY <2>2, <2>3, <3>2
  <2>5. "unposted" \in missed' <=> "unposted" \in missed
    BY <2>1, <2>3, PushKeepsUnposted
  <2>6. LastMessageAgrees' /\ Agrees(x)'
    BY <1>0, <2>1, <2>4, <2>5 DEF TellsWorld, LastMessageAgrees, Agrees
  <2>7. Told(frame, Belief(im), v)'
    BY <1>0, <2>1, <2>3, PushType
  <2> QED BY <2>4, <2>6, <2>7 DEF TellsWorld
<1>6. CASE Swap
  <2>1. /\ frame = <<>> /\ frame' = collected /\ collected' = <<>>
        /\ UNCHANGED <<key, focused, size, messages, im, missed>>
    BY <1>6 DEF Swap, queue!NextFrame, TypesInv
  <2>2. v = Belief(im) /\ Belief(im)' = Belief(im)
    BY <1>0, <2>1, ToldNothing DEF Belief
  <2>3. Told(frame, Belief(im), w)' /\ Told(collected', w, w)
    BY <1>0, <2>1, <2>2, NothingTold
  <2>4. LastMessageAgrees' /\ Agrees(w)'
    BY <1>0, <2>1 DEF TellsWorld, LastMessageAgrees, Agrees
  <2> QED BY <2>3, <2>4 DEF TellsWorld
<1>7. CASE Frame
  <2> DEFINE m == begin_frame(im, highp_time_us)
  <2>1. /\ im' = process_events(m, frame) /\ frame' = <<>>
        /\ UNCHANGED <<key, focused, size, messages, collected, missed>>
    BY <1>7 DEF Frame
  <2>2. m \in Manager /\ Belief(m) = Belief(im) /\ frame \in Seq(Pushed)
    BY FrameBegins DEF TypesInv
  <2> HIDE DEF m
  <2>3. Belief(process_events(m, frame)) = v
    BY <1>0, <2>2, ToldProcessed
  <2>4. Belief(im)' = v
    BY <2>1, <2>3 DEF Belief
  <2>5. Told(frame, Belief(im), v)' /\ Told(collected', v, w)
    BY <1>0, <2>1, <2>4, NothingTold
  <2>6. LastMessageAgrees' /\ Agrees(w)'
    BY <1>0, <2>1 DEF TellsWorld, LastMessageAgrees, Agrees
  <2> QED BY <2>5, <2>6 DEF TellsWorld
<1> QED BY <1>1, <1>2, <1>3, <1>4, <1>5, <1>6, <1>7 DEF Next, Pass, vars
-----------------------------------------------------------------------------
LEMMA TypesImply == TypesInv => TypeOK
<1> SUFFICES ASSUME TypesInv PROVE TypeOK
  OBVIOUS
<1>1. Pushed \subseteq Event
  BY TimesNat DEF Pushed, KeyEvent, SizeEvent, FocusEvent, Event, Type
<1>2. Seq(Pushed) \subseteq Seq(Event) /\ Seq(KeyEvent) \subseteq Seq(Event)
  BY <1>1, SeqMonotonic DEF Pushed
<1> QED BY <1>2 DEF TypesInv, TypeOK

\* The queues stay within their sizes, and unsigned times within their words.
THEOREM InputTypeOK == Spec => []TypeOK
<1>1. BeliefInv => TypeOK
  BY TypesImply DEF BeliefInv
<1> QED BY <1>1, BeliefInit, BeliefStep, PTL DEF Spec

\* Once nothing waits, the manager agrees with the world in everything whose last change it was
\* told, for queues of any size and any order of activations, keys and sizes: an activation
\* that overtakes keys or was discarded does harm only until the next one is accepted.
THEOREM ManagerCaughtUp == Spec => []CaughtUp
<1>1. BeliefInv => CaughtUp
  <2> SUFFICES ASSUME BeliefInv, Quiet PROVE CaughtUp
    BY DEF CaughtUp
  <2>1. frame = <<>> /\ collected = <<>> /\ messages = <<>>
    BY DEF BeliefInv, TypesInv, Quiet
  <2>2. Agrees(Belief(im))
    BY <2>1, ToldNothing DEF BeliefInv, TellsWorld
  <2> QED BY <2>1, <2>2 DEF CaughtUp, Belief, Agrees
<1> QED BY <1>1, BeliefInit, BeliefStep, PTL DEF Spec
-----------------------------------------------------------------------------
\* The times at which the key went down and up are stamped in their order, which no queue
\* changes: an activation that overtakes them has no time.
IsKey(e) == e.type \in {"key_down", "key_up"}

InOrder(s) == \A j, k \in DOMAIN s :
                  j < k /\ IsKey(s[j]) /\ IsKey(s[k]) => s[j].value <= s[k].value

Before(s, t) == \A j \in DOMAIN s, k \in DOMAIN t :
                    IsKey(s[j]) /\ IsKey(t[k]) => s[j].value <= t[k].value

Between(a, s, b) == \A k \in DOMAIN s : IsKey(s[k]) => a <= s[k].value /\ s[k].value <= b

KeysInOrder == /\ InOrder(frame) /\ InOrder(collected) /\ InOrder(messages)
               /\ Before(frame, collected) /\ Before(frame, messages) /\ Before(collected, messages)
               /\ Between(im.press, frame, get_event_time_us)
               /\ Between(im.press, collected, get_event_time_us)
               /\ Between(im.press, messages, get_event_time_us)

FramesInOrder == /\ im.last <= im.current /\ im.current <= highp_time_us
                 /\ im.press <= get_event_time_us

HoldInv == TypesInv /\ KeysInOrder /\ FramesInOrder /\ HoldFitsFrame

LEMMA MessagesPushed == TypesInv => messages \in Seq(Pushed)
<1>1. KeyEvent \subseteq Pushed
  BY DEF Pushed
<1> QED BY <1>1, SeqMonotonic DEF TypesInv

LEMMA KeyValue == \A e \in Pushed : IsKey(e) => e \in KeyEvent /\ e.value \in Nat /\ e.value \in Times
BY TimesNat DEF Pushed, KeyEvent, SizeEvent, FocusEvent, IsKey

LEMMA Elements ==
    ASSUME NEW s \in Seq(Pushed)
    PROVE  Len(s) \in Nat /\ DOMAIN s = 1 .. Len(s) /\ \A k \in DOMAIN s : s[k] \in Pushed
BY LenProperties, ElementOfSeq

\* One event more, not earlier than the others, and one event less.
LEMMA Appended ==
    ASSUME NEW s \in Seq(Pushed), NEW e \in Pushed
    PROVE  /\ Append(s, e) \in Seq(Pushed)
           /\ DOMAIN Append(s, e) = 1 .. Len(s) + 1
           /\ \A k \in DOMAIN Append(s, e) :
                  \/ k \in DOMAIN s /\ Append(s, e)[k] = s[k]
                  \/ k = Len(s) + 1 /\ Append(s, e)[k] = e
<1>1. /\ Append(s, e) \in Seq(Pushed) /\ Len(Append(s, e)) = Len(s) + 1
      /\ Append(s, e)[Len(s) + 1] = e
      /\ \A k \in 1 .. Len(s) : Append(s, e)[k] = s[k]
  BY AppendProperties
<1>2. Len(s) \in Nat /\ DOMAIN s = 1 .. Len(s) /\ DOMAIN Append(s, e) = 1 .. Len(Append(s, e))
  BY <1>1, Elements
<1> QED BY <1>1, <1>2

LEMMA InOrderAppended ==
    ASSUME NEW s \in Seq(Pushed), NEW e \in Pushed, InOrder(s),
           \A k \in DOMAIN s : IsKey(s[k]) /\ IsKey(e) => s[k].value <= e.value
    PROVE  InOrder(Append(s, e))
<1> DEFINE t == Append(s, e)
<1> SUFFICES ASSUME NEW j \in DOMAIN t, NEW k \in DOMAIN t, j < k, IsKey(t[j]), IsKey(t[k])
             PROVE  t[j].value <= t[k].value
  BY DEF InOrder
<1>1. Len(s) \in Nat /\ DOMAIN s = 1 .. Len(s) /\ DOMAIN t = 1 .. Len(s) + 1
  BY Elements, Appended
<1>2. j \in DOMAIN s /\ t[j] = s[j]
  <2>1. j # Len(s) + 1
    BY <1>1
  <2> QED BY <2>1, Appended
<1>3. CASE k \in DOMAIN s /\ t[k] = s[k]
  BY <1>2, <1>3 DEF InOrder
<1>4. CASE t[k] = e
  BY <1>2, <1>4
<1> QED BY <1>3, <1>4, Appended

LEMMA BeforeAppended ==
    ASSUME NEW r \in Seq(Pushed), NEW s \in Seq(Pushed), NEW e \in Pushed
    PROVE  /\ (/\ Before(r, s)
               /\ \A j \in DOMAIN r : IsKey(r[j]) /\ IsKey(e) => r[j].value <= e.value)
              => Before(r, Append(s, e))
           /\ (/\ Before(s, r)
               /\ \A j \in DOMAIN r : IsKey(e) /\ IsKey(r[j]) => e.value <= r[j].value)
              => Before(Append(s, e), r)
BY Appended DEF Before

LEMMA BetweenAppended ==
    ASSUME NEW a, NEW b, NEW s \in Seq(Pushed), NEW e \in Pushed, Between(a, s, b),
           IsKey(e) => a <= e.value /\ e.value <= b
    PROVE  Between(a, Append(s, e), b)
BY Appended DEF Between

LEMMA Rest ==
    ASSUME NEW s \in Seq(Pushed), s # <<>>
    PROVE  /\ Head(s) \in Pushed /\ Tail(s) \in Seq(Pushed)
           /\ 1 \in DOMAIN s /\ Head(s) = s[1]
           /\ \A k \in DOMAIN Tail(s) : k + 1 \in DOMAIN s /\ Tail(s)[k] = s[k + 1] /\ k \in Nat \ {0}
<1>1. /\ Head(s) \in Pushed /\ Tail(s) \in Seq(Pushed) /\ Head(s) = s[1]
      /\ Len(s) \in Nat \ {0} /\ Len(Tail(s)) = Len(s) - 1
      /\ \A k \in 1 .. Len(s) - 1 : Tail(s)[k] = s[k + 1]
  BY HeadTailProperties, EmptySeq, LenProperties, ElementOfSeq
<1>2. DOMAIN s = 1 .. Len(s) /\ DOMAIN Tail(s) = 1 .. Len(s) - 1
  BY <1>1, Elements
<1> QED BY <1>1, <1>2

LEMMA OrderOfRest ==
    ASSUME NEW s \in Seq(Pushed), s # <<>>, InOrder(s)
    PROVE  /\ InOrder(Tail(s))
           /\ \A k \in DOMAIN Tail(s) : IsKey(Head(s)) /\ IsKey(Tail(s)[k]) => Head(s).value <= Tail(s)[k].value
<1>1. InOrder(Tail(s))
  <2> SUFFICES ASSUME NEW j \in DOMAIN Tail(s), NEW k \in DOMAIN Tail(s), j < k,
                      IsKey(Tail(s)[j]), IsKey(Tail(s)[k])
               PROVE  Tail(s)[j].value <= Tail(s)[k].value
    BY DEF InOrder
  <2>1. /\ j \in Nat /\ j + 1 \in DOMAIN s /\ Tail(s)[j] = s[j + 1]
        /\ k \in Nat /\ k + 1 \in DOMAIN s /\ Tail(s)[k] = s[k + 1]
    BY Rest
  <2>2. j + 1 < k + 1
    BY <2>1
  <2> QED BY <2>1, <2>2 DEF InOrder
<1>2. ASSUME NEW k \in DOMAIN Tail(s), IsKey(Head(s)), IsKey(Tail(s)[k])
      PROVE  Head(s).value <= Tail(s)[k].value
  <2>1. /\ 1 \in DOMAIN s /\ Head(s) = s[1]
        /\ k \in Nat \ {0} /\ k + 1 \in DOMAIN s /\ Tail(s)[k] = s[k + 1]
    BY Rest
  <2>2. 1 < k + 1
    BY <2>1
  <2> QED BY <1>2, <2>1, <2>2 DEF InOrder
<1> QED BY <1>1, <1>2
-----------------------------------------------------------------------------
\* The time a key was held up to the events handled so far fits between the frame's begin and
\* any time T that is not before them, cut off where the frame ends; unless the key was last
\* pressed after that, by the events' clock.
HeldUntil(x, T) == x.accumulated + x.last <= Later(IF x.held THEN x.press ELSE Earlier(T, x.current), x.last)

Fits(m, x, T) == /\ x.last = m.last /\ x.current = m.current
                 /\ x.press <= T
                 /\ x.press <= x.current => HeldUntil(x, T)

LEMMA KeyUpFits ==
    ASSUME NEW x \in Manager, NEW t \in Times, x.held, x.last <= x.current,
           x.press <= t, x.press <= x.current => HeldUntil(x, t)
    PROVE  LET y == on_key_up(x, t)
           IN  /\ y.press = x.press /\ ~ y.held /\ y.last = x.last /\ y.current = x.current
               /\ y.press <= y.current =>
                      y.accumulated + y.last <= Later(Earlier(t, y.current), y.last)
<1> DEFINE y == on_key_up(x, t)
<1>1. /\ x.last \in Nat /\ x.current \in Nat /\ x.press \in Nat /\ t \in Nat /\ x.accumulated \in Nat
      /\ x.current < WordSize /\ WordSize \in Nat \ {0}
  BY TimesNat, InputAssumption DEF Manager, Times
<1>2. /\ y.press = x.press /\ ~ y.held /\ y.last = x.last /\ y.current = x.current
      /\ y.accumulated = (x.accumulated + Duration(x, t)) % WordSize
  BY DEF on_key_up, Manager
<1>3. ASSUME x.press <= x.current
      PROVE  y.accumulated + y.last <= Later(Earlier(t, y.current), y.last)
  <2> DEFINE until == Earlier(t, x.current)
  <2>1. until \in Nat /\ x.press <= until /\ until <= x.current
    BY <1>1, <1>3 DEF Earlier
  <2>2. Duration(x, t) = IF x.press > x.last THEN until - x.press ELSE 0
    <3>1. until - x.press \in 0 .. WordSize - 1
      BY <1>1, <2>1
    <3> QED BY <1>1, <3>1 DEF Duration
  <2> HIDE DEF until
  <2>3. HeldUntil(x, t)
    BY <1>3
  <2>4. x.accumulated + Duration(x, t) + x.last <= Later(until, x.last)
    BY <1>1, <2>1, <2>2, <2>3 DEF HeldUntil, Later
  <2>5. x.accumulated + Duration(x, t) \in 0 .. WordSize - 1
    BY <1>1, <2>1, <2>2, <2>4 DEF Later
  <2>6. (x.accumulated + Duration(x, t)) % WordSize = x.accumulated + Duration(x, t)
    BY <1>1, <2>5
  <2> QED BY <1>2, <2>4, <2>6 DEF until
<1> QED BY <1>2, <1>3

\* An event fits if what went before it fits, up to the event and beyond.
LEMMA EventFits ==
    ASSUME NEW m \in Manager, NEW x \in Manager, NEW e \in Pushed, NEW T \in Times,
           m.last <= m.current, Fits(m, x, T),
           IsKey(e) => e.value <= T /\ Fits(m, x, e.value)
    PROVE  Fits(m, Handle(x, e), T)
<1> DEFINE y == Handle(x, e)
<1>1. /\ x.last \in Nat /\ x.current \in Nat /\ x.press \in Nat /\ T \in Nat /\ x.accumulated \in Nat
  BY InputAssumption DEF Manager, Times
<1>2. CASE /\ y.last = x.last /\ y.current = x.current /\ y.press = x.press
           /\ y.held = x.held /\ y.accumulated = x.accumulated
  BY <1>2 DEF Fits, HeldUntil
<1>3. CASE x.active /\ e.type = "key_down" /\ ~ x.held
  <2>1. e.value \in Nat /\ e.value <= T /\ Fits(m, x, e.value)
    BY <1>3, KeyValue DEF IsKey
  <2>2. y = [x EXCEPT !.held = TRUE, !.just_pressed = TRUE, !.press = e.value]
    BY <1>3 DEF Handle, on_key_down
  <2>3. /\ y.last = x.last /\ y.current = x.current /\ y.press = e.value
        /\ y.held /\ y.accumulated = x.accumulated
    BY <2>2 DEF Manager
  <2>4. y.press <= y.current => Earlier(e.value, x.current) = e.value /\ x.press <= x.current
    BY <1>1, <2>1, <2>3 DEF Fits, Earlier
  <2> HIDE DEF y
  <2> QED BY <1>3, <2>1, <2>3, <2>4 DEF Fits, HeldUntil, y
<1>4. CASE x.active /\ e.type = "key_up" /\ x.held
  <2>1. e.value \in Nat /\ e.value \in Times /\ e.value <= T /\ Fits(m, x, e.value)
    BY <1>4, KeyValue DEF IsKey
  <2>2. y = on_key_up(x, e.value)
    BY <1>4 DEF Handle
  <2>3. x.last <= x.current
    BY DEF Fits
  <2> HIDE DEF y
  <2>4. /\ y.press = x.press /\ ~ y.held /\ y.last = x.last /\ y.current = x.current
        /\ y.press <= y.current =>
               y.accumulated + y.last <= Later(Earlier(e.value, y.current), y.last)
    BY <1>4, <2>1, <2>2, <2>3, KeyUpFits DEF Fits
  <2>5. y.accumulated \in Nat
    <3>1. y \in Manager
      BY <2>2, <2>1, KeyUpType
    <3> QED BY <3>1, InputAssumption DEF Manager
  <2>6. /\ Later(Earlier(e.value, y.current), y.last) \in Nat
        /\ Later(Earlier(T, y.current), y.last) \in Nat
        /\ Later(Earlier(e.value, y.current), y.last) <= Later(Earlier(T, y.current), y.last)
    BY <1>1, <2>1, <2>4 DEF Later, Earlier
  <2>7. y.press <= y.current => y.accumulated + y.last <= Later(Earlier(T, y.current), y.last)
    BY <1>1, <2>4, <2>5, <2>6
  <2> QED BY <2>4, <2>7 DEF Fits, HeldUntil, y
<1>5. CASE ~ x.active
  BY <1>2, <1>5 DEF Handle, Manager
<1>6. CASE x.active /\ ~ IsKey(e)
  BY <1>2, <1>6 DEF Handle, Manager, IsKey, Pushed, KeyEvent, SizeEvent, FocusEvent
<1>7. CASE x.active /\ e.type = "key_down" /\ x.held
  BY <1>2, <1>7 DEF Handle, on_key_down
<1>8. CASE x.active /\ e.type = "key_up" /\ ~ x.held
  BY <1>2, <1>8 DEF Handle, on_key_up
<1> QED BY <1>3, <1>4, <1>5, <1>6, <1>7, <1>8 DEF IsKey

\* So a frame fits, up to any time that is not before its keys.
LEMMA ProcessedFits ==
    ASSUME NEW m \in Manager, NEW s \in Seq(Pushed), NEW T \in Times,
           m.accumulated = 0, m.last <= m.current, m.press <= T,
           InOrder(s), \A j \in DOMAIN s : IsKey(s[j]) => m.press <= s[j].value /\ s[j].value <= T
    PROVE  Fits(m, process_events(m, s), T)
<1> DEFINE n == Len(s)
           h == Processed(m, s)
           Fair(k) == {t \in Times : /\ m.press <= t
                                     /\ \A j \in 1 .. k : IsKey(s[j]) => s[j].value <= t}
<1>1. n \in Nat /\ DOMAIN s = 1 .. n /\ \A k \in 1 .. n : s[k] \in Pushed
  BY Elements
<1>2. h \in [0 .. n -> Manager] /\ h[0] = m /\ \A k \in 1 .. n : h[k] = Handle(h[k - 1], s[k])
  BY ProcessedSteps
<1>3. m.press \in Nat /\ m.last \in Nat /\ m.current \in Nat /\ T \in Nat
  BY TimesNat DEF Manager
<1> HIDE DEF h
<1> DEFINE Good == {k \in 0 .. n : \A t \in Fair(k) : Fits(m, h[k], t)}
<1>4. 0 \in Good
  <2>1. ASSUME NEW t \in Fair(0) PROVE Fits(m, h[0], t)
    <3>1. t \in Nat /\ m.press <= t
      BY TimesNat
    <3> QED BY <1>2, <1>3, <3>1 DEF Fits, HeldUntil, Later, Earlier
  <2> QED BY <1>1, <2>1
<1>5. ASSUME NEW k \in 1 .. n, k - 1 \in Good PROVE k \in Good
  <2> SUFFICES ASSUME NEW t \in Fair(k) PROVE Fits(m, h[k], t)
    BY <1>1
  <2>1. /\ k \in Nat /\ k - 1 \in 0 .. n /\ h[k - 1] \in Manager /\ s[k] \in Pushed
        /\ h[k] = Handle(h[k - 1], s[k])
    BY <1>1, <1>2
  <2>2. \A u \in Fair(k - 1) : Fits(m, h[k - 1], u)
    BY <1>5
  <2>3. t \in Times /\ t \in Fair(k - 1)
    BY <1>1
  <2>4. ASSUME IsKey(s[k]) PROVE s[k].value <= t /\ s[k].value \in Fair(k - 1)
    <3>1. s[k].value \in Times /\ s[k].value \in Nat /\ m.press <= s[k].value
      BY <1>1, <2>1, <2>4, KeyValue
    <3>2. s[k].value <= t
      BY <1>1, <2>4
    <3>3. t \in Nat
      BY TimesNat
    <3>5. ASSUME NEW j \in 1 .. k - 1, IsKey(s[j]) PROVE s[j].value <= s[k].value
      <4>1. j \in 1 .. n /\ j < k
        BY <1>1
      <4> QED BY <1>1, <2>4, <3>5, <4>1 DEF InOrder
    <3> QED BY <3>1, <3>2, <3>5
  <2>5. Fits(m, h[k - 1], t) /\ (IsKey(s[k]) => s[k].value <= t /\ Fits(m, h[k - 1], s[k].value))
    BY <2>2, <2>3, <2>4
  <2> HIDE DEF Fair
  <2> QED BY <2>1, <2>3, <2>5, EventFits
<1> HIDE DEF Good
<1>6. 0 .. n \subseteq Good
  BY <1>1, <1>4, <1>5, UpTo
<1>7. \A t \in Fair(n) : Fits(m, h[n], t)
  BY <1>1, <1>6 DEF Good
<1>8. T \in Fair(n)
  BY <1>1
<1> QED BY <1>7, <1>8 DEF process_events, h, n
-----------------------------------------------------------------------------
\* The inductive invariant, part by part: the ticks do not go back, an event is stamped with
\* the last one, and the frame's keys are no later than those that wait.
LEMMA TickOn ==
    ASSUME TypesInv, Pass
    PROVE  /\ get_event_time_us \in Nat /\ get_event_time_us' \in Nat
           /\ get_event_time_us <= get_event_time_us'
<1>1. now \in Nat /\ now' \in Nat /\ now <= now' /\ now' <= now' /\ Tick \in Nat \ {0}
  BY InputAssumption DEF Pass, TypesInv, Times
<1>2. now' - (now' % Tick) \in Nat
  BY <1>1, FloorMonotone
<1>3. now - (now % Tick) \in Nat /\ now - (now % Tick) <= now' - (now' % Tick)
  BY <1>1, FloorMonotone
<1> QED BY <1>2, <1>3 DEF get_event_time_us

LEMMA BetweenWider ==
    ASSUME NEW s \in Seq(Pushed), NEW a \in Nat, NEW b \in Nat, NEW c \in Nat, NEW d \in Nat,
           Between(a, s, b), c <= a, b <= d
    PROVE  Between(c, s, d)
<1> SUFFICES ASSUME NEW k \in DOMAIN s, IsKey(s[k]) PROVE c <= s[k].value /\ s[k].value <= d
  BY DEF Between
<1>1. s[k].value \in Nat /\ a <= s[k].value /\ s[k].value <= b
  BY Elements, KeyValue DEF Between
<1> QED BY <1>1

\* An event to collect that has no time, or none between those collected and those that wait.
LEMMA CollectOrdered ==
    ASSUME TypesInv, KeysInOrder, NEW e \in Pushed, Push(e), UNCHANGED <<now, im>>,
           NEW rest \in Seq(Pushed), messages' = rest,
           InOrder(rest), Before(frame, rest), Before(collected, rest),
           Between(im.press, rest, get_event_time_us),
           \A k \in DOMAIN rest : IsKey(e) /\ IsKey(rest[k]) => e.value <= rest[k].value,
           IsKey(e) => /\ im.press <= e.value /\ e.value <= get_event_time_us
                       /\ \A k \in DOMAIN frame : IsKey(frame[k]) => frame[k].value <= e.value
                       /\ \A k \in DOMAIN collected : IsKey(collected[k]) => collected[k].value <= e.value
    PROVE  KeysInOrder'
<1>1. frame \in Seq(Pushed) /\ collected \in Seq(Pushed)
  BY DEF TypesInv
<1>2. frame' = frame /\ get_event_time_us' = get_event_time_us /\ im' = im
  BY PushType DEF get_event_time_us
<1>3. CASE collected' = collected
  BY <1>2, <1>3 DEF KeysInOrder
<1>4. CASE collected' = Append(collected, e)
  <2>1. InOrder(Append(collected, e))
    BY <1>1, InOrderAppended DEF KeysInOrder
  <2>2. Before(frame, Append(collected, e)) /\ Before(Append(collected, e), rest)
    BY <1>1, BeforeAppended DEF KeysInOrder
  <2>3. Between(im.press, Append(collected, e), get_event_time_us)
    BY <1>1, BetweenAppended DEF KeysInOrder
  <2> QED BY <1>2, <1>4, <2>1, <2>2, <2>3 DEF KeysInOrder
<1> QED BY <1>3, <1>4 DEF Push, queue!PushEvent

LEMMA FrameFits ==
    ASSUME TypesInv, KeysInOrder, FramesInOrder, Frame
    PROVE  KeysInOrder' /\ FramesInOrder' /\ HoldFitsFrame'
<1> DEFINE m == begin_frame(im, highp_time_us)
           stamp == get_event_time_us
<1>1. /\ im' = process_events(m, frame) /\ frame' = <<>>
      /\ UNCHANGED <<now, lag, messages, collected>> /\ stamp' = stamp
  BY DEF Frame, get_event_time_us
<1>2. m \in Manager /\ frame \in Seq(Pushed) /\ collected \in Seq(Pushed) /\ messages \in Seq(Pushed)
  <2> QED BY FrameBegins, MessagesPushed DEF TypesInv
<1>3. /\ m.last = im.current /\ m.current = now - lag /\ m.press = im.press /\ m.accumulated = 0
  <2>1. im \in Manager
    BY DEF TypesInv
  <2> QED BY <2>1 DEF begin_frame, Manager, highp_time_us
<1>4. /\ now \in Nat /\ now \in Times /\ lag \in Nat /\ now - lag \in Times /\ now - lag \in Nat
      /\ stamp \in Nat /\ stamp \in Times /\ stamp <= now
      /\ im.press \in Nat /\ im.current \in Nat
  <2>1. now \in Nat /\ now \in Times /\ Tick \in Nat \ {0} /\ lag \in Nat
    BY InputAssumption DEF TypesInv, Times
  <2>2. stamp <= now
    BY <2>1, FloorMonotone DEF get_event_time_us
  <2>3. im.press \in Nat /\ im.current \in Nat
    BY TimesNat DEF TypesInv, Manager
  <2> QED BY <2>1, <2>2, <2>3, Clocks, TimesNat DEF highp_time_us
<1>5. im' \in Manager
  BY FrameType
<1> HIDE DEF m, stamp
<1>6. ASSUME NEW T \in Times, im.press <= T,
             \A j \in DOMAIN frame : IsKey(frame[j]) => frame[j].value <= T
      PROVE  Fits(m, im', T)
  <2>1. m.last <= m.current /\ m.press <= T
    BY <1>3, <1>6 DEF FramesInOrder, highp_time_us
  <2>2. \A j \in DOMAIN frame : IsKey(frame[j]) => m.press <= frame[j].value /\ frame[j].value <= T
    BY <1>3, <1>6 DEF KeysInOrder, Between
  <2>3. InOrder(frame)
    BY DEF KeysInOrder
  <2> QED BY <1>1, <1>2, <1>3, <2>1, <2>2, <2>3, ProcessedFits
<1>7. \A j \in DOMAIN frame : IsKey(frame[j]) => frame[j].value <= stamp /\ frame[j].value \in Nat
  BY <1>2, Elements, KeyValue DEF KeysInOrder, Between, stamp
<1>8. Fits(m, im', stamp)
  <2>1. im.press <= stamp
    BY DEF FramesInOrder, stamp
  <2> QED BY <1>4, <1>6, <1>7, <2>1
<1>9. Fits(m, im', now)
  <2>1. im.press <= now
    BY <1>4 DEF FramesInOrder, stamp
  <2>2. \A j \in DOMAIN frame : IsKey(frame[j]) => frame[j].value <= now
    BY <1>4, <1>7
  <2> QED BY <1>4, <1>6, <2>1, <2>2
<1>10. ASSUME NEW s \in Seq(Pushed), Before(frame, s), Between(im.press, s, stamp)
       PROVE  Between(im'.press, s, stamp)
  <2> SUFFICES ASSUME NEW k \in DOMAIN s, IsKey(s[k])
               PROVE  im'.press <= s[k].value /\ s[k].value <= stamp
    BY DEF Between
  <2>1. s[k].value \in Times /\ s[k].value \in Nat
    BY Elements, KeyValue
  <2>2. im.press <= s[k].value /\ s[k].value <= stamp
    BY <1>10 DEF Between
  <2>3. \A j \in DOMAIN frame : IsKey(frame[j]) => frame[j].value <= s[k].value
    BY <1>10 DEF Before
  <2>5. Fits(m, im', s[k].value)
    BY <1>6, <2>1, <2>2, <2>3
  <2> QED BY <2>2, <2>5 DEF Fits
<1>11. KeysInOrder'
  <2>1. DOMAIN frame' = {}
    BY <1>1
  <2>2. InOrder(frame') /\ Before(frame', collected) /\ Before(frame', messages)
        /\ Between(im'.press, frame', stamp)
    BY <2>1 DEF InOrder, Before, Between
  <2>3. Between(im'.press, collected, stamp) /\ Between(im'.press, messages, stamp)
    BY <1>2, <1>10 DEF KeysInOrder, stamp
  <2>4. InOrder(collected) /\ InOrder(messages) /\ Before(collected, messages)
    BY DEF KeysInOrder
  <2>5. InOrder(frame)' /\ InOrder(collected)' /\ InOrder(messages)'
    BY <1>1, <2>2, <2>4
  <2>6. Before(frame, collected)' /\ Before(frame, messages)' /\ Before(collected, messages)'
    BY <1>1, <2>2, <2>4
  <2>7. Between(im.press, frame, stamp)' /\ Between(im.press, collected, stamp)'
        /\ Between(im.press, messages, stamp)'
    BY <1>1, <2>2, <2>3
  <2> QED BY <2>5, <2>6, <2>7 DEF KeysInOrder, stamp
<1>12. FramesInOrder'
  <2>1. im'.last = im.current /\ im'.current = now - lag /\ im'.press <= stamp
    BY <1>3, <1>8 DEF Fits
  <2>2. stamp' = stamp /\ highp_time_us' = now - lag
    BY <1>1 DEF highp_time_us
  <2>3. im.current <= now - lag /\ now - lag <= now - lag
    BY <1>4 DEF FramesInOrder, highp_time_us
  <2> QED BY <2>1, <2>2, <2>3 DEF FramesInOrder, stamp
<1>13. HoldFitsFrame'
  <2> DEFINE since == Later(im'.press, im'.last)
             time == im'.accumulated + IF im'.held THEN im'.current - since ELSE 0
  <2>1. /\ im'.last = im.current /\ im'.current = now - lag /\ im'.press <= now
        /\ im'.press <= im'.current => HeldUntil(im', now)
    BY <1>3, <1>9 DEF Fits
  <2>2. im.current <= now - lag
    BY DEF FramesInOrder, highp_time_us
  <2>3. im'.press \in Nat /\ im'.accumulated \in Nat /\ WordSize \in Nat /\ now < WordSize
    BY <1>4, <1>5, InputAssumption DEF Manager, Times
  <2>4. ASSUME im'.press <= im'.current
        PROVE  time \in Nat /\ time <= im'.current - im'.last
    <3>1. Earlier(now, im'.current) = im'.current
      BY <1>4, <2>1 DEF Earlier
    <3>2. CASE im'.held
      BY <1>4, <2>1, <2>2, <2>3, <2>4, <3>1, <3>2 DEF HeldUntil, Later
    <3>3. CASE ~ im'.held
      BY <1>4, <2>1, <2>2, <2>3, <2>4, <3>1, <3>3 DEF HeldUntil, Later
    <3> QED BY <3>2, <3>3
  <2>5. HoldTime' = time % WordSize
    BY DEF HoldTime, time
  <2> HIDE DEF time
  <2>6. CASE im'.press <= im'.current
    <3>1. time \in Nat /\ time <= im'.current - im'.last /\ time < WordSize
      BY <1>4, <2>1, <2>3, <2>4, <2>6
    <3>2. time % WordSize = time
      BY <2>3, <3>1
    <3> QED BY <2>5, <3>1, <3>2 DEF HoldFitsFrame
  <2>7. CASE ~ (im'.press <= im'.current)
    <3>1. im'.press > im'.current /\ im'.press <= im'.current + lag
      BY <1>4, <2>1, <2>3, <2>7
    <3> QED BY <1>1, <3>1 DEF HoldFitsFrame
  <2> QED BY <2>6, <2>7
<1> QED BY <1>11, <1>12, <1>13

LEMMA KeysStep == HoldInv /\ [Next]_vars => KeysInOrder'
<1> SUFFICES ASSUME TypesInv, KeysInOrder, FramesInOrder, [Next]_vars PROVE KeysInOrder'
  BY DEF HoldInv
<1> DEFINE stamp == get_event_time_us
<1>1. /\ frame \in Seq(Pushed) /\ collected \in Seq(Pushed) /\ messages \in Seq(Pushed)
      /\ im.press \in Nat /\ stamp \in Nat /\ stamp \in Times
  <2>1. frame \in Seq(Pushed) /\ collected \in Seq(Pushed) /\ messages \in Seq(Pushed)
    BY MessagesPushed DEF TypesInv
  <2>2. im.press \in Nat
    BY TimesNat DEF TypesInv, Manager
  <2> QED BY <2>1, <2>2, Clocks, TimesNat
<1>2. CASE UNCHANGED <<messages, collected, frame, im, now>>
  BY <1>2 DEF KeysInOrder, get_event_time_us
<1>3. CASE Pass
  <2>1. stamp' \in Nat /\ stamp <= stamp'
    BY <1>3, TickOn
  <2>2. UNCHANGED <<messages, collected, frame, im>>
    BY <1>3 DEF Pass
  <2> HIDE DEF stamp
  <2>3. /\ Between(im.press, frame, stamp') /\ Between(im.press, collected, stamp')
        /\ Between(im.press, messages, stamp')
    <3>1. /\ Between(im.press, frame, stamp) /\ Between(im.press, collected, stamp)
          /\ Between(im.press, messages, stamp)
      BY DEF KeysInOrder, stamp
    <3> QED BY <1>1, <2>1, <3>1, BetweenWider
  <2> QED BY <2>2, <2>3 DEF KeysInOrder, stamp
<1>4. ASSUME NEW e \in KeyEvent, Post(e), UNCHANGED <<collected, frame, im, now>>,
             IsKey(e) => e.value = stamp
      PROVE  KeysInOrder'
  <2>1. e \in Pushed /\ messages' = Append(messages, e) /\ stamp' = stamp
    BY <1>4 DEF Post, Pushed, get_event_time_us
  <2>2. im.press <= stamp
    BY DEF FramesInOrder
  <2>3. InOrder(messages')
    <3>1. \A k \in DOMAIN messages : IsKey(messages[k]) /\ IsKey(e) => messages[k].value <= e.value
      BY <1>4 DEF KeysInOrder, Between
    <3> QED BY <1>1, <2>1, <3>1, InOrderAppended DEF KeysInOrder
  <2>4. Before(frame, messages')
    <3>1. \A k \in DOMAIN frame : IsKey(frame[k]) /\ IsKey(e) => frame[k].value <= e.value
      BY <1>4 DEF KeysInOrder, Between
    <3> QED BY <1>1, <2>1, <3>1, BeforeAppended DEF KeysInOrder
  <2>5. Before(collected, messages')
    <3>1. \A k \in DOMAIN collected : IsKey(collected[k]) /\ IsKey(e) => collected[k].value <= e.value
      BY <1>4 DEF KeysInOrder, Between
    <3> QED BY <1>1, <2>1, <3>1, BeforeAppended DEF KeysInOrder
  <2>6. Between(im.press, messages', stamp)
    <3>1. IsKey(e) => im.press <= e.value /\ e.value <= stamp
      BY <1>1, <1>4, <2>2
    <3> QED BY <1>1, <2>1, <3>1, BetweenAppended DEF KeysInOrder
  <2> QED BY <1>4, <2>1, <2>3, <2>4, <2>5, <2>6 DEF KeysInOrder
<1>5. ASSUME NEW down \in BOOLEAN, Key(down) PROVE KeysInOrder'
  <2> DEFINE e == Message(IF down THEN "key_down" ELSE "key_up", stamp)
  <2>1. e \in KeyEvent /\ e.value = stamp /\ UNCHANGED <<now, collected, frame, im>>
    BY <1>5, Stamped DEF Key, Message
  <2>2. Post(e) \/ UNCHANGED messages
    BY <1>5 DEF Key
  <2> HIDE DEF e
  <2> QED BY <1>2, <1>4, <2>1, <2>2
<1>6. ASSUME NEW s \in Size, Resize(s) PROVE KeysInOrder'
  <2> DEFINE e == Message("window_size", s)
  <2>1. /\ e \in Pushed /\ ~ IsKey(e) /\ Push(e) /\ UNCHANGED <<now, messages, im>>
    BY <1>6, Stamped DEF Resize, Pushed, Message, IsKey
  <2> HIDE DEF e
  <2>2. /\ InOrder(messages) /\ Before(frame, messages) /\ Before(collected, messages)
        /\ Between(im.press, messages, get_event_time_us)
    BY DEF KeysInOrder
  <2> QED BY <1>1, <2>1, <2>2, CollectOrdered
<1>7. CASE Dispatch
  <2> DEFINE e == Head(messages)
             rest == Tail(messages)
  <2>1. messages # <<>> /\ Push(e) /\ messages' = rest /\ UNCHANGED <<now, im>>
    BY <1>7 DEF Dispatch
  <2>2. /\ e \in Pushed /\ rest \in Seq(Pushed) /\ 1 \in DOMAIN messages /\ e = messages[1]
        /\ \A k \in DOMAIN rest : k + 1 \in DOMAIN messages /\ rest[k] = messages[k + 1]
    BY <1>1, <2>1, Rest
  <2>3. /\ InOrder(rest)
        /\ \A k \in DOMAIN rest : IsKey(e) /\ IsKey(rest[k]) => e.value <= rest[k].value
    BY <1>1, <2>1, OrderOfRest DEF KeysInOrder
  <2> HIDE DEF e, rest
  <2>4. Before(frame, rest) /\ Before(collected, rest) /\ Between(im.press, rest, stamp)
    BY <2>2 DEF KeysInOrder, Before, Between
  <2>5. IsKey(e) => /\ im.press <= e.value /\ e.value <= stamp
                    /\ \A k \in DOMAIN frame : IsKey(frame[k]) => frame[k].value <= e.value
                    /\ \A k \in DOMAIN collected : IsKey(collected[k]) => collected[k].value <= e.value
    BY <2>2 DEF KeysInOrder, Before, Between
  <2> QED BY <2>1, <2>2, <2>3, <2>4, <2>5, CollectOrdered
<1>8. CASE Focus
  <2> DEFINE e == Message(IF focused THEN "deactivate" ELSE "activate", 0)
  <2>1. /\ e \in Pushed /\ ~ IsKey(e) /\ Push(e) /\ UNCHANGED <<now, messages, im>>
    BY <1>8, Stamped DEF Focus, Pushed, Message, IsKey
  <2> HIDE DEF e
  <2>2. /\ InOrder(messages) /\ Before(frame, messages) /\ Before(collected, messages)
        /\ Between(im.press, messages, get_event_time_us)
    BY DEF KeysInOrder
  <2> QED BY <1>1, <2>1, <2>2, CollectOrdered
<1>9. CASE Swap
  <2>1. frame' = collected /\ collected' = <<>> /\ UNCHANGED <<messages, im, now>>
    BY <1>9 DEF Swap, queue!NextFrame
  <2>2. DOMAIN collected' = {}
    BY <2>1
  <2> QED BY <2>1, <2>2 DEF KeysInOrder, InOrder, Before, Between, get_event_time_us
<1>10. CASE Frame
  <2> QED BY <1>10, FrameFits DEF HoldInv
<1> QED BY <1>2, <1>3, <1>5, <1>6, <1>7, <1>8, <1>9, <1>10 DEF Next, vars

LEMMA HoldInit == Init => HoldInv
<1> SUFFICES ASSUME Init PROVE HoldInv
  OBVIOUS
<1>1. TypesInv
  BY BeliefInit DEF BeliefInv
<1>2. KeysInOrder
  <2>1. messages = <<>> /\ collected = <<>> /\ frame = <<>>
    BY DEF Init, queue!Init
  <2>2. DOMAIN messages = {} /\ DOMAIN collected = {} /\ DOMAIN frame = {}
    BY <2>1
  <2> QED BY <2>2 DEF KeysInOrder, InOrder, Before, Between
<1>3. im.press = 0 /\ im.last = 0 /\ im.current = 0 /\ im.accumulated = 0 /\ ~ im.held
  BY DEF Init
<1>4. FramesInOrder
  <2>1. highp_time_us \in Nat /\ get_event_time_us \in Nat
    BY <1>1, Clocks, TimesNat
  <2> QED BY <1>3, <2>1 DEF FramesInOrder
<1>5. HoldFitsFrame
  BY <1>3, TimesNat DEF HoldFitsFrame, HoldTime, Later
<1> QED BY <1>1, <1>2, <1>4, <1>5 DEF HoldInv

LEMMA HoldStep == HoldInv /\ [Next]_vars => HoldInv'
<1> SUFFICES ASSUME HoldInv, [Next]_vars PROVE HoldInv'
  OBVIOUS
<1>1. TypesInv' /\ KeysInOrder'
  BY TypesStep, KeysStep DEF HoldInv
<1>2. lag' = lag
  BY DEF Next, vars, Pass, Key, Resize, Dispatch, Focus, Swap, Frame
<1>3. CASE Frame
  BY <1>1, <1>3, FrameFits DEF HoldInv
<1>4. CASE UNCHANGED <<im, now>>
  BY <1>1, <1>2, <1>4 DEF HoldInv, FramesInOrder, HoldFitsFrame, HoldTime, get_event_time_us, highp_time_us
<1>5. CASE Pass
  <2>1. /\ now \in Nat /\ now' \in Nat /\ now <= now' /\ lag \in Nat
        /\ im.current \in Nat /\ im.press \in Nat
        /\ get_event_time_us \in Nat /\ get_event_time_us' \in Nat
        /\ get_event_time_us <= get_event_time_us'
    <3>1. TypesInv
      BY DEF HoldInv
    <3>2. now \in Nat /\ now' \in Nat /\ now <= now' /\ lag \in Nat
      BY <1>5, <3>1, TimesNat, InputAssumption DEF TypesInv, Pass
    <3>3. im.current \in Nat /\ im.press \in Nat
      BY <3>1, TimesNat DEF TypesInv, Manager
    <3> QED BY <1>5, <3>1, <3>2, <3>3, TickOn
  <2>2. UNCHANGED im
    BY <1>5 DEF Pass
  <2>3. FramesInOrder'
    BY <1>2, <2>1, <2>2 DEF HoldInv, FramesInOrder, highp_time_us
  <2> QED BY <1>1, <1>2, <2>2, <2>3 DEF HoldInv, HoldFitsFrame, HoldTime
<1> QED BY <1>3, <1>4, <1>5 DEF Next, vars, Key, Resize, Dispatch, Focus, Swap

\* Whatever the lag between the clocks, no key is held longer than the frame, unless its press
\* is stamped ahead of the frame, and then by no more than the lag: elsewhere the unsigned
\* differences of on_key_up and get_hold_factor do not wrap.
THEOREM HoldFits == Spec => []HoldFitsFrame
<1>1. Init => HoldInv
  BY HoldInit
<1>2. HoldInv => HoldFitsFrame
  BY DEF HoldInv
<1> QED BY <1>1, <1>2, HoldStep, PTL DEF Spec
=============================================================================
