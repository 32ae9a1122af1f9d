------------------------ MODULE ResourceManagerProofs ------------------------
(***************************************************************************)
(* The resource manager and its two parts, for any names, addresses,       *)
(* lengths of the queue, staging buffers, alignments and uploads.          *)
(*                                                                         *)
(* The registry: counts are exact, no reference that is held or queued     *)
(* dangles, and what is ready stays so.  The equation of RefCountExact is  *)
(* about the whole queue.  What keeps an entry alive until its last        *)
(* transition is about each prefix of it: the count that sync will have    *)
(* reached after the prefix is not zero while there is more to come.       *)
(*                                                                         *)
(* The upload context: a byte of the staging memory is not written again   *)
(* before the GPU has executed the copy that reads it, and uploads land in *)
(* order, each with its own bytes.  The invariant follows the fence: while *)
(* the context waits, the fence is the last command, and once it is        *)
(* signaled there is no command left.                                      *)
(*                                                                         *)
(* The manager uses both as they expect: every step of it is a step of the *)
(* part or leaves it alone, so what is proved of the parts holds in it,    *)
(* whatever loads, releases and frames it goes through.                    *)
(***************************************************************************)
EXTENDS ResourceManager, FiniteSetTheorems, SequenceTheorems, TLAPS

Queue == m_pending_transitions

AnyEntry == [hash : Name, rc : Nat, status : Status, own : BOOLEAN]

RegTypes == /\ m_resources \in [Name -> Address \cup {Nowhere}]
            /\ entries \in [Address -> AnyEntry \cup {Freed}]
            /\ Queue \in Seq(Transition)
            /\ Len(Queue) <= MaxPending
            /\ syncing \in BOOLEAN
            /\ syncing => Queue # <<>>
            /\ holders \in [Address -> 0 .. MaxHolders]
            /\ unpublished \subseteq Address

\* Names and entries point at each other.
Lookup == /\ \A a \in Address : Alive(a) => m_resources[entries[a].hash] = a
          /\ \A n \in Name : m_resources[n] # Nowhere =>
                 Alive(m_resources[n]) /\ entries[m_resources[n]].hash = n

\* The first half of RefCountExact.
Balance == \A a \in Address : Alive(a) =>
               entries[a].rc + Cardinality(Queued(a, "acquire"))
                   = holders[a] + Cardinality(Queued(a, "release"))

\* Nobody refers to an address without an entry.
DeadUnused == \A a \in Address : ~ Alive(a) =>
                  /\ holders[a] = 0
                  /\ a \notin unpublished
                  /\ \A k \in DOMAIN Queue : Queue[k].ref # a

\* The count of an entry after each prefix of the queue.
After(t, a, n) == CASE t = [ref |-> a, kind |-> "acquire"] -> n + 1
                    [] t = [ref |-> a, kind |-> "release"] -> n - 1
                    [] OTHER -> n

Counts(net, a) ==
    /\ net \in [0 .. Len(Queue) -> Nat]
    /\ net[0] = entries[a].rc
    /\ net[Len(Queue)] = holders[a]
    /\ \A k \in 1 .. Len(Queue) : net[k] = After(Queue[k], a, net[k - 1])
    /\ \A j \in 0 .. Len(Queue) : net[j] = 0 =>
           holders[a] = 0 /\ \A k \in j + 1 .. Len(Queue) : Queue[k].ref # a

CountedToTheEnd == \A a \in Address : Alive(a) => \E net : Counts(net, a)

UnpublishedHeld == \A a \in unpublished : holders[a] > 0

Answers == {"set_ready", "set_failed"}

\* A slot is answered once.
AnsweredOnce ==
    /\ \A j, k \in DOMAIN Queue :
           Queue[j].ref = Queue[k].ref /\ Queue[j].kind \in Answers /\ Queue[k].kind \in Answers
               => j = k
    /\ \A k \in DOMAIN Queue : Queue[k].kind \in Answers =>
           Queue[k].ref \notin unpublished /\ entries[Queue[k].ref].status = "unloaded"
    /\ \A a \in Address : Alive(a) =>
           /\ a \in unpublished => entries[a].status = "unloaded"
           /\ entries[a].status = "ready" => entries[a].own

RegInv == /\ RegTypes
          /\ Lookup
          /\ Balance
          /\ DeadUnused
          /\ CountedToTheEnd
          /\ UnpublishedHeld
          /\ AnsweredOnce
-----------------------------------------------------------------------------
Occurrences(s, t) == {k \in DOMAIN s : s[k] = t}

\* A sequence with one element more, or without its first.
LEMMA QueueAppended ==
    ASSUME NEW S, NEW s \in Seq(S), NEW e \in S
    PROVE  /\ Append(s, e) \in Seq(S)
           /\ Len(s) \in Nat
           /\ Len(Append(s, e)) = Len(s) + 1
           /\ DOMAIN s = 1 .. Len(s) /\ DOMAIN Append(s, e) = 1 .. Len(s) + 1
           /\ \A k \in 1 .. Len(s) : Append(s, e)[k] = s[k]
           /\ Append(s, e)[Len(s) + 1] = e
BY AppendProperties

LEMMA QueueTail ==
    ASSUME NEW S, NEW s \in Seq(S), s # <<>>
    PROVE  /\ Tail(s) \in Seq(S)
           /\ Len(s) \in Nat \ {0}
           /\ Len(Tail(s)) = Len(s) - 1
           /\ DOMAIN s = 1 .. Len(s) /\ DOMAIN Tail(s) = 1 .. Len(s) - 1
           /\ \A k \in 1 .. Len(s) - 1 : Tail(s)[k] = s[k + 1]
           /\ Head(s) = s[1] /\ Head(s) \in S
BY HeadTailProperties

\* How often an element occurs.
LEMMA CountType ==
    ASSUME NEW S, NEW s \in Seq(S), NEW t
    PROVE  /\ IsFiniteSet(Occurrences(s, t))
           /\ Cardinality(Occurrences(s, t)) \in Nat
           /\ Cardinality(Occurrences(s, t)) <= Len(s)
           /\ Cardinality(Occurrences(s, t)) = 0 <=> Occurrences(s, t) = {}
<1>1. Occurrences(s, t) \in SUBSET (1 .. Len(s)) /\ Len(s) \in Nat
  BY DEF Occurrences
<1>2. IsFiniteSet(1 .. Len(s)) /\ Cardinality(1 .. Len(s)) = Len(s)
  <2>1. 1 \in Int /\ Len(s) \in Int /\ (IF 1 > Len(s) THEN 0 ELSE Len(s) - 1 + 1) = Len(s)
    BY <1>1
  <2>2. /\ IsFiniteSet(1 .. Len(s))
        /\ Cardinality(1 .. Len(s)) = IF 1 > Len(s) THEN 0 ELSE Len(s) - 1 + 1
    BY <2>1, FS_Interval
  <2> QED BY <2>1, <2>2
<1>3. IsFiniteSet(Occurrences(s, t)) /\ Cardinality(Occurrences(s, t)) <= Len(s)
  BY <1>1, <1>2, FS_Subset
<1> QED BY <1>3, FS_CardinalityType, FS_EmptySet

LEMMA CountAppended ==
    ASSUME NEW S, NEW s \in Seq(S), NEW e \in S, NEW t
    PROVE  Cardinality(Occurrences(Append(s, e), t))
               = Cardinality(Occurrences(s, t)) + (IF e = t THEN 1 ELSE 0)
<1>1. /\ Len(s) \in Nat
      /\ DOMAIN s = 1 .. Len(s) /\ DOMAIN Append(s, e) = 1 .. Len(s) + 1
      /\ \A k \in 1 .. Len(s) : Append(s, e)[k] = s[k]
      /\ Append(s, e)[Len(s) + 1] = e
  BY QueueAppended
<1>2. IsFiniteSet(Occurrences(s, t)) /\ Cardinality(Occurrences(s, t)) \in Nat
  BY CountType
<1>3. CASE e = t
  <2>1. Occurrences(Append(s, e), t) = Occurrences(s, t) \cup {Len(s) + 1}
    BY <1>1, <1>3 DEF Occurrences
  <2>2. Len(s) + 1 \notin Occurrences(s, t)
    BY <1>1 DEF Occurrences
  <2> QED BY <1>2, <1>3, <2>1, <2>2, FS_AddElement
<1>4. CASE e # t
  <2>1. Occurrences(Append(s, e), t) = Occurrences(s, t)
    BY <1>1, <1>4 DEF Occurrences
  <2> QED BY <1>2, <1>4, <2>1
<1> QED BY <1>3, <1>4

LEMMA CountTail ==
    ASSUME NEW S, NEW s \in Seq(S), s # <<>>, NEW t
    PROVE  Cardinality(Occurrences(s, t))
               = Cardinality(Occurrences(Tail(s), t)) + (IF Head(s) = t THEN 1 ELSE 0)
<1> DEFINE rest == Occurrences(s, t) \ {1}
           shift == [k \in rest |-> k - 1]
<1>1. /\ Tail(s) \in Seq(S)
      /\ Len(s) \in Nat \ {0}
      /\ DOMAIN s = 1 .. Len(s) /\ DOMAIN Tail(s) = 1 .. Len(s) - 1
      /\ \A k \in 1 .. Len(s) - 1 : Tail(s)[k] = s[k + 1]
      /\ Head(s) = s[1]
  BY QueueTail
<1>2. IsFiniteSet(Occurrences(s, t)) /\ Cardinality(Occurrences(s, t)) \in Nat
  BY CountType
<1>3. IsFiniteSet(rest)
      /\ Cardinality(rest) = IF 1 \in Occurrences(s, t) THEN Cardinality(Occurrences(s, t)) - 1
                                                        ELSE Cardinality(Occurrences(s, t))
  BY <1>2, FS_RemoveElement
<1>4. 1 \in Occurrences(s, t) <=> Head(s) = t
  BY <1>1 DEF Occurrences
<1>5. \A k \in rest : k \in 2 .. Len(s) /\ s[k] = t
  BY <1>1 DEF Occurrences
<1>6. \A k \in rest : k - 1 \in Occurrences(Tail(s), t)
  BY <1>1, <1>5 DEF Occurrences
<1>7. \A j \in Occurrences(Tail(s), t) : j + 1 \in rest /\ j \in Nat
  BY <1>1 DEF Occurrences
<1>8. shift \in Bijection(rest, Occurrences(Tail(s), t))
  <2>1. shift \in [rest -> Occurrences(Tail(s), t)]
    BY <1>6
  <2>2. IsInjective(shift)
    <3> SUFFICES ASSUME NEW x \in rest, NEW y \in rest, x - 1 = y - 1 PROVE x = y
      BY DEF IsInjective
    <3> QED BY <1>5
  <2>3. \A j \in Occurrences(Tail(s), t) : shift[j + 1] = j
    BY <1>7
  <2> QED BY <2>1, <2>2, <2>3, <1>7 DEF Bijection, Injection, Surjection
<1>9. Cardinality(rest) = Cardinality(Occurrences(Tail(s), t))
  BY <1>3, <1>8, FS_Bijection DEF ExistsBijection
<1>10. Cardinality(Occurrences(Tail(s), t)) \in Nat
  BY <1>1, CountType
<1> HIDE DEF rest
<1> QED BY <1>2, <1>3, <1>4, <1>9, <1>10

\* The queued transitions of a kind, before and after a step of the queue.
LEMMA QueuedType ==
    ASSUME Queue \in Seq(Transition), NEW a, NEW change
    PROVE  /\ Cardinality(Queued(a, change)) \in Nat
           /\ Cardinality(Queued(a, change)) <= Len(Queue)
           /\ Cardinality(Queued(a, change)) = 0 <=> Queued(a, change) = {}
<1>1. Queued(a, change) = Occurrences(Queue, [ref |-> a, kind |-> change])
  BY DEF Queued, Occurrences, Queue
<1> QED BY <1>1, CountType

LEMMA QueuedAppended ==
    ASSUME Queue \in Seq(Transition), NEW t \in Transition, Queue' = Append(Queue, t),
           NEW a, NEW change
    PROVE  Cardinality(Queued(a, change)')
               = Cardinality(Queued(a, change)) + (IF t = [ref |-> a, kind |-> change] THEN 1 ELSE 0)
<1>1. Queued(a, change) = Occurrences(Queue, [ref |-> a, kind |-> change])
  BY DEF Queued, Occurrences, Queue
<1>2. Queued(a, change)' = Occurrences(Append(Queue, t), [ref |-> a, kind |-> change])
  BY DEF Queued, Occurrences, Queue
<1> QED BY <1>1, <1>2, CountAppended

LEMMA QueuedTail ==
    ASSUME Queue \in Seq(Transition), Queue # <<>>, Queue' = Tail(Queue), NEW a, NEW change
    PROVE  Cardinality(Queued(a, change))
               = Cardinality(Queued(a, change)')
                   + (IF Head(Queue) = [ref |-> a, kind |-> change] THEN 1 ELSE 0)
<1>1. Queued(a, change) = Occurrences(Queue, [ref |-> a, kind |-> change])
  BY DEF Queued, Occurrences, Queue
<1>2. Queued(a, change)' = Occurrences(Tail(Queue), [ref |-> a, kind |-> change])
  BY DEF Queued, Occurrences, Queue
<1> QED BY <1>1, <1>2, CountTail

\* What is queued.
LEMMA QueuedTransition ==
    ASSUME Queue \in Seq(Transition)
    PROVE  /\ Len(Queue) \in Nat /\ DOMAIN Queue = 1 .. Len(Queue)
           /\ \A k \in 1 .. Len(Queue) :
                 /\ Queue[k] \in Transition
                 /\ Queue[k].ref \in Address /\ Queue[k].kind \in Kind
                 /\ Queue[k] = [ref |-> Queue[k].ref, kind |-> Queue[k].kind]
<1>1. Len(Queue) \in Nat /\ DOMAIN Queue = 1 .. Len(Queue)
  OBVIOUS
<1>2. \A k \in 1 .. Len(Queue) : Queue[k] \in Transition
  BY <1>1
<1>3. \A t \in Transition : /\ t.ref \in Address /\ t.kind \in Kind
                            /\ t = [ref |-> t.ref, kind |-> t.kind]
  BY DEF Transition
<1> QED BY <1>1, <1>2, <1>3

\* An address without an entry has nothing queued, and an address is no entry's but its own.
LEMMA NothingQueued ==
    ASSUME RegInv, NEW a \in Address, ~ Alive(a), NEW change
    PROVE  Cardinality(Queued(a, change)) = 0
<1>1. Queued(a, change) = {}
  BY DEF RegInv, DeadUnused, Queued, Queue
<1> QED BY <1>1, QueuedType DEF RegInv, RegTypes

\* An entry that is alive, its count and its references.
LEMMA LiveEntry ==
    ASSUME RegInv, NEW a \in Address, Alive(a)
    PROVE  /\ entries[a] \in AnyEntry
           /\ entries[a].hash \in Name /\ entries[a].rc \in Nat
           /\ m_resources[entries[a].hash] = a
           /\ holders[a] \in Nat /\ holders[a] <= MaxHolders
BY RegistryAssumption DEF RegInv, RegTypes, Lookup, Alive, AnyEntry

LEMMA RegInitInv == Init => RegInv
<1> SUFFICES ASSUME Init PROVE RegInv
  OBVIOUS
<1> USE DEF Init
<1>1. RegTypes
  <2>1. <<>> \in Seq(Transition) /\ Len(<<>>) = 0 /\ 0 <= MaxPending /\ 0 \in 0 .. MaxHolders
    BY RegistryAssumption
  <2> QED BY <2>1 DEF RegTypes, Queue
<1>2. Lookup /\ Balance /\ CountedToTheEnd
  BY DEF Lookup, Balance, CountedToTheEnd, Alive
<1>3. DeadUnused /\ UnpublishedHeld /\ AnsweredOnce
  BY DEF DeadUnused, UnpublishedHeld, AnsweredOnce, Alive, Queue
<1> QED BY <1>1, <1>2, <1>3 DEF RegInv
-----------------------------------------------------------------------------
\* make_slot of a registered name: every prefix of the queue leaves one reference more.
LEMMA MakeSlotFoundStep ==
    ASSUME RegInv, NEW n \in Name, MakeSlotFound(n)
    PROVE  RegInv'
<1>1. PICK a \in Address :
      /\ Alive(a) /\ a = m_resources[n] /\ holders[a] < MaxHolders
      /\ entries' = [entries EXCEPT ![a].rc = @ + 1]
      /\ holders' = [holders EXCEPT ![a] = @ + 1]
      /\ UNCHANGED <<m_resources, m_pending_transitions, syncing, unpublished>>
  BY RegistryAssumption DEF MakeSlotFound, RegInv, RegTypes, Lookup
<1>2. /\ entries[a] \in AnyEntry /\ entries[a].rc \in Nat
      /\ holders[a] \in Nat /\ m_resources[entries[a].hash] = a
  BY <1>1, LiveEntry
<1>3. /\ DOMAIN entries = Address /\ DOMAIN holders = Address
      /\ Queue \in Seq(Transition) /\ Queue' = Queue
  BY <1>1 DEF RegInv, RegTypes, Queue
<1>4. /\ entries'[a] = [entries[a] EXCEPT !.rc = @ + 1]
      /\ entries'[a] \in AnyEntry
      /\ entries'[a].hash = entries[a].hash /\ entries'[a].rc = entries[a].rc + 1
      /\ entries'[a].status = entries[a].status /\ entries'[a].own = entries[a].own
  BY <1>1, <1>2, <1>3 DEF AnyEntry
<1>5. \A b \in Address \ {a} : entries'[b] = entries[b] /\ holders'[b] = holders[b]
  BY <1>1, <1>3
<1>6. holders'[a] = holders[a] + 1
  BY <1>1, <1>3
<1>7. \A b \in Address : Alive(b)' <=> Alive(b)
  BY <1>1, <1>4, <1>5, RegistryAssumption DEF Alive, AnyEntry
<1>8. RegTypes'
  <2>1. entries' \in [Address -> AnyEntry \cup {Freed}]
    BY <1>1, <1>4 DEF RegInv, RegTypes
  <2>2. holders' \in [Address -> 0 .. MaxHolders]
    BY <1>1, <1>2, <1>6, RegistryAssumption DEF RegInv, RegTypes
  <2> QED BY <1>1, <2>1, <2>2 DEF RegInv, RegTypes, Queue
<1>9. Lookup'
  BY <1>1, <1>4, <1>5, <1>7 DEF RegInv, RegTypes, Lookup
<1>10. Balance'
  <2> SUFFICES ASSUME NEW b \in Address, Alive(b)
               PROVE  entries'[b].rc + Cardinality(Queued(b, "acquire"))
                          = holders'[b] + Cardinality(Queued(b, "release"))
    BY <1>1, <1>7 DEF Balance, Queued
  <2>1. /\ Cardinality(Queued(b, "acquire")) \in Nat /\ Cardinality(Queued(b, "release")) \in Nat
        /\ entries[b].rc + Cardinality(Queued(b, "acquire"))
               = holders[b] + Cardinality(Queued(b, "release"))
    BY <1>3, QueuedType DEF RegInv, Balance
  <2>2. entries[b].rc \in Nat /\ holders[b] \in Nat
    BY LiveEntry
  <2>3. CASE b = a
    <3>1. entries'[b].rc = entries[b].rc + 1 /\ holders'[b] = holders[b] + 1
      BY <1>4, <1>6, <2>3
    <3> QED BY <2>1, <2>2, <3>1
  <2>4. CASE b # a
    BY <1>5, <2>1, <2>4
  <2> QED BY <2>3, <2>4
<1>11. DeadUnused'
  BY <1>1, <1>3, <1>5, <1>7 DEF RegInv, DeadUnused
<1>12. CountedToTheEnd'
  <2> SUFFICES ASSUME NEW b \in Address, Alive(b) PROVE \E net : Counts(net, b)'
    BY <1>7 DEF CountedToTheEnd
  <2>1. PICK net : Counts(net, b)
    BY DEF RegInv, CountedToTheEnd
  <2>2. CASE b # a
    <3>1. entries'[b] = entries[b] /\ holders'[b] = holders[b] /\ Queue' = Queue
      BY <1>3, <1>5, <2>2
    <3>2. Counts(net, b)'
      BY ONLY <2>1, <3>1 DEF Counts
    <3> QED BY <3>2
  <2>3. CASE b = a
    <3>1. /\ Len(Queue) \in Nat
          /\ net \in [0 .. Len(Queue) -> Nat]
          /\ net[0] = entries[a].rc /\ net[Len(Queue)] = holders[a]
          /\ \A k \in 1 .. Len(Queue) : net[k] = After(Queue[k], a, net[k - 1])
      BY <1>3, <2>1, <2>3 DEF Counts
    <3>2. PICK more \in [0 .. Len(Queue) -> Nat] :
              \A j \in 0 .. Len(Queue) : more[j] = net[j] + 1 /\ more[j] # 0
      <4>1. [j \in 0 .. Len(Queue) |-> net[j] + 1] \in [0 .. Len(Queue) -> Nat]
        BY <3>1
      <4>2. \A j \in 0 .. Len(Queue) : net[j] \in Nat /\ net[j] + 1 # 0
        BY <3>1
      <4> QED BY <4>1, <4>2
    <3>3. more[0] = entries'[a].rc /\ more[Len(Queue)] = holders'[a]
      BY <1>4, <1>6, <3>1, <3>2
    <3>4. ASSUME NEW k \in 1 .. Len(Queue) PROVE more[k] = After(Queue[k], a, more[k - 1])
      <4>1. k \in 0 .. Len(Queue) /\ k - 1 \in 0 .. Len(Queue)
        BY <3>1
      <4>2. net[k] = After(Queue[k], a, net[k - 1]) /\ net[k] \in Nat /\ net[k - 1] \in Nat
        BY <3>1, <4>1
      <4>3. more[k] = net[k] + 1 /\ more[k - 1] = net[k - 1] + 1
        BY <3>2, <4>1
      <4> QED BY <4>2, <4>3 DEF After
    <3>5. Counts(more, a)'
      BY <1>3, <3>2, <3>3, <3>4 DEF Counts
    <3> QED BY <2>3, <3>5
  <2> QED BY <2>2, <2>3
<1>13. UnpublishedHeld'
  BY <1>1, <1>2, <1>5, <1>6 DEF RegInv, RegTypes, UnpublishedHeld
<1>14. AnsweredOnce'
  <2>1. \A b \in Address : /\ entries'[b].status = entries[b].status
                            /\ entries'[b].own = entries[b].own
    BY <1>4, <1>5
  <2>2. \A k \in DOMAIN Queue : Queue[k].ref \in Address
    BY <1>3, QueuedTransition
  <2> QED BY <1>1, <1>3, <1>7, <2>1, <2>2 DEF RegInv, AnsweredOnce
<1> QED BY <1>8, <1>9, <1>10, <1>11, <1>12, <1>13, <1>14 DEF RegInv

\* make_slot of a new name: nothing refers to the address yet.
LEMMA MakeSlotInsertedStep ==
    ASSUME RegInv, NEW n \in Name, NEW a \in Address, MakeSlotInserted(n, a)
    PROVE  RegInv'
<1> DEFINE e == NewEntry(n)
<1>1. /\ ~ Alive(a) /\ m_resources[n] = Nowhere
      /\ m_resources' = [m_resources EXCEPT ![n] = a]
      /\ entries' = [entries EXCEPT ![a] = e]
      /\ holders' = [holders EXCEPT ![a] = 1]
      /\ unpublished' = unpublished \cup {a}
      /\ UNCHANGED <<m_pending_transitions, syncing>>
  BY DEF MakeSlotInserted
<1>2. e \in AnyEntry /\ e.hash = n /\ e.rc = 1 /\ e.status = "unloaded"
  BY DEF NewEntry, AnyEntry, Status
<1> HIDE DEF e
<1>3. /\ DOMAIN entries = Address /\ DOMAIN holders = Address /\ DOMAIN m_resources = Name
      /\ Queue \in Seq(Transition) /\ Queue' = Queue
  BY <1>1 DEF RegInv, RegTypes, Queue
<1>4. /\ entries'[a] = e /\ holders'[a] = 1 /\ m_resources'[n] = a
      /\ \A b \in Address \ {a} : entries'[b] = entries[b] /\ holders'[b] = holders[b]
      /\ \A m \in Name \ {n} : m_resources'[m] = m_resources[m]
  BY <1>1, <1>3
<1>5. \A b \in Address : Alive(b)' <=> (Alive(b) \/ b = a)
  BY <1>2, <1>4, RegistryAssumption DEF Alive, AnyEntry
<1>6. RegTypes'
  <2>1. entries' \in [Address -> AnyEntry \cup {Freed}] /\ 1 \in 0 .. MaxHolders
    BY <1>1, <1>2, RegistryAssumption DEF RegInv, RegTypes
  <2>2. holders' \in [Address -> 0 .. MaxHolders]
    BY <1>1, <2>1 DEF RegInv, RegTypes
  <2> QED BY <1>1, <2>1, <2>2 DEF RegInv, RegTypes, Queue
<1>7. Lookup'
  <2>1. ASSUME NEW b \in Address, Alive(b)' PROVE m_resources'[entries'[b].hash] = b
    <3>1. CASE b = a
      BY <1>2, <1>4, <3>1
    <3>2. CASE b # a
      <4>1. /\ Alive(b) /\ entries'[b].hash = entries[b].hash
            /\ entries[b].hash \in Name /\ m_resources[entries[b].hash] = b
        BY <1>4, <1>5, <2>1, <3>2, LiveEntry
      <4>2. entries[b].hash # n
        BY <1>1, <4>1, RegistryAssumption
      <4> QED BY <1>4, <4>1, <4>2
    <3> QED BY <3>1, <3>2
  <2>2. ASSUME NEW m \in Name, m_resources'[m] # Nowhere
        PROVE  entries'[m_resources'[m]] # Freed /\ entries'[m_resources'[m]].hash = m
    <3>1. CASE m = n
      BY <1>2, <1>4, <1>5, <3>1 DEF Alive
    <3>2. CASE m # n
      <4>1. m_resources'[m] = m_resources[m] /\ m_resources[m] \in Address
        BY <1>4, <2>2, <3>2 DEF RegInv, RegTypes
      <4>2. Alive(m_resources[m]) /\ entries[m_resources[m]].hash = m
        BY <2>2, <4>1 DEF RegInv, Lookup
      <4>3. m_resources[m] # a
        BY <1>1, <4>2
      <4> QED BY <1>4, <4>1, <4>2, <4>3 DEF Alive
    <3> QED BY <3>1, <3>2
  <2> QED BY <2>1, <2>2 DEF Lookup, Alive
<1>8. Balance'
  <2> SUFFICES ASSUME NEW b \in Address, Alive(b)'
               PROVE  entries'[b].rc + Cardinality(Queued(b, "acquire"))
                          = holders'[b] + Cardinality(Queued(b, "release"))
    BY <1>1 DEF Balance, Queued
  <2>1. CASE b = a
    <3>1. Cardinality(Queued(b, "acquire")) = 0 /\ Cardinality(Queued(b, "release")) = 0
      BY <1>1, <2>1, NothingQueued
    <3>2. entries'[b].rc = 1 /\ holders'[b] = 1
      BY <1>2, <1>4, <2>1
    <3> QED BY <3>1, <3>2
  <2>2. CASE b # a
    BY <1>4, <1>5, <2>2 DEF RegInv, Balance
  <2> QED BY <2>1, <2>2
<1>9. DeadUnused'
  BY <1>1, <1>3, <1>4, <1>5 DEF RegInv, DeadUnused
<1>10. CountedToTheEnd'
  <2> SUFFICES ASSUME NEW b \in Address, Alive(b)' PROVE \E net : Counts(net, b)'
    BY DEF CountedToTheEnd
  <2>1. CASE b # a
    <3>1. PICK net : Counts(net, b)
      BY <1>5, <2>1 DEF RegInv, CountedToTheEnd
    <3>2. Counts(net, b)'
      BY <1>3, <1>4, <2>1, <3>1 DEF Counts
    <3> QED BY <3>2
  <2>2. CASE b = a
    <3>1. PICK one \in [0 .. Len(Queue) -> Nat] : \A j \in 0 .. Len(Queue) : one[j] = 1
      <4>1. [j \in 0 .. Len(Queue) |-> 1] \in [0 .. Len(Queue) -> Nat]
        OBVIOUS
      <4> QED BY <4>1
    <3>2. Len(Queue) \in Nat /\ \A k \in 1 .. Len(Queue) : Queue[k].ref # a
      BY <1>1, <1>3 DEF RegInv, DeadUnused
    <3>3. \A k \in 1 .. Len(Queue) : one[k] = After(Queue[k], a, one[k - 1])
      <4> SUFFICES ASSUME NEW k \in 1 .. Len(Queue)
                   PROVE  one[k] = After(Queue[k], a, one[k - 1])
        OBVIOUS
      <4>1. one[k] = 1 /\ one[k - 1] = 1
        BY <3>1, <3>2
      <4>2. Queue[k].ref # a
        BY <3>2
      <4> QED BY <4>1, <4>2 DEF After
    <3>4. one[0] = 1 /\ one[Len(Queue)] = 1 /\ \A j \in 0 .. Len(Queue) : one[j] # 0
      BY <3>1, <3>2
    <3>5. Counts(one, a)'
      BY <1>2, <1>3, <1>4, <3>3, <3>4 DEF Counts
    <3> QED BY <2>2, <3>5
  <2> QED BY <2>1, <2>2
<1>11. UnpublishedHeld'
  BY <1>1, <1>4 DEF RegInv, RegTypes, UnpublishedHeld
<1>12. AnsweredOnce'
  <2>1. \A k \in DOMAIN Queue : Queue[k].ref \in Address /\ Queue[k].ref # a
    BY <1>1, <1>3, QueuedTransition DEF RegInv, DeadUnused
  <2>2. \A k \in DOMAIN Queue : entries'[Queue[k].ref] = entries[Queue[k].ref]
    BY <1>4, <2>1
  <2>3. \A b \in Address : Alive(b)' =>
           /\ b \in unpublished' => entries'[b].status = "unloaded"
           /\ entries'[b].status = "ready" => entries'[b].own
    BY <1>1, <1>2, <1>4, <1>5 DEF RegInv, AnsweredOnce
  <2> QED BY <1>1, <1>3, <2>1, <2>2, <2>3 DEF RegInv, AnsweredOnce
<1> QED BY <1>6, <1>7, <1>8, <1>9, <1>10, <1>11, <1>12 DEF RegInv

\* publish, acquire and release: only a reference that is held is queued, so no prefix has
\* brought its count to zero.
LEMMA PushStep ==
    ASSUME RegInv, NEW a \in Address, NEW change \in Kind, Push(a, change),
           holders[a] > 0, NEW held \in 0 .. MaxHolders,
           holders' = [holders EXCEPT ![a] = held],
           held = After([ref |-> a, kind |-> change], a, holders[a]),
           unpublished' \in {unpublished, unpublished \ {a}},
           change \in Answers => a \in unpublished /\ unpublished' = unpublished \ {a},
           a \in unpublished' => held > 0
    PROVE  RegInv'
<1> DEFINE t == [ref |-> a, kind |-> change]
<1>1. /\ ~ syncing /\ Len(Queue) < MaxPending /\ Queue' = Append(Queue, t)
      /\ UNCHANGED <<m_resources, entries, syncing>>
      /\ t \in Transition /\ t.ref = a /\ t.kind = change
      /\ Queue \in Seq(Transition)
  BY DEF Push, Queue, Transition, RegInv, RegTypes
<1>2. /\ Queue' \in Seq(Transition)
      /\ Len(Queue) \in Nat
      /\ Len(Queue') = Len(Queue) + 1
      /\ DOMAIN Queue = 1 .. Len(Queue) /\ DOMAIN Queue' = 1 .. Len(Queue) + 1
      /\ \A k \in 1 .. Len(Queue) : Queue'[k] = Queue[k]
      /\ Queue'[Len(Queue) + 1] = t
  BY <1>1, QueueAppended
<1>3. /\ DOMAIN holders = Address /\ holders'[a] = held
      /\ \A b \in Address \ {a} : holders'[b] = holders[b]
      /\ \A b \in Address : holders[b] \in Nat /\ holders'[b] \in Nat
  BY RegistryAssumption DEF RegInv, RegTypes
<1>4. \A b \in Address : (Alive(b)' <=> Alive(b)) /\ entries'[b] = entries[b]
  BY <1>1 DEF Alive
<1>5. Alive(a)
  BY DEF RegInv, DeadUnused
<1>6. unpublished' \subseteq unpublished /\ unpublished \subseteq Address
  BY DEF RegInv, RegTypes
<1>7. RegTypes'
  <2>1. holders' \in [Address -> 0 .. MaxHolders] /\ unpublished' \subseteq Address
    BY <1>6 DEF RegInv, RegTypes
  <2>2. Len(Queue') <= MaxPending
    BY <1>1, <1>2, RegistryAssumption
  <2> QED BY <1>1, <1>2, <2>1, <2>2 DEF RegInv, RegTypes
<1>8. Lookup'
  BY <1>1 DEF RegInv, Lookup, Alive
<1>9. Balance'
  <2> SUFFICES ASSUME NEW b \in Address, Alive(b)
               PROVE  entries[b].rc + Cardinality(Queued(b, "acquire")')
                          = holders'[b] + Cardinality(Queued(b, "release")')
    BY <1>4 DEF Balance, Queued
  <2>1. /\ Cardinality(Queued(b, "acquire")) \in Nat /\ Cardinality(Queued(b, "release")) \in Nat
        /\ entries[b].rc \in Nat
        /\ entries[b].rc + Cardinality(Queued(b, "acquire"))
               = holders[b] + Cardinality(Queued(b, "release"))
    BY <1>1, QueuedType, LiveEntry DEF RegInv, Balance
  <2>2. /\ Cardinality(Queued(b, "acquire")')
              = Cardinality(Queued(b, "acquire"))
                  + (IF t = [ref |-> b, kind |-> "acquire"] THEN 1 ELSE 0)
        /\ Cardinality(Queued(b, "release")')
              = Cardinality(Queued(b, "release"))
                  + (IF t = [ref |-> b, kind |-> "release"] THEN 1 ELSE 0)
    BY <1>1, QueuedAppended
  <2>3. CASE b # a
    BY <1>3, <2>1, <2>2, <2>3
  <2>4. CASE b = a
    <3>1. holders'[b] = After(t, b, holders[b]) /\ holders[b] \in Nat
      BY <1>3, <2>4
    <3>2. CASE change = "acquire"
      <4>1. /\ t = [ref |-> b, kind |-> "acquire"] /\ t # [ref |-> b, kind |-> "release"]
            /\ holders'[b] = holders[b] + 1
        BY <2>4, <3>1, <3>2 DEF After
      <4> HIDE DEF t
      <4> QED BY <2>1, <2>2, <3>1, <4>1
    <3>3. CASE change = "release"
      <4>1. /\ t # [ref |-> b, kind |-> "acquire"] /\ t = [ref |-> b, kind |-> "release"]
            /\ holders'[b] = holders[b] - 1
        BY <2>4, <3>1, <3>3 DEF After
      <4> HIDE DEF t
      <4> QED BY <2>1, <2>2, <3>1, <4>1
    <3>4. CASE change \in Answers
      <4>1. /\ t # [ref |-> b, kind |-> "acquire"] /\ t # [ref |-> b, kind |-> "release"]
            /\ holders'[b] = holders[b]
        BY <2>4, <3>1, <3>4 DEF After, Answers
      <4> HIDE DEF t
      <4> QED BY <2>1, <2>2, <3>1, <4>1
    <3> QED BY <3>2, <3>3, <3>4 DEF Kind, Answers
  <2> QED BY <2>3, <2>4
<1>10. DeadUnused'
  <2> SUFFICES ASSUME NEW b \in Address, ~ Alive(b)
               PROVE  /\ holders'[b] = 0 /\ b \notin unpublished'
                      /\ \A k \in DOMAIN Queue' : Queue'[k].ref # b
    BY <1>4 DEF DeadUnused
  <2>1. b # a /\ holders[b] = 0 /\ b \notin unpublished /\ \A k \in DOMAIN Queue : Queue[k].ref # b
    BY <1>5 DEF RegInv, DeadUnused
  <2> QED BY <1>1, <1>2, <1>3, <1>6, <2>1
<1>11. CountedToTheEnd'
  <2> SUFFICES ASSUME NEW b \in Address, Alive(b) PROVE \E net : Counts(net, b)'
    BY <1>4 DEF CountedToTheEnd
  <2> DEFINE len == Len(Queue)
  <2>1. PICK net : Counts(net, b)
    BY DEF RegInv, CountedToTheEnd
  <2>2. /\ net \in [0 .. len -> Nat]
        /\ net[0] = entries[b].rc /\ net[len] = holders[b]
        /\ \A k \in 1 .. len : net[k] = After(Queue[k], b, net[k - 1])
        /\ \A j \in 0 .. len : net[j] = 0 =>
               holders[b] = 0 /\ \A k \in j + 1 .. len : Queue[k].ref # b
    BY <2>1 DEF Counts
  <2>3. PICK more \in [0 .. Len(Queue') -> Nat] :
            more[Len(Queue')] = holders'[b] /\ \A j \in 0 .. len : more[j] = net[j]
    <3> DEFINE m == [j \in 0 .. Len(Queue') |-> IF j = Len(Queue') THEN holders'[b] ELSE net[j]]
    <3>1. m \in [0 .. Len(Queue') -> Nat]
      BY <1>2, <1>3, <2>2
    <3>2. m[Len(Queue')] = holders'[b] /\ \A j \in 0 .. len : m[j] = net[j]
      BY <1>2
    <3> QED BY <3>1, <3>2
  <2>4. len \in Nat /\ Len(Queue') = len + 1
    BY <1>2
  <2>5. more[0] = entries'[b].rc
    BY <1>4, <2>2, <2>3, <2>4
  <2>6. ASSUME NEW k \in 1 .. Len(Queue') PROVE more[k] = After(Queue'[k], b, more[k - 1])
    <3>1. CASE k = len + 1
      <4>1. more[k] = holders'[b] /\ more[k - 1] = holders[b] /\ Queue'[k] = t
        BY <1>2, <2>2, <2>3, <2>4, <3>1
      <4>2. CASE b = a
        BY <1>3, <4>1, <4>2
      <4>3. CASE b # a
        BY <1>3, <4>1, <4>3 DEF After
      <4> QED BY <4>2, <4>3
    <3>2. CASE k \in 1 .. len
      <4>1. more[k] = net[k] /\ more[k - 1] = net[k - 1] /\ Queue'[k] = Queue[k]
        BY <1>2, <2>3, <2>4, <3>2
      <4> QED BY <2>2, <3>2, <4>1
    <3> QED BY <2>4, <3>1, <3>2
  <2>7. ASSUME NEW j \in 0 .. Len(Queue'), more[j] = 0
        PROVE  holders'[b] = 0 /\ \A k \in j + 1 .. Len(Queue') : Queue'[k].ref # b
    <3>1. CASE j = len + 1
      BY <2>3, <2>4, <2>7, <3>1
    <3>2. CASE j \in 0 .. len
      <4>1. holders[b] = 0 /\ \A k \in j + 1 .. len : Queue[k].ref # b
        BY <2>2, <2>3, <2>7, <3>2
      <4>2. b # a
        BY <4>1
      <4>3. holders'[b] = 0 /\ Queue'[len + 1].ref # b
        BY <1>1, <1>2, <1>3, <4>1, <4>2
      <4> QED BY <1>2, <2>4, <3>2, <4>1, <4>3
    <3> QED BY <2>4, <3>1, <3>2
  <2>8. Counts(more, b)'
    BY <2>3, <2>5, <2>6, <2>7 DEF Counts
  <2> QED BY <2>8
<1>12. UnpublishedHeld'
  <2> SUFFICES ASSUME NEW b \in unpublished' PROVE holders'[b] > 0
    BY DEF UnpublishedHeld
  <2>1. b \in Address /\ holders[b] > 0
    BY <1>6 DEF RegInv, UnpublishedHeld
  <2> QED BY <1>3, <2>1
<1>13. AnsweredOnce'
  <2>1. \A k \in DOMAIN Queue : Queue[k].kind \in Answers =>
            Queue[k].ref \notin unpublished /\ entries[Queue[k].ref].status = "unloaded"
    BY DEF RegInv, AnsweredOnce
  <2>2. \A k \in DOMAIN Queue' : Queue'[k].kind \in Answers =>
            Queue'[k].ref \notin unpublished' /\ entries[Queue'[k].ref].status = "unloaded"
    <3> SUFFICES ASSUME NEW k \in DOMAIN Queue', Queue'[k].kind \in Answers
                 PROVE  Queue'[k].ref \notin unpublished' /\ entries[Queue'[k].ref].status = "unloaded"
      OBVIOUS
    <3>1. CASE k \in DOMAIN Queue
      BY <1>2, <1>6, <2>1, <3>1
    <3>2. CASE k = Len(Queue) + 1
      <4>1. Queue'[k].ref = a /\ change \in Answers
        BY <1>1, <1>2, <3>2
      <4>2. a \in unpublished /\ a \notin unpublished'
        BY <4>1
      <4> QED BY <1>5, <4>1, <4>2 DEF RegInv, AnsweredOnce
    <3> QED BY <1>2, <3>1, <3>2
  <2>3. ASSUME NEW j \in DOMAIN Queue', NEW k \in DOMAIN Queue',
               Queue'[j].ref = Queue'[k].ref, Queue'[j].kind \in Answers, Queue'[k].kind \in Answers
        PROVE  j = k
    <3>1. CASE j \in DOMAIN Queue /\ k \in DOMAIN Queue
      BY <1>2, <2>3, <3>1 DEF RegInv, AnsweredOnce
    <3>2. CASE j = Len(Queue) + 1 /\ k \in DOMAIN Queue
      BY <1>1, <1>2, <2>1, <2>3, <3>2
    <3>3. CASE k = Len(Queue) + 1 /\ j \in DOMAIN Queue
      BY <1>1, <1>2, <2>1, <2>3, <3>3
    <3> QED BY <1>2, <3>1, <3>2, <3>3
  <2> QED BY <1>1, <1>4, <1>6, <2>2, <2>3 DEF RegInv, AnsweredOnce
<1> QED BY <1>7, <1>8, <1>9, <1>10, <1>11, <1>12, <1>13 DEF RegInv

\* sync takes the first transition off the queue: the prefixes begin one further on.
LEMMA CountsTail ==
    ASSUME Queue \in Seq(Transition), Queue # <<>>, Queue' = Tail(Queue),
           NEW b \in Address, NEW net, Counts(net, b),
           holders'[b] = holders[b], entries'[b].rc = net[1]
    PROVE  \E m : Counts(m, b)'
<1> DEFINE len == Len(Queue)
<1>1. /\ len \in Nat \ {0} /\ Len(Queue') = len - 1
      /\ DOMAIN Queue = 1 .. len /\ DOMAIN Queue' = 1 .. len - 1
      /\ \A k \in 1 .. len - 1 : Queue'[k] = Queue[k + 1]
  BY QueueTail
<1>2. /\ net \in [0 .. len -> Nat]
      /\ net[len] = holders[b]
      /\ \A k \in 1 .. len : net[k] = After(Queue[k], b, net[k - 1])
      /\ \A j \in 0 .. len : net[j] = 0 =>
             holders[b] = 0 /\ \A k \in j + 1 .. len : Queue[k].ref # b
  BY DEF Counts
<1>3. PICK m \in [0 .. Len(Queue') -> Nat] : \A j \in 0 .. Len(Queue') : m[j] = net[j + 1]
  <2>1. [j \in 0 .. Len(Queue') |-> net[j + 1]] \in [0 .. Len(Queue') -> Nat]
    BY <1>1, <1>2
  <2> QED BY <2>1
<1> HIDE DEF len
<1>4. m[0] = entries'[b].rc /\ m[Len(Queue')] = holders'[b]
  BY <1>1, <1>2, <1>3
<1>5. ASSUME NEW k \in 1 .. Len(Queue') PROVE m[k] = After(Queue'[k], b, m[k - 1])
  <2>1. /\ k \in 0 .. Len(Queue') /\ k - 1 \in 0 .. Len(Queue')
        /\ k + 1 \in 1 .. len /\ (k - 1) + 1 = (k + 1) - 1
    BY <1>1
  <2>2. m[k] = net[k + 1] /\ m[k - 1] = net[(k + 1) - 1] /\ Queue'[k] = Queue[k + 1]
    BY <1>1, <1>3, <2>1
  <2> QED BY <1>2, <2>1, <2>2
<1>6. ASSUME NEW j \in 0 .. Len(Queue'), m[j] = 0
      PROVE  holders'[b] = 0 /\ \A k \in j + 1 .. Len(Queue') : Queue'[k].ref # b
  <2>1. j + 1 \in 0 .. len /\ net[j + 1] = 0
    BY <1>1, <1>3, <1>6
  <2>2. holders[b] = 0 /\ \A k \in (j + 1) + 1 .. len : Queue[k].ref # b
    BY <1>2, <2>1
  <2> QED BY <1>1, <2>2
<1>7. Counts(m, b)'
  BY <1>3, <1>4, <1>5, <1>6 DEF Counts
<1> QED BY <1>7

\* The transition in turn.
LEMMA HeadTransition ==
    ASSUME RegInv, SyncStep
    PROVE  /\ Queue # <<>> /\ Queue' = Tail(Queue)
           /\ Head(Queue) \in Transition
           /\ Head(Queue).ref \in Address /\ Alive(Head(Queue).ref) /\ Head(Queue).kind \in Kind
           /\ m_resources[entries[Head(Queue).ref].hash] = Head(Queue).ref
           /\ Apply(Head(Queue).kind, entries[Head(Queue).ref].hash, Head(Queue).ref)
           /\ UNCHANGED <<holders, unpublished>>
           /\ syncing' \in BOOLEAN /\ (syncing' => Queue' # <<>>)
<1> DEFINE t == Head(Queue)
<1>1. /\ syncing /\ Alive(t.ref) /\ Dequeued
      /\ Apply(t.kind, entries[t.ref].hash, m_resources[entries[t.ref].hash])
  BY DEF SyncStep, Queue
<1>2. Queue # <<>> /\ Queue \in Seq(Transition)
  BY <1>1 DEF RegInv, RegTypes
<1>3. t \in Transition /\ Len(Queue) \in Nat /\ Len(Tail(Queue)) = Len(Queue) - 1
  BY <1>2, QueueTail
<1>4. t.ref \in Address /\ t.kind \in Kind
  BY <1>3 DEF Transition
<1>5. Queue' = Tail(Queue) /\ syncing' = (Len(Queue) > 1) /\ UNCHANGED <<holders, unpublished>>
  BY <1>1 DEF Dequeued, Queue
<1>6. m_resources[entries[t.ref].hash] = t.ref
  BY <1>1, <1>4 DEF RegInv, Lookup
<1>7. syncing' => Queue' # <<>>
  <2> SUFFICES ASSUME Len(Queue) > 1, Tail(Queue) = <<>> PROVE FALSE
    BY <1>5
  <2>1. Len(<<>>) = 0
    OBVIOUS
  <2> QED BY <1>3, <2>1
<1> QED BY <1>1, <1>2, <1>3, <1>4, <1>5, <1>6, <1>7

\* What the count of an entry is before and after the transition in turn.
LEMMA HeadCounts ==
    ASSUME RegInv, Queue # <<>>, NEW b \in Address, Alive(b)
    PROVE  \E net : /\ Counts(net, b)
                    /\ net[1] \in Nat
                    /\ net[1] = After(Head(Queue), b, entries[b].rc)
                    /\ Head(Queue).ref = b => entries[b].rc > 0
                    /\ net[1] = 0 => /\ holders[b] = 0
                                     /\ \A k \in 2 .. Len(Queue) : Queue[k].ref # b
<1>1. PICK net : Counts(net, b)
  BY DEF RegInv, CountedToTheEnd
<1>2. Len(Queue) \in Nat \ {0} /\ Head(Queue) = Queue[1]
  BY QueueTail DEF RegInv, RegTypes
<1>3. 0 \in 0 .. Len(Queue) /\ 1 \in 0 .. Len(Queue) /\ 1 \in 1 .. Len(Queue) /\ 1 - 1 = 0 /\ 0 + 1 = 1 /\ 1 + 1 = 2
  BY <1>2
<1>4. /\ net \in [0 .. Len(Queue) -> Nat] /\ net[0] = entries[b].rc
      /\ net[1] = After(Queue[1], b, net[1 - 1])
      /\ net[0] = 0 => holders[b] = 0 /\ \A k \in 0 + 1 .. Len(Queue) : Queue[k].ref # b
      /\ net[1] = 0 => holders[b] = 0 /\ \A k \in 1 + 1 .. Len(Queue) : Queue[k].ref # b
  BY <1>1, <1>3 DEF Counts
<1>5. net[0] \in Nat /\ net[1] \in Nat
  BY <1>3, <1>4
<1>6. net[1] = After(Head(Queue), b, entries[b].rc)
  BY <1>2, <1>3, <1>4
<1>7. Head(Queue).ref = b => entries[b].rc > 0
  BY <1>2, <1>3, <1>4, <1>5
<1> QED BY <1>1, <1>3, <1>4, <1>5, <1>6, <1>7

\* What the remaining transitions are.
LEMMA RestOfQueue ==
    ASSUME Queue \in Seq(Transition), Queue # <<>>, Queue' = Tail(Queue)
    PROVE  /\ Queue' \in Seq(Transition) /\ Len(Queue) \in Nat \ {0} /\ Len(Queue') = Len(Queue) - 1
           /\ 1 \in DOMAIN Queue /\ Head(Queue) = Queue[1]
           /\ \A k \in DOMAIN Queue' : /\ k + 1 \in 2 .. Len(Queue) /\ k + 1 \in DOMAIN Queue
                                       /\ k \in Nat /\ k + 1 # 1
                                       /\ Queue'[k] = Queue[k + 1] /\ Queue[k + 1].ref \in Address
<1>1. /\ Queue' \in Seq(Transition) /\ Len(Queue) \in Nat \ {0} /\ Len(Queue') = Len(Queue) - 1
      /\ DOMAIN Queue = 1 .. Len(Queue) /\ DOMAIN Queue' = 1 .. Len(Queue) - 1
      /\ \A k \in 1 .. Len(Queue) - 1 : Queue'[k] = Queue[k + 1]
      /\ Head(Queue) = Queue[1]
  BY QueueTail
<1>2. \A k \in 1 .. Len(Queue) : Queue[k].ref \in Address
  BY QueuedTransition
<1> QED BY <1>1, <1>2

\* An entry that stays: its count goes where the transition takes it.
LEMMA ModifyStep ==
    ASSUME RegInv, SyncStep, NEW a \in Address, a = Head(Queue).ref, NEW e \in AnyEntry,
           entries' = [entries EXCEPT ![a] = e], UNCHANGED m_resources,
           e.hash = entries[a].hash, e.rc = After(Head(Queue), a, entries[a].rc), e.rc > 0,
           Head(Queue).kind \notin Answers => e.status = entries[a].status /\ e.own = entries[a].own,
           Head(Queue).kind \in Answers => e.status # "unloaded" /\ (e.status = "ready" => e.own)
    PROVE  RegInv'
<1> DEFINE t == Head(Queue)
<1>1. /\ Queue # <<>> /\ Queue' = Tail(Queue) /\ Queue \in Seq(Transition)
      /\ t \in Transition /\ t.kind \in Kind /\ Alive(a)
      /\ UNCHANGED <<m_resources, holders, unpublished>>
      /\ syncing' \in BOOLEAN /\ (syncing' => Queue' # <<>>)
  BY HeadTransition DEF RegInv, RegTypes
<1>2. /\ Queue' \in Seq(Transition) /\ Len(Queue) \in Nat \ {0} /\ Len(Queue') = Len(Queue) - 1
      /\ 1 \in DOMAIN Queue /\ t = Queue[1]
      /\ \A k \in DOMAIN Queue' : /\ k + 1 \in 2 .. Len(Queue) /\ k + 1 \in DOMAIN Queue
                                  /\ k \in Nat /\ k + 1 # 1
                                  /\ Queue'[k] = Queue[k + 1] /\ Queue[k + 1].ref \in Address
  BY <1>1, RestOfQueue
<1>3. entries'[a] = e /\ \A b \in Address \ {a} : entries'[b] = entries[b]
  BY DEF RegInv, RegTypes
<1>4. \A b \in Address : Alive(b)' <=> Alive(b)
  BY <1>1, <1>3, RegistryAssumption DEF Alive, AnyEntry
<1>5. RegTypes'
  <2>1. entries' \in [Address -> AnyEntry \cup {Freed}]
    BY DEF RegInv, RegTypes
  <2>2. Len(Queue') <= MaxPending
    BY <1>2, RegistryAssumption DEF RegInv, RegTypes
  <2> QED BY <1>1, <1>2, <2>1, <2>2 DEF RegInv, RegTypes
<1>6. Lookup'
  BY <1>1, <1>3, <1>4 DEF RegInv, RegTypes, Lookup
<1>7. Balance'
  <2> SUFFICES ASSUME NEW b \in Address, Alive(b)
               PROVE  entries'[b].rc + Cardinality(Queued(b, "acquire")')
                          = holders[b] + Cardinality(Queued(b, "release")')
    BY <1>1, <1>4 DEF Balance, Queued
  <2>1. /\ entries[b].rc \in Nat
        /\ entries[b].rc + Cardinality(Queued(b, "acquire"))
               = holders[b] + Cardinality(Queued(b, "release"))
    BY LiveEntry DEF RegInv, Balance
  <2>2. /\ Cardinality(Queued(b, "acquire"))
              = Cardinality(Queued(b, "acquire")')
                  + (IF t = [ref |-> b, kind |-> "acquire"] THEN 1 ELSE 0)
        /\ Cardinality(Queued(b, "release"))
              = Cardinality(Queued(b, "release")')
                  + (IF t = [ref |-> b, kind |-> "release"] THEN 1 ELSE 0)
    BY <1>1, QueuedTail
  <2>3. /\ Cardinality(Queued(b, "acquire")') \in Nat /\ Cardinality(Queued(b, "release")') \in Nat
        /\ holders[b] \in Nat
    <3>1. /\ Queued(b, "acquire")' = Occurrences(Queue', [ref |-> b, kind |-> "acquire"])
          /\ Queued(b, "release")' = Occurrences(Queue', [ref |-> b, kind |-> "release"])
      BY DEF Queued, Occurrences, Queue
    <3>2. /\ Cardinality(Queued(b, "acquire")') \in Nat
          /\ Cardinality(Queued(b, "release")') \in Nat
      BY <1>2, <3>1, CountType
    <3>3. holders[b] \in Nat
      BY LiveEntry
    <3> QED BY <3>2, <3>3
  <2>4. entries'[b].rc = After(t, b, entries[b].rc)
    <3>1. CASE b = a
      BY <1>3, <3>1
    <3>2. CASE b # a
      BY <1>3, <3>2 DEF After
    <3> QED BY <3>1, <3>2
  <2>5. entries'[b].rc = entries[b].rc + (IF t = [ref |-> b, kind |-> "acquire"] THEN 1 ELSE 0)
                                       - (IF t = [ref |-> b, kind |-> "release"] THEN 1 ELSE 0)
    <3>1. CASE t = [ref |-> b, kind |-> "acquire"]
      <4>1. t # [ref |-> b, kind |-> "release"]
        BY <3>1
      <4> QED BY <2>1, <2>4, <3>1, <4>1 DEF After
    <3>2. CASE t # [ref |-> b, kind |-> "acquire"]
      BY <2>1, <2>4, <3>2 DEF After
    <3> QED BY <3>1, <3>2
  <2> HIDE DEF t
  <2> QED BY <2>1, <2>2, <2>3, <2>5
<1>8. DeadUnused'
  <2> SUFFICES ASSUME NEW b \in Address, ~ Alive(b)
               PROVE  holders[b] = 0 /\ b \notin unpublished /\ \A k \in DOMAIN Queue' : Queue'[k].ref # b
    BY <1>1, <1>4 DEF DeadUnused
  <2> QED BY <1>2 DEF RegInv, DeadUnused
<1>9. CountedToTheEnd'
  <2> SUFFICES ASSUME NEW b \in Address, Alive(b) PROVE \E net : Counts(net, b)'
    BY <1>4 DEF CountedToTheEnd
  <2>1. PICK net : Counts(net, b) /\ net[1] = After(t, b, entries[b].rc)
    BY <1>1, HeadCounts
  <2>2. entries'[b].rc = net[1]
    <3>1. CASE b = a
      BY <1>3, <2>1, <3>1
    <3>2. CASE b # a
      BY <1>3, <2>1, <3>2 DEF After
    <3> QED BY <3>1, <3>2
  <2> QED BY <1>1, <2>1, <2>2, CountsTail
<1>10. UnpublishedHeld'
  BY <1>1 DEF RegInv, UnpublishedHeld
<1>11. AnsweredOnce'
  <2>1. \A k \in DOMAIN Queue' : Queue'[k].kind \in Answers =>
            Queue'[k].ref \notin unpublished /\ entries'[Queue'[k].ref].status = "unloaded"
    <3> SUFFICES ASSUME NEW k \in DOMAIN Queue', Queue'[k].kind \in Answers
                 PROVE  Queue'[k].ref \notin unpublished /\ entries'[Queue'[k].ref].status = "unloaded"
      OBVIOUS
    <3>1. /\ Queue'[k].ref \notin unpublished /\ Queue'[k].ref \in Address
          /\ entries[Queue'[k].ref].status = "unloaded"
      BY <1>2 DEF RegInv, AnsweredOnce
    <3>2. CASE Queue'[k].ref # a
      BY <1>3, <3>1, <3>2
    <3>3. CASE Queue'[k].ref = a
      <4>1. t.kind \notin Answers
        BY <1>2, <3>3 DEF RegInv, AnsweredOnce
      <4> QED BY <1>3, <3>1, <3>3, <4>1
    <3> QED BY <3>2, <3>3
  <2>2. ASSUME NEW j \in DOMAIN Queue', NEW k \in DOMAIN Queue',
               Queue'[j].ref = Queue'[k].ref, Queue'[j].kind \in Answers, Queue'[k].kind \in Answers
        PROVE  j = k
    <3>1. j + 1 = k + 1
      BY <1>2, <2>2 DEF RegInv, AnsweredOnce
    <3> QED BY <1>2, <3>1
  <2>3. ASSUME NEW b \in Address, Alive(b)
        PROVE  /\ b \in unpublished => entries'[b].status = "unloaded"
               /\ entries'[b].status = "ready" => entries'[b].own
    <3>1. /\ b \in unpublished => entries[b].status = "unloaded"
          /\ entries[b].status = "ready" => entries[b].own
      BY <2>3 DEF RegInv, AnsweredOnce
    <3>2. t.kind \in Answers => a \notin unpublished
      BY <1>2 DEF RegInv, AnsweredOnce
    <3> QED BY <1>3, <3>1, <3>2
  <2> QED BY <1>1, <1>4, <2>1, <2>2, <2>3 DEF AnsweredOnce
<1> QED BY <1>5, <1>6, <1>7, <1>8, <1>9, <1>10, <1>11 DEF RegInv

\* An entry that goes, with the last reference: nothing queued names it any more.
LEMMA EraseStep ==
    ASSUME RegInv, SyncStep, NEW a \in Address, a = Head(Queue).ref,
           Head(Queue).kind = "release", entries[a].rc = 1, EraseAt(entries[a].hash, a)
    PROVE  RegInv'
<1> DEFINE t == Head(Queue)
<1>1. /\ Queue # <<>> /\ Queue' = Tail(Queue) /\ Queue \in Seq(Transition)
      /\ t \in Transition /\ Alive(a) /\ m_resources[entries[a].hash] = a
      /\ UNCHANGED <<holders, unpublished>>
      /\ syncing' \in BOOLEAN /\ (syncing' => Queue' # <<>>)
  BY HeadTransition DEF RegInv, RegTypes
<1>2. /\ Queue' \in Seq(Transition) /\ Len(Queue) \in Nat \ {0} /\ Len(Queue') = Len(Queue) - 1
      /\ 1 \in DOMAIN Queue /\ t = Queue[1]
      /\ \A k \in DOMAIN Queue' : /\ k + 1 \in 2 .. Len(Queue) /\ k + 1 \in DOMAIN Queue
                                  /\ k \in Nat /\ k + 1 # 1
                                  /\ Queue'[k] = Queue[k + 1] /\ Queue[k + 1].ref \in Address
  BY <1>1, RestOfQueue
<1>3. PICK n \in Name : n = entries[a].hash
  BY <1>1, LiveEntry
<1>4. /\ entries'[a] = Freed /\ m_resources'[n] = Nowhere
      /\ \A b \in Address \ {a} : entries'[b] = entries[b]
      /\ \A m \in Name \ {n} : m_resources'[m] = m_resources[m]
      /\ entries' \in [Address -> AnyEntry \cup {Freed}]
      /\ m_resources' \in [Name -> Address \cup {Nowhere}]
  BY <1>3 DEF EraseAt, RegInv, RegTypes
<1>5. \A b \in Address : Alive(b)' <=> Alive(b) /\ b # a
  BY <1>4 DEF Alive
<1>6. /\ holders[a] = 0 /\ a \notin unpublished
      /\ \A k \in DOMAIN Queue' : Queue'[k].ref # a
  <2>1. PICK net : /\ Counts(net, a)
                   /\ net[1] = After(t, a, entries[a].rc)
                   /\ net[1] = 0 => /\ holders[a] = 0
                                    /\ \A k \in 2 .. Len(Queue) : Queue[k].ref # a
    BY <1>1, HeadCounts
  <2>2. t = [ref |-> a, kind |-> "release"]
    BY <1>1 DEF Transition
  <2>3. net[1] = 0
    BY <2>1, <2>2 DEF After
  <2>4. holders[a] = 0 /\ \A k \in 2 .. Len(Queue) : Queue[k].ref # a
    BY <2>1, <2>3
  <2> QED BY <1>2, <2>4 DEF RegInv, UnpublishedHeld
<1>7. RegTypes'
  <2>1. Len(Queue') <= MaxPending
    BY <1>2, RegistryAssumption DEF RegInv, RegTypes
  <2> QED BY <1>1, <1>2, <1>4, <2>1 DEF RegInv, RegTypes
<1>8. Lookup'
  <2>1. ASSUME NEW b \in Address, Alive(b), b # a PROVE m_resources'[entries'[b].hash] = b
    <3>1. entries[b].hash \in Name /\ m_resources[entries[b].hash] = b
      BY <2>1, LiveEntry
    <3> QED BY <1>1, <1>3, <1>4, <2>1, <3>1
  <2>2. ASSUME NEW m \in Name, m_resources'[m] # Nowhere
        PROVE  entries'[m_resources'[m]] # Freed /\ entries'[m_resources'[m]].hash = m
    <3>1. m # n /\ m_resources'[m] = m_resources[m] /\ m_resources[m] \in Address
      BY <1>4, <2>2
    <3>2. entries[m_resources[m]] # Freed /\ entries[m_resources[m]].hash = m
      BY <2>2, <3>1 DEF RegInv, Lookup, Alive
    <3> QED BY <1>3, <1>4, <3>1, <3>2
  <2> QED BY <1>5, <2>1, <2>2 DEF Lookup, Alive
<1>9. Balance'
  <2> SUFFICES ASSUME NEW b \in Address, Alive(b), b # a
               PROVE  entries'[b].rc + Cardinality(Queued(b, "acquire")')
                          = holders[b] + Cardinality(Queued(b, "release")')
    BY <1>1, <1>5 DEF Balance, Queued
  <2>1. \A change : t # [ref |-> b, kind |-> change]
    OBVIOUS
  <2>2. \A change : Queued(b, change)' = Occurrences(Queue', [ref |-> b, kind |-> change])
    BY DEF Queued, Occurrences, Queue
  <2>3. /\ Cardinality(Queued(b, "acquire")') \in Nat /\ Cardinality(Queued(b, "release")') \in Nat
    BY <1>2, <2>2, CountType
  <2>4. /\ Cardinality(Queued(b, "acquire")) = Cardinality(Queued(b, "acquire")')
        /\ Cardinality(Queued(b, "release")) = Cardinality(Queued(b, "release")')
    BY <1>1, <2>1, <2>3, QueuedTail
  <2> QED BY <1>4, <2>4 DEF RegInv, Balance
<1>10. DeadUnused'
  <2> SUFFICES ASSUME NEW b \in Address, ~ Alive(b) \/ b = a
               PROVE  holders[b] = 0 /\ b \notin unpublished /\ \A k \in DOMAIN Queue' : Queue'[k].ref # b
    BY <1>1, <1>5 DEF DeadUnused
  <2> QED BY <1>2, <1>6 DEF RegInv, DeadUnused
<1>11. CountedToTheEnd'
  <2> SUFFICES ASSUME NEW b \in Address, Alive(b), b # a PROVE \E net : Counts(net, b)'
    BY <1>5 DEF CountedToTheEnd
  <2>1. PICK net : Counts(net, b) /\ net[1] = After(t, b, entries[b].rc)
    BY <1>1, HeadCounts
  <2>2. entries'[b].rc = net[1]
    BY <1>4, <2>1 DEF After
  <2> QED BY <1>1, <2>1, <2>2, CountsTail
<1>12. UnpublishedHeld'
  BY <1>1 DEF RegInv, UnpublishedHeld
<1>13. AnsweredOnce'
  <2>1. \A k \in DOMAIN Queue' : Queue'[k].kind \in Answers =>
            Queue'[k].ref \notin unpublished /\ entries'[Queue'[k].ref].status = "unloaded"
    BY <1>2, <1>4, <1>6 DEF RegInv, AnsweredOnce
  <2>2. ASSUME NEW j \in DOMAIN Queue', NEW k \in DOMAIN Queue',
               Queue'[j].ref = Queue'[k].ref, Queue'[j].kind \in Answers, Queue'[k].kind \in Answers
        PROVE  j = k
    <3>1. j + 1 = k + 1
      BY <1>2, <2>2 DEF RegInv, AnsweredOnce
    <3> QED BY <1>2, <3>1
  <2>3. \A b \in Address : Alive(b)' =>
           /\ b \in unpublished => entries'[b].status = "unloaded"
           /\ entries'[b].status = "ready" => entries'[b].own
    BY <1>4, <1>5 DEF RegInv, AnsweredOnce
  <2> QED BY <1>1, <2>1, <2>2, <2>3 DEF AnsweredOnce
<1> QED BY <1>7, <1>8, <1>9, <1>10, <1>11, <1>12, <1>13 DEF RegInv

LEMMA SyncStepKeeps == RegInv /\ SyncStep => RegInv'
<1> SUFFICES ASSUME RegInv, SyncStep PROVE RegInv'
  OBVIOUS
<1>1. PICK a \in Address : a = Head(Queue).ref
  BY HeadTransition
<1>2. PICK change \in Kind : change = Head(Queue).kind
  BY HeadTransition
<1>3. /\ Queue # <<>> /\ Alive(a) /\ Apply(change, entries[a].hash, a)
      /\ Head(Queue) = [ref |-> a, kind |-> change]
  <2>1. Head(Queue) \in Transition
    BY HeadTransition
  <2> QED BY <1>1, <1>2, <2>1, HeadTransition DEF Transition
<1>4. /\ entries[a] \in AnyEntry /\ entries[a].rc \in Nat /\ entries[a].rc > 0
  BY <1>1, <1>3, LiveEntry, HeadCounts
<1>5. CASE change = "release" /\ entries[a].rc = 1
  <2>1. EraseAt(entries[a].hash, a)
    BY <1>3, <1>5 DEF Apply, ReleaseEntry
  <2> QED BY <1>1, <1>2, <1>5, <2>1, EraseStep
<1>6. CASE change = "release" /\ entries[a].rc # 1
  <2>1. PICK e : e = [entries[a] EXCEPT !.rc = @ - 1]
    OBVIOUS
  <2>2. /\ e \in AnyEntry /\ e.hash = entries[a].hash /\ e.rc = entries[a].rc - 1
        /\ e.status = entries[a].status /\ e.own = entries[a].own
    BY <1>4, <1>6, <2>1 DEF AnyEntry
  <2>3. entries' = [entries EXCEPT ![a] = e] /\ UNCHANGED m_resources
    BY <1>3, <1>6, <2>1 DEF Apply, ReleaseEntry
  <2>4. e.rc = After(Head(Queue), a, entries[a].rc) /\ e.rc > 0
    BY <1>3, <1>4, <1>6, <2>2 DEF After
  <2>5. Head(Queue).kind \notin Answers
    BY <1>2, <1>6 DEF Answers
  <2> QED BY <1>1, <2>2, <2>3, <2>4, <2>5, ModifyStep
<1>7. CASE change # "release"
  <2>1. PICK e : e = Modified(change, entries[a])
    OBVIOUS
  <2>2. entries' = [entries EXCEPT ![a] = e] /\ UNCHANGED m_resources
    BY <1>3, <1>7, <2>1 DEF Apply
  <2>3. CASE change = "acquire"
    <3>1. e = [entries[a] EXCEPT !.rc = @ + 1]
      BY <2>1, <2>3 DEF Modified
    <3>2. /\ e \in AnyEntry /\ e.hash = entries[a].hash /\ e.rc = entries[a].rc + 1
          /\ e.status = entries[a].status /\ e.own = entries[a].own
      BY <1>4, <3>1 DEF AnyEntry
    <3>3. e.rc = After(Head(Queue), a, entries[a].rc) /\ e.rc > 0
      BY <1>3, <1>4, <2>3, <3>2 DEF After
    <3>4. Head(Queue).kind \notin Answers
      BY <1>2, <2>3 DEF Answers
    <3> QED BY <1>1, <2>2, <3>2, <3>3, <3>4, ModifyStep
  <2>4. CASE change \in Answers
    <3>1. /\ e \in AnyEntry /\ e.hash = entries[a].hash /\ e.rc = entries[a].rc
          /\ e.status # "unloaded" /\ (e.status = "ready" => e.own)
      <4>1. CASE change = "set_ready"
        <5>1. e = [entries[a] EXCEPT !.status = "ready", !.own = TRUE]
          BY <2>1, <4>1 DEF Modified
        <5> QED BY <1>4, <5>1 DEF AnyEntry, Status
      <4>2. CASE change = "set_failed"
        <5>1. e = [entries[a] EXCEPT !.status = "failed"]
          BY <2>1, <4>2 DEF Modified
        <5> QED BY <1>4, <5>1 DEF AnyEntry, Status
      <4> QED BY <2>4, <4>1, <4>2 DEF Answers
    <3>2. e.rc = After(Head(Queue), a, entries[a].rc) /\ e.rc > 0
      BY <1>3, <1>4, <2>4, <3>1 DEF After, Answers
    <3>3. Head(Queue).kind \in Answers
      BY <1>2, <2>4
    <3> QED BY <1>1, <2>2, <3>1, <3>2, <3>3, ModifyStep
  <2> QED BY <1>7, <2>3, <2>4 DEF Kind, Answers
<1> QED BY <1>5, <1>6, <1>7

LEMMA ClearStep == RegInv /\ m_pending_transitions = <<>> /\ Clear => RegInv'
<1> SUFFICES ASSUME RegInv, m_pending_transitions = <<>>, Clear PROVE RegInv'
  OBVIOUS
<1>1. /\ \A a \in Address : ~ Alive(a)' /\ holders'[a] = 0
      /\ \A n \in Name : m_resources'[n] = Nowhere
      /\ unpublished' = {} /\ m_pending_transitions' = <<>> /\ syncing' = syncing /\ ~ syncing
  BY DEF Clear, Alive
<1>2. RegTypes'
  <2>1. 0 \in 0 .. MaxHolders
    BY RegistryAssumption
  <2> QED BY <2>1 DEF Clear, RegInv, RegTypes, Queue
<1>3. Lookup' /\ Balance' /\ CountedToTheEnd'
  BY <1>1 DEF Lookup, Balance, CountedToTheEnd
<1>4. DeadUnused' /\ UnpublishedHeld' /\ AnsweredOnce'
  BY <1>1 DEF DeadUnused, UnpublishedHeld, AnsweredOnce, Queue
<1> QED BY <1>2, <1>3, <1>4 DEF RegInv

\* The three calls that queue a transition.
LEMMA PublishStep ==
    ASSUME RegInv, NEW a \in Address, NEW change \in Kind, Publish(a, change)
    PROVE  RegInv'
<1>1. /\ a \in unpublished /\ change \in Answers /\ Push(a, change)
      /\ unpublished' = unpublished \ {a} /\ holders' = holders
  BY DEF Publish, Answers
<1>2. PICK held \in 0 .. MaxHolders : held = holders[a] /\ held > 0
  BY <1>1 DEF RegInv, RegTypes, UnpublishedHeld
<1>3. holders' = [holders EXCEPT ![a] = held]
  BY <1>1, <1>2 DEF RegInv, RegTypes
<1>4. held = After([ref |-> a, kind |-> change], a, holders[a])
  BY <1>1, <1>2 DEF After, Answers
<1> QED BY <1>1, <1>2, <1>3, <1>4, PushStep

LEMMA AcquireStep ==
    ASSUME RegInv, NEW a \in Address, Acquire(a)
    PROVE  RegInv'
<1>1. /\ holders[a] \in 1 .. MaxHolders - 1 /\ Push(a, "acquire")
      /\ holders' = [holders EXCEPT ![a] = @ + 1] /\ unpublished' = unpublished
  BY DEF Acquire
<1>2. PICK held \in 0 .. MaxHolders : held = holders[a] + 1 /\ held > 0 /\ holders[a] > 0
  BY <1>1, RegistryAssumption
<1>3. holders' = [holders EXCEPT ![a] = held]
  BY <1>1, <1>2
<1>4. held = After([ref |-> a, kind |-> "acquire"], a, holders[a])
  BY <1>2 DEF After
<1>5. "acquire" \in Kind /\ "acquire" \notin Answers
  BY DEF Kind, Answers
<1> QED BY <1>1, <1>2, <1>3, <1>4, <1>5, PushStep

LEMMA ReleaseStep ==
    ASSUME RegInv, NEW a \in Address, Release(a)
    PROVE  RegInv'
<1>1. /\ holders[a] > (IF a \in unpublished THEN 1 ELSE 0) /\ Push(a, "release")
      /\ holders' = [holders EXCEPT ![a] = @ - 1] /\ unpublished' = unpublished
  BY DEF Release
<1>2. holders[a] \in 0 .. MaxHolders /\ MaxHolders \in Nat
  BY RegistryAssumption DEF RegInv, RegTypes
<1>3. PICK held \in 0 .. MaxHolders :
          held = holders[a] - 1 /\ holders[a] > 0 /\ (a \in unpublished => held > 0)
  BY <1>1, <1>2
<1>4. holders' = [holders EXCEPT ![a] = held]
  BY <1>1, <1>3
<1>5. held = After([ref |-> a, kind |-> "release"], a, holders[a])
  BY <1>3 DEF After
<1>6. "release" \in Kind /\ "release" \notin Answers
  BY DEF Kind, Answers
<1> QED BY <1>1, <1>3, <1>4, <1>5, <1>6, PushStep

LEMMA RegStutter == RegInv /\ UNCHANGED vars => RegInv'
<1> SUFFICES ASSUME RegInv, UNCHANGED vars PROVE RegInv'
  OBVIOUS
<1> USE DEF RegInv, vars
<1>1. RegTypes' /\ Lookup'
  BY DEF RegTypes, Lookup, Alive, Queue
<1>2. Balance'
  BY DEF Balance, Alive, Queued
<1>3. DeadUnused' /\ UnpublishedHeld' /\ AnsweredOnce'
  BY DEF DeadUnused, UnpublishedHeld, AnsweredOnce, Alive, Queue
<1>4. CountedToTheEnd'
  BY DEF CountedToTheEnd, Counts, Alive, Queue
<1> QED BY <1>1, <1>2, <1>3, <1>4

LEMMA StartSyncStep == RegInv /\ StartSync => RegInv'
<1> SUFFICES ASSUME RegInv, StartSync PROVE RegInv'
  OBVIOUS
<1> USE DEF RegInv, StartSync
<1>1. RegTypes' /\ Lookup'
  BY DEF RegTypes, Lookup, Alive, Queue
<1>2. Balance'
  BY DEF Balance, Alive, Queued
<1>3. DeadUnused' /\ UnpublishedHeld' /\ AnsweredOnce'
  BY DEF DeadUnused, UnpublishedHeld, AnsweredOnce, Alive, Queue
<1>4. CountedToTheEnd'
  BY DEF CountedToTheEnd, Counts, Alive, Queue
<1> QED BY <1>1, <1>2, <1>3, <1>4

LEMMA RegStep == RegInv /\ [Next]_vars => RegInv'
<1> SUFFICES ASSUME RegInv, [Next]_vars PROVE RegInv'
  OBVIOUS
<1>1. CASE \E n \in Name : MakeSlotFound(n)
  BY <1>1, MakeSlotFoundStep
<1>2. CASE \E n \in Name, a \in Address : MakeSlotInserted(n, a)
  BY <1>2, MakeSlotInsertedStep
<1>3. CASE \E a \in Address, change \in Kind : Publish(a, change)
  BY <1>3, PublishStep
<1>4. CASE \E a \in Address : Acquire(a)
  BY <1>4, AcquireStep
<1>5. CASE \E a \in Address : Release(a)
  BY <1>5, ReleaseStep
<1>6. CASE Sync
  BY <1>6, StartSyncStep, SyncStepKeeps DEF Sync
<1>7. CASE m_pending_transitions = <<>> /\ Clear
  BY <1>7, ClearStep
<1>8. CASE UNCHANGED vars
  BY <1>8, RegStutter
<1> QED BY <1>1, <1>2, <1>3, <1>4, <1>5, <1>6, <1>7, <1>8 DEF Next
-----------------------------------------------------------------------------
\* What the invariant says.
LEMMA RegInvBounds == RegInv => TypeOK
<1> SUFFICES ASSUME RegInv PROVE TypeOK
  OBVIOUS
<1>1. ASSUME NEW a \in Address, Alive(a) PROVE entries[a] \in Entry
  <2>1. entries[a] \in AnyEntry /\ entries[a].rc \in Nat /\ holders[a] \in Nat /\ holders[a] <= MaxHolders
    BY <1>1, LiveEntry
  <2>2. entries[a].rc + Cardinality(Queued(a, "acquire"))
            = holders[a] + Cardinality(Queued(a, "release"))
    BY <1>1 DEF RegInv, Balance
  <2>3. /\ Cardinality(Queued(a, "acquire")) \in Nat
        /\ Cardinality(Queued(a, "release")) \in Nat
        /\ Cardinality(Queued(a, "release")) <= Len(Queue)
        /\ Len(Queue) \in Nat /\ Len(Queue) <= MaxPending
    BY QueuedType DEF RegInv, RegTypes
  <2>4. entries[a].rc <= MaxHolders + MaxPending
    BY <2>1, <2>2, <2>3, RegistryAssumption
  <2>5. entries[a].rc \in 0 .. MaxHolders + MaxPending
    BY <2>1, <2>4, RegistryAssumption
  <2> QED BY <2>1, <2>5 DEF AnyEntry, Entry
<1>2. entries \in [Address -> Entry \cup {Freed}]
  BY <1>1 DEF RegInv, RegTypes, Alive
<1> QED BY <1>2 DEF RegInv, RegTypes, TypeOK, Queue

LEMMA RegInvImplies ==
    RegInv => RefCountExact /\ HeldEntriesAlive /\ SyncReadsLiveEntries
<1> SUFFICES ASSUME RegInv PROVE RefCountExact /\ HeldEntriesAlive /\ SyncReadsLiveEntries
  OBVIOUS
<1>1. RefCountExact
  BY DEF RegInv, RefCountExact, Balance, Lookup
<1>2. HeldEntriesAlive
  BY DEF RegInv, HeldEntriesAlive, DeadUnused
<1>3. SyncReadsLiveEntries
  <2> SUFFICES ASSUME syncing PROVE Alive(Head(Queue).ref)
    BY DEF SyncReadsLiveEntries, Queue
  <2>1. Queue # <<>> /\ Queue \in Seq(Transition)
    BY DEF RegInv, RegTypes
  <2>2. Len(Queue) \in Nat \ {0} /\ Head(Queue) = Queue[1] /\ DOMAIN Queue = 1 .. Len(Queue)
    BY <2>1, QueueTail
  <2>3. 1 \in DOMAIN Queue /\ Queue[1].ref \in Address
    BY <2>1, <2>2, QueuedTransition
  <2> QED BY <2>2, <2>3 DEF RegInv, DeadUnused
<1> QED BY <1>1, <1>2, <1>3

\* A ready entry is not answered again.
LEMMA ReadyStep ==
    ASSUME RegInv, [Next]_vars, NEW a \in Address, Alive(a), entries[a].status = "ready",
           entries'[a] # Freed
    PROVE  entries'[a].status = "ready" /\ entries'[a].own
<1>1. entries \in [Address -> AnyEntry \cup {Freed}] /\ entries[a] \in AnyEntry
  BY LiveEntry DEF RegInv, RegTypes
<1>2. ASSUME UNCHANGED entries PROVE entries'[a].status = "ready"
  BY <1>2
<1>3. ASSUME NEW n \in Name, MakeSlotFound(n) PROVE entries'[a].status = "ready"
  <2>1. entries' = [entries EXCEPT ![m_resources[n]].rc = @ + 1]
    BY <1>3 DEF MakeSlotFound
  <2> QED BY <1>1, <2>1 DEF AnyEntry
<1>4. ASSUME NEW n \in Name, NEW b \in Address, MakeSlotInserted(n, b)
      PROVE  entries'[a].status = "ready"
  <2>1. b # a /\ entries' = [entries EXCEPT ![b] = NewEntry(n)]
    BY <1>4 DEF MakeSlotInserted
  <2> QED BY <1>1, <2>1
<1>5. ASSUME SyncStep PROVE entries'[a].status = "ready"
  <2> DEFINE t == Head(Queue)
  <2>1. /\ Queue # <<>> /\ t.kind \in Kind /\ t.ref \in Address
        /\ Apply(t.kind, entries[t.ref].hash, t.ref)
    BY <1>5, HeadTransition
  <2>2. 1 \in DOMAIN Queue /\ t = Queue[1]
    <3>1. Len(Queue) \in Nat \ {0} /\ t = Queue[1] /\ DOMAIN Queue = 1 .. Len(Queue)
      BY <2>1, QueueTail DEF RegInv, RegTypes
    <3> QED BY <3>1
  <2>3. t.ref = a => t.kind \notin Answers
    BY <2>2 DEF RegInv, AnsweredOnce
  <2>4. CASE t.ref # a
    BY <1>1, <2>1, <2>4 DEF Apply, ReleaseEntry, EraseAt
  <2>5. CASE t.ref = a /\ t.kind = "release"
    <3>1. entries' = [entries EXCEPT ![a].rc = @ - 1]
      BY <1>1, <2>1, <2>5 DEF Apply, ReleaseEntry, EraseAt
    <3> QED BY <1>1, <3>1 DEF AnyEntry
  <2>6. CASE t.ref = a /\ t.kind = "acquire"
    <3>1. entries' = [entries EXCEPT ![a] = Modified("acquire", @)]
      BY <2>1, <2>6 DEF Apply
    <3>2. entries'[a] = [entries[a] EXCEPT !.rc = @ + 1]
      BY <1>1, <3>1 DEF Modified
    <3> QED BY <1>1, <3>2 DEF AnyEntry
  <2> QED BY <2>1, <2>3, <2>4, <2>5, <2>6 DEF Kind, Answers
<1>6. entries'[a].status = "ready"
  <2>1. CASE \E b \in Address, change \in Kind : Publish(b, change)
    BY <1>2, <2>1 DEF Publish, Push
  <2>2. CASE \E b \in Address : Acquire(b)
    BY <1>2, <2>2 DEF Acquire, Push
  <2>3. CASE \E b \in Address : Release(b)
    BY <1>2, <2>3 DEF Release, Push
  <2>4. CASE StartSync
    BY <1>2, <2>4 DEF StartSync
  <2>5. CASE Clear
    BY <2>5 DEF Clear
  <2>6. CASE UNCHANGED vars
    BY <1>2, <2>6 DEF vars
  <2> QED BY <1>3, <1>4, <1>5, <2>1, <2>2, <2>3, <2>4, <2>5, <2>6 DEF Next, Sync
<1>7. AnsweredOnce'
  BY RegStep DEF RegInv
<1>8. \A b \in Address : Alive(b)' => (entries'[b].status = "ready" => entries'[b].own)
  BY <1>7 DEF AnsweredOnce
<1>9. Alive(a)'
  BY DEF Alive
<1> QED BY <1>6, <1>8, <1>9

\* Counts stay within what clients hold and what is queued.
THEOREM RegistryTypeOK == Spec => []TypeOK
<1>1. Init => RegInv
  BY RegInitInv
<1>2. RegInv /\ [Next]_vars => RegInv'
  BY RegStep
<1>3. RegInv => TypeOK
  BY RegInvBounds
<1> QED BY <1>1, <1>2, <1>3, PTL DEF Spec

\* The count of an entry and the queued transitions add up to the references of the clients.
THEOREM CountsExact == Spec => []RefCountExact
<1>1. Init => RegInv
  BY RegInitInv
<1>2. RegInv /\ [Next]_vars => RegInv'
  BY RegStep
<1>3. RegInv => RefCountExact
  BY RegInvImplies
<1> QED BY <1>1, <1>2, <1>3, PTL DEF Spec

\* A reference that a client still has to release, or to publish, does not dangle.
THEOREM HeldAlive == Spec => []HeldEntriesAlive
<1>1. Init => RegInv
  BY RegInitInv
<1>2. RegInv /\ [Next]_vars => RegInv'
  BY RegStep
<1>3. RegInv => HeldEntriesAlive
  BY RegInvImplies
<1> QED BY <1>1, <1>2, <1>3, PTL DEF Spec

\* sync never reads the hash of a transition through an entry that was erased.
THEOREM SyncReadsLive == Spec => []SyncReadsLiveEntries
<1>1. Init => RegInv
  BY RegInitInv
<1>2. RegInv /\ [Next]_vars => RegInv'
  BY RegStep
<1>3. RegInv => SyncReadsLiveEntries
  BY RegInvImplies
<1> QED BY <1>1, <1>2, <1>3, PTL DEF Spec

\* A ready entry stays ready, with its own data, for as long as it lives.
THEOREM ReadyForGood == Spec => ReadyStays
<1> DEFINE Stays == \A a \in Address :
                       (Alive(a) /\ entries[a].status = "ready" /\ entries'[a] # Freed)
                           => (entries'[a].status = "ready" /\ entries'[a].own)
<1>1. Init => RegInv
  BY RegInitInv
<1>2. RegInv /\ [Next]_vars => RegInv'
  BY RegStep
<1>3. RegInv /\ [Next]_vars => Stays
  BY ReadyStep
<1> QED BY <1>1, <1>2, <1>3, PTL DEF Spec, ReadyStays

-----------------------------------------------------------------------------
Waiting == op \in {"flush", "slice", "destroy"}

Copies == [kind : {"copy"}, upload : Nat, batch : Batch]

UpTypes == /\ m_cursor \in Nat
           /\ recorded \in Nat
           /\ wanted \in Size \cup {0}
           /\ batch \in Batch
           /\ commands \in Seq(Copies \cup {Fence})
           /\ op \in {"slice", "retry"} => wanted \in Size
           /\ op = "upload" => batch.buffer \in Buffer /\ batch.size \in Size

\* The fence ends the commands while the context waits for it, and is nowhere else.
FenceLast == /\ ~ Waiting => \A k \in DOMAIN commands : commands[k] # Fence
             /\ Waiting => \A k \in DOMAIN commands : commands[k] = Fence <=> k = Len(commands)
             /\ Waiting /\ m_fence = "signaled" => commands = <<>>

\* A context without a queue, or about to try again, has nothing pending.
NothingPending == /\ op = "retry" \/ ~ recording => commands = <<>>
                  /\ op = "upload" => recording

\* What a pending copy reads is below the cursor, apart from the slice in the caller's
\* hands, and as its upload wrote it.
CopiesIntact ==
    \A k \in DOMAIN commands : commands[k] # Fence =>
        LET c == commands[k]
        IN  /\ c.batch.buffer \in Buffer
            /\ c.batch.size \in Size
            /\ c.batch.buffer = "stage" => c.batch.offset + c.batch.size <= m_cursor
            /\ op = "upload" => Bytes(c.batch) \cap Bytes(batch) = {}
            /\ \A p \in Bytes(c.batch) : p \in DOMAIN memory /\ memory[p] = c.upload

HandsBelowCursor ==
    op = "upload" /\ batch.buffer = "stage" => batch.offset + batch.size <= m_cursor

\* The copies are numbered on from what has landed; the fence has no number.
Numbered ==
    /\ landed \in Seq(SUBSET Nat)
    /\ \A k \in DOMAIN commands : commands[k] # Fence => commands[k].upload = Len(landed) + k
    /\ recorded = Len(landed) + Len(commands) - (IF Waiting /\ commands # <<>> THEN 1 ELSE 0)

UpInv == /\ UpTypes
         /\ FenceLast
         /\ NothingPending
         /\ CopiesIntact
         /\ HandsBelowCursor
         /\ Numbered
-----------------------------------------------------------------------------
\* Rounding up does not go below.
LEMMA AlignUpAtLeast ==
    ASSUME NEW n \in Nat
    PROVE  AlignUp(n) \in Nat /\ AlignUp(n) >= n
<1> DEFINE x == n + Align - 1
           q == x \div Align
<1>1. Align \in Nat /\ Align > 0 /\ x \in Nat
  BY UploadAssumption
<1>2. q \in Nat /\ x % Align \in 0 .. Align - 1 /\ x = Align * q + (x % Align)
  BY <1>1
<1>3. q * Align \in Nat /\ q * Align = Align * q
  BY <1>1, <1>2
<1>4. AlignUp(n) = q * Align
  BY DEF AlignUp
<1> HIDE DEF q
<1> QED BY <1>1, <1>2, <1>3, <1>4

\* The fields of a batch.
LEMMA BatchFields ==
    ASSUME NEW b \in Batch
    PROVE  b.offset \in Nat /\ b.size \in Nat
<1>1. CASE b = NoBatch
  BY <1>1 DEF NoBatch
<1>2. CASE b \in [buffer : Buffer, offset : Nat, size : Size]
  <2>1. b.offset \in Nat /\ b.size \in Size
    BY <1>2
  <2> QED BY <2>1, UploadAssumption
<1> QED BY <1>1, <1>2 DEF Batch

\* A fence is no copy.
LEMMA FenceIsNoCopy == \A c \in Copies : c # Fence
<1> SUFFICES ASSUME NEW c \in Copies, c = Fence PROVE FALSE
  OBVIOUS
<1>1. c.kind = "copy"
  BY DEF Copies
<1>2. Fence.kind = "fence"
  BY DEF Fence
<1> QED BY <1>1, <1>2

\* A sequence with one element more, or without its first.
LEMMA Appended ==
    ASSUME NEW S, NEW s \in Seq(S), NEW e \in S
    PROVE  /\ Append(s, e) \in Seq(S)
           /\ Len(s) \in Nat
           /\ Len(Append(s, e)) = Len(s) + 1
           /\ DOMAIN s = 1 .. Len(s) /\ DOMAIN Append(s, e) = 1 .. Len(s) + 1
           /\ \A k \in 1 .. Len(s) : Append(s, e)[k] = s[k]
           /\ Append(s, e)[Len(s) + 1] = e
BY AppendProperties

LEMMA WithoutFirst ==
    ASSUME NEW S, NEW s \in Seq(S), s # <<>>
    PROVE  /\ Tail(s) \in Seq(S)
           /\ Len(s) \in Nat \ {0}
           /\ Len(Tail(s)) = Len(s) - 1
           /\ DOMAIN s = 1 .. Len(s) /\ DOMAIN Tail(s) = 1 .. Len(s) - 1
           /\ \A k \in 1 .. Len(s) - 1 : Tail(s)[k] = s[k + 1]
           /\ Head(s) = s[1]
BY HeadTailProperties

\* A slice of the staging buffer begins at or after every byte given out before.
LEMMA StageSliceFresh ==
    ASSUME NEW b \in Batch, NEW c \in Batch, b.buffer = "stage",
           c.buffer = "stage" => c.offset + c.size <= b.offset
    PROVE  Bytes(c) \cap Bytes(b) = {}
<1> SUFFICES ASSUME NEW p \in Bytes(c), p \in Bytes(b) PROVE FALSE
  OBVIOUS
<1>1. PICK i \in c.offset .. c.offset + c.size - 1 : p = <<c.buffer, i>>
  BY DEF Bytes
<1>2. PICK j \in b.offset .. b.offset + b.size - 1 : p = <<b.buffer, j>>
  BY DEF Bytes
<1>3. c.buffer = b.buffer /\ i = j
  BY <1>1, <1>2
<1>4. /\ b.offset \in Nat /\ c.offset \in Nat
      /\ b.size \in Nat /\ c.size \in Nat
  BY BatchFields
<1> QED BY <1>3, <1>4

LEMMA UpInitInv == UpInit => UpInv
<1> SUFFICES ASSUME UpInit PROVE UpInv
  OBVIOUS
<1> USE DEF UpInit
<1>1. UpTypes
  BY DEF UpTypes, Batch
<1>2. FenceLast /\ NothingPending /\ CopiesIntact /\ HandsBelowCursor
  BY DEF FenceLast, NothingPending, CopiesIntact, HandsBelowCursor, Waiting
<1>3. Numbered
  BY DEF Numbered, Waiting
<1> QED BY <1>1, <1>2, <1>3 DEF UpInv
-----------------------------------------------------------------------------
\* The steps in which nothing is recorded or executed, and no slice is given out.
LEMMA StageSliceStep ==
    ASSUME UpInv, NEW size \in Size, SliceOfStage(size),
           ~ Waiting, op # "upload", recording' = TRUE,
           UNCHANGED <<commands, landed, memory, recorded, m_fence>>,
           wanted' \in Size \cup {0}
    PROVE  UpInv'
<1> USE DEF UpInv
<1>0. size \in Nat /\ size > 0 /\ m_cursor \in Nat
  BY UploadAssumption DEF UpTypes
<1>1. CASE StageSliceFails
  <2> USE <1>1 DEF StageSliceFails
  <2>1. UpTypes'
    BY DEF UpTypes
  <2>2. FenceLast'
    BY DEF FenceLast, Waiting
  <2>3. NothingPending'
    BY DEF NothingPending
  <2>4. CopiesIntact'
    BY DEF CopiesIntact, Bytes
  <2>5. HandsBelowCursor'
    BY DEF HandsBelowCursor
  <2>6. Numbered'
    BY DEF Numbered, Waiting
  <2> QED BY <2>1, <2>2, <2>3, <2>4, <2>5, <2>6
<1>2. CASE StageSlice(size)
  <2> DEFINE b == [buffer |-> "stage", offset |-> AlignUp(m_cursor), size |-> size]
  <2>1. AlignUp(m_cursor) \in Nat /\ AlignUp(m_cursor) >= m_cursor
    BY <1>0, AlignUpAtLeast
  <2>2. batch' = b /\ m_cursor' = AlignUp(m_cursor) + size /\ op' = "upload"
    BY <1>2 DEF StageSlice
  <2>3. b \in Batch /\ b.buffer = "stage" /\ b.offset = AlignUp(m_cursor) /\ b.size = size
    BY <2>1 DEF Batch, Buffer
  <2> HIDE DEF b
  <2>4. UpTypes'
    BY <1>0, <2>1, <2>2, <2>3 DEF UpTypes, Buffer
  <2>5. FenceLast'
    BY <2>2 DEF FenceLast, Waiting
  <2>6. NothingPending'
    BY <2>2 DEF NothingPending
  <2>7. CopiesIntact'
    <3> SUFFICES ASSUME NEW k \in DOMAIN commands, commands[k] # Fence
                 PROVE  /\ commands[k].batch.buffer = "stage" =>
                              commands[k].batch.offset + commands[k].batch.size <= m_cursor'
                        /\ Bytes(commands[k].batch) \cap Bytes(b) = {}
      BY <2>2 DEF CopiesIntact, Bytes
    <3>1. commands[k].batch \in Batch
      BY DEF UpTypes, Copies
    <3>2. commands[k].batch.buffer = "stage" =>
             commands[k].batch.offset + commands[k].batch.size <= m_cursor
      BY DEF CopiesIntact
    <3>3. commands[k].batch.offset \in Nat /\ commands[k].batch.size \in Nat
      BY <3>1, BatchFields
    <3>4. Bytes(commands[k].batch) \cap Bytes(b) = {}
      BY <2>1, <2>3, <3>1, <3>2, <3>3, <1>0, StageSliceFresh
    <3> QED BY <1>0, <2>1, <2>2, <3>2, <3>3, <3>4
  <2>8. HandsBelowCursor'
    BY <1>0, <2>1, <2>2, <2>3 DEF HandsBelowCursor
  <2>9. Numbered'
    BY <2>2 DEF Numbered, Waiting
  <2> QED BY <2>4, <2>5, <2>6, <2>7, <2>8, <2>9
<1> QED BY <1>1, <1>2 DEF SliceOfStage

\* The fence goes behind the copies.
LEMMA SignalStep ==
    ASSUME UpInv, SignalFence, ~ Waiting, op # "upload", recording,
           op' \in {"flush", "slice", "destroy"},
           UNCHANGED <<m_cursor, recording, memory, batch, recorded>>,
           wanted' \in Size \cup {0}, op' = "slice" => wanted' \in Size
    PROVE  UpInv'
<1> USE DEF UpInv
<1>1. /\ commands \in Seq(Copies \cup {Fence})
      /\ m_fence' = "pending" /\ commands' = Append(commands, Fence) /\ landed' = landed
  BY DEF UpTypes, SignalFence
<1>2. /\ commands' \in Seq(Copies \cup {Fence})
      /\ Len(commands) \in Nat
      /\ Len(commands') = Len(commands) + 1
      /\ DOMAIN commands = 1 .. Len(commands) /\ DOMAIN commands' = 1 .. Len(commands) + 1
      /\ \A k \in 1 .. Len(commands) : commands'[k] = commands[k]
      /\ commands'[Len(commands) + 1] = Fence
  BY <1>1, Appended
<1>3. \A k \in DOMAIN commands : commands[k] # Fence
  BY DEF FenceLast
<1>4. UpTypes'
  BY <1>2 DEF UpTypes
<1>5. FenceLast'
  BY <1>1, <1>2, <1>3 DEF FenceLast, Waiting
<1>6. NothingPending'
  BY DEF NothingPending
<1>7. CopiesIntact'
  <2> SUFFICES ASSUME NEW k \in DOMAIN commands', commands'[k] # Fence
               PROVE  /\ k \in DOMAIN commands
                      /\ commands'[k] = commands[k]
    BY DEF CopiesIntact, Bytes
  <2> QED BY <1>2
<1>8. HandsBelowCursor'
  BY DEF HandsBelowCursor
<1>9. Numbered'
  <2>1. commands' # <<>>
    BY <1>2
  <2>2. recorded' = Len(landed') + Len(commands') - 1
    BY <1>1, <1>2 DEF Numbered
  <2>3. \A k \in DOMAIN commands' : commands'[k] # Fence => commands'[k].upload = Len(landed') + k
    BY <1>1, <1>2 DEF Numbered
  <2> QED BY <1>1, <2>1, <2>2, <2>3 DEF Numbered, Waiting
<1> QED BY <1>4, <1>5, <1>6, <1>7, <1>8, <1>9

\* A copy goes behind the others, and its bytes are nobody else's.
LEMMA RecordStep == UpInv /\ Record => UpInv'
<1> SUFFICES ASSUME UpInv, Record PROVE UpInv'
  OBVIOUS
<1> USE DEF UpInv
<1> DEFINE new == Copy(recorded + 1, batch)
<1>1. /\ op = "upload" /\ op' = "idle" /\ batch' = NoBatch
      /\ recorded' = recorded + 1 /\ recorded \in Nat
      /\ commands' = Append(commands, new) /\ commands \in Seq(Copies \cup {Fence})
      /\ UNCHANGED <<capacity, m_cursor, large, recording, m_fence, landed, wanted>>
  BY DEF Record, UpTypes, stage
<1>2. /\ new \in Copies /\ new # Fence /\ new.upload = recorded + 1 /\ new.batch = batch
      /\ batch.buffer \in Buffer /\ batch.size \in Size
  <2>1. new \in Copies /\ new.upload = recorded + 1 /\ new.batch = batch
    BY <1>1 DEF Copy, Copies, UpTypes
  <2> QED BY <1>1, <2>1, FenceIsNoCopy DEF UpTypes
<1> HIDE DEF new
<1>3. /\ commands' \in Seq(Copies \cup {Fence})
      /\ Len(commands) \in Nat
      /\ Len(commands') = Len(commands) + 1
      /\ DOMAIN commands = 1 .. Len(commands) /\ DOMAIN commands' = 1 .. Len(commands) + 1
      /\ \A k \in 1 .. Len(commands) : commands'[k] = commands[k]
      /\ commands'[Len(commands) + 1] = new
  BY <1>1, <1>2, Appended
<1>4. /\ DOMAIN memory' = DOMAIN memory \cup Bytes(batch)
      /\ \A p \in DOMAIN memory' : memory'[p] = IF p \in Bytes(batch) THEN recorded + 1 ELSE memory[p]
  BY DEF Record
<1>5. UpTypes'
  BY <1>1, <1>3 DEF UpTypes, Batch
<1>6. FenceLast'
  BY <1>1, <1>2, <1>3 DEF FenceLast, Waiting
<1>7. NothingPending'
  BY <1>1 DEF NothingPending
<1>8. CopiesIntact'
  <2> SUFFICES ASSUME NEW k \in DOMAIN commands'
               PROVE  /\ commands'[k].batch.buffer \in Buffer
                      /\ commands'[k].batch.size \in Size
                      /\ commands'[k].batch.buffer = "stage" =>
                             commands'[k].batch.offset + commands'[k].batch.size <= m_cursor
                      /\ \A p \in Bytes(commands'[k].batch) :
                             p \in DOMAIN memory' /\ memory'[p] = commands'[k].upload
    BY <1>1 DEF CopiesIntact, Bytes
  <2>1. CASE k = Len(commands) + 1
    BY <1>1, <1>2, <1>3, <1>4, <2>1 DEF HandsBelowCursor
  <2>2. CASE k \in DOMAIN commands
    <3>1. commands[k] # Fence
      BY <1>1, <2>2 DEF FenceLast, Waiting
    <3>2. /\ commands[k].batch.buffer \in Buffer
          /\ commands[k].batch.size \in Size
          /\ commands[k].batch.buffer = "stage" =>
                 commands[k].batch.offset + commands[k].batch.size <= m_cursor
          /\ Bytes(commands[k].batch) \cap Bytes(batch) = {}
          /\ \A p \in Bytes(commands[k].batch) : p \in DOMAIN memory /\ memory[p] = commands[k].upload
      BY <1>1, <2>2, <3>1 DEF CopiesIntact
    <3> QED BY <1>3, <1>4, <2>2, <3>2
  <2> QED BY <1>3, <2>1, <2>2
<1>9. HandsBelowCursor'
  BY <1>1 DEF HandsBelowCursor
<1>10. Numbered'
  <2>1. ~ Waiting /\ ~ Waiting'
    BY <1>1 DEF Waiting
  <2>2. recorded = Len(landed) + Len(commands) /\ landed \in Seq(SUBSET Nat) /\ Len(landed) \in Nat
    BY <1>3, <2>1 DEF Numbered
  <2>3. ASSUME NEW k \in DOMAIN commands', commands'[k] # Fence
        PROVE  commands'[k].upload = Len(landed) + k
    <3>1. CASE k = Len(commands) + 1
      BY <1>2, <1>3, <2>2, <3>1
    <3>2. CASE k \in DOMAIN commands
      BY <1>3, <2>3, <3>2 DEF Numbered
    <3> QED BY <1>3, <3>1, <3>2
  <2> QED BY <1>1, <1>3, <2>1, <2>2, <2>3 DEF Numbered
<1> QED BY <1>5, <1>6, <1>7, <1>8, <1>9, <1>10

\* The wait is over: there is nothing left to read what is reused.
LEMMA FlushedStep == UpInv /\ Flushed => UpInv' /\ commands = <<>> /\ recorded = Len(landed)
<1> SUFFICES ASSUME UpInv, Flushed
             PROVE  UpInv' /\ commands = <<>> /\ recorded = Len(landed)
  OBVIOUS
<1> USE DEF UpInv
<1>1. /\ op \in {"flush", "slice", "destroy"} /\ m_fence = "signaled"
      /\ m_cursor' = 0 /\ recording' = FALSE
      /\ op' \in {"idle", "retry", "destroyed"}
      /\ op' = "retry" => op = "slice"
      /\ UNCHANGED <<m_fence, commands, landed, wanted, batch, recorded>>
  BY DEF Flushed, gpu
<1>2. commands = <<>> /\ Len(commands) = 0 /\ DOMAIN commands = {}
  BY <1>1 DEF FenceLast, Waiting
<1>3. recorded = Len(landed)
  BY <1>2 DEF Numbered, UpTypes
<1>4. UpTypes'
  BY <1>1 DEF UpTypes
<1>5. FenceLast' /\ NothingPending' /\ CopiesIntact' /\ HandsBelowCursor'
  BY <1>1, <1>2 DEF FenceLast, NothingPending, CopiesIntact, HandsBelowCursor, Waiting
<1>6. Numbered'
  BY <1>1, <1>2, <1>3 DEF Numbered
<1> QED BY <1>2, <1>3, <1>4, <1>5, <1>6

\* The GPU executes the fence, which is the last command, or the next copy, which finds the
\* bytes of its own upload.
LEMMA ExecuteStep ==
    ASSUME UpInv, Execute
    PROVE  /\ UpInv'
           /\ \/ UNCHANGED landed
              \/ Len(landed) < recorded /\ landed' = Append(landed, {Len(landed) + 1})
<1> USE DEF UpInv
<1>1. /\ commands # <<>> /\ commands' = Tail(commands)
      /\ UNCHANGED <<capacity, m_cursor, large, recording, memory, op, wanted, batch, recorded>>
      /\ commands \in Seq(Copies \cup {Fence}) /\ landed \in Seq(SUBSET Nat) /\ recorded \in Nat
  BY DEF Execute, stage, UpTypes, Numbered
<1>2. /\ commands' \in Seq(Copies \cup {Fence})
      /\ Len(commands) \in Nat \ {0}
      /\ Len(commands') = Len(commands) - 1
      /\ DOMAIN commands = 1 .. Len(commands) /\ DOMAIN commands' = 1 .. Len(commands) - 1
      /\ \A k \in 1 .. Len(commands) - 1 : commands'[k] = commands[k + 1]
      /\ Head(commands) = commands[1]
  BY <1>1, WithoutFirst
<1>3. UpTypes'
  BY <1>1, <1>2 DEF UpTypes
<1>4. NothingPending'
  BY <1>1 DEF NothingPending
<1>5. CopiesIntact'
  <2> SUFFICES ASSUME NEW k \in DOMAIN commands', commands'[k] # Fence
               PROVE  k + 1 \in DOMAIN commands /\ commands'[k] = commands[k + 1]
    BY <1>1 DEF CopiesIntact, Bytes
  <2> QED BY <1>2
<1>6. HandsBelowCursor'
  BY <1>1 DEF HandsBelowCursor
<1>7. Waiting' <=> Waiting
  BY <1>1 DEF Waiting
<1>8. ~ Waiting => \A k \in DOMAIN commands' : commands'[k] # Fence
  BY <1>2 DEF FenceLast
<1>9. Waiting => \A k \in DOMAIN commands' : commands'[k] = Fence <=> k = Len(commands')
  BY <1>2 DEF FenceLast
<1>10. CASE Head(commands) = Fence
  <2>1. m_fence' = "signaled" /\ landed' = landed
    BY <1>10 DEF Execute
  <2>2. Waiting /\ Len(commands) = 1
    BY <1>2, <1>10 DEF FenceLast
  <2>3. commands' = <<>>
    BY <1>2, <2>2
  <2>4. FenceLast'
    BY <2>1, <2>2, <2>3, <1>7 DEF FenceLast
  <2>5. recorded = Len(landed)
    BY <1>1, <2>2 DEF Numbered
  <2>6. Numbered'
    BY <1>1, <1>7, <2>1, <2>3, <2>5 DEF Numbered
  <2> QED BY <1>3, <1>4, <1>5, <1>6, <2>1, <2>4, <2>6
<1>11. CASE Head(commands) # Fence
  <2> DEFINE c == commands[1]
  <2>1. c # Fence /\ 1 \in DOMAIN commands /\ c \in Copies
    BY <1>1, <1>2, <1>11
  <2>2. landed' = Append(landed, Found(c.batch)) /\ m_fence' = m_fence
    BY <1>2, <1>11 DEF Execute
  <2>3. Found(c.batch) = {c.upload}
    <3>1. /\ c.batch.buffer \in Buffer /\ c.batch.size \in Size
          /\ \A p \in Bytes(c.batch) : p \in DOMAIN memory /\ memory[p] = c.upload
      BY <2>1 DEF CopiesIntact
    <3>2. c.batch \in Batch
      BY <2>1 DEF Copies
    <3>3. c.batch.offset \in c.batch.offset .. c.batch.offset + c.batch.size - 1
      BY <3>1, <3>2, BatchFields, UploadAssumption
    <3>4. <<c.batch.buffer, c.batch.offset>> \in Bytes(c.batch)
      BY <3>3 DEF Bytes
    <3> HIDE DEF c
    <3> QED BY <3>1, <3>4 DEF Found
  <2>4. c.upload = Len(landed) + 1
    BY <2>1 DEF Numbered
  <2>5. landed' = Append(landed, {Len(landed) + 1}) /\ {Len(landed) + 1} \in SUBSET Nat /\ Len(landed) \in Nat
    BY <1>1, <2>2, <2>3, <2>4
  <2>6. landed' \in Seq(SUBSET Nat) /\ Len(landed') = Len(landed) + 1
    BY <1>1, <2>5, Appended
  <2>7. Waiting => Len(commands) > 1
    BY <1>2, <2>1 DEF FenceLast
  <2>8. Len(landed) < recorded
    BY <1>1, <1>2, <2>5, <2>7 DEF Numbered
  <2>9. FenceLast'
    BY <1>1, <1>7, <1>8, <1>9, <2>2 DEF FenceLast
  <2>10. recorded' = Len(landed') + Len(commands') - (IF Waiting' /\ commands' # <<>> THEN 1 ELSE 0)
    <3>1. recorded = Len(landed) + Len(commands) - (IF Waiting THEN 1 ELSE 0)
      BY <1>1 DEF Numbered
    <3>2. Waiting => commands' # <<>>
      BY <1>2, <2>7
    <3>3. Len(landed') + Len(commands') = Len(landed) + Len(commands)
      BY <1>2, <2>5, <2>6
    <3>4. recorded' = recorded
      BY <1>1
    <3>5. CASE Waiting
      BY <1>7, <3>1, <3>2, <3>3, <3>4, <3>5
    <3>6. CASE ~ Waiting
      BY <1>7, <3>1, <3>3, <3>4, <3>6
    <3> HIDE DEF UpInv
    <3> QED BY <3>5, <3>6
  <2>11. ASSUME NEW k \in DOMAIN commands', commands'[k] # Fence
         PROVE  commands'[k].upload = Len(landed') + k
    <3>1. k + 1 \in DOMAIN commands /\ commands'[k] = commands[k + 1]
      BY <1>2
    <3>2. commands[k + 1].upload = Len(landed) + (k + 1)
      BY <2>11, <3>1 DEF Numbered
    <3> QED BY <1>2, <2>5, <2>6, <3>1, <3>2
  <2>12. Numbered'
    BY <2>6, <2>10, <2>11 DEF Numbered
  <2> QED BY <1>3, <1>4, <1>5, <1>6, <2>5, <2>8, <2>9, <2>12
<1> QED BY <1>10, <1>11

\* The first attempt of slice.
LEMMA SliceStep ==
    ASSUME UpInv, NEW size \in Size, Slice(size)
    PROVE  UpInv' /\ UNCHANGED <<recorded, landed, flushed>>
<1> USE DEF UpInv
<1>1. CASE SliceFits(size)
  <2>1. /\ SliceOfStage(size) /\ ~ Waiting /\ op # "upload" /\ recording' = TRUE
        /\ UNCHANGED <<commands, landed, memory, recorded, m_fence>> /\ flushed' = flushed
        /\ wanted' \in Size \cup {0}
    BY <1>1 DEF SliceFits, Waiting, gpu, UpTypes
  <2>2. UpInv'
    BY <2>1, StageSliceStep
  <2> QED BY <2>1, <2>2
<1>2. CASE SliceFlushes(size)
  <2>1. /\ ~ Waiting /\ op = "idle" /\ wanted' = size
        /\ UNCHANGED <<m_cursor, recording, memory, batch, recorded>> /\ flushed' = flushed
    BY <1>2 DEF SliceFlushes, Waiting
  <2>2. CASE recording /\ op' = "slice" /\ SignalFence
    <3>1. UpInv'
      BY <2>1, <2>2, SignalStep
    <3> QED BY <2>1, <2>2, <3>1 DEF SignalFence
  <2>3. CASE ~ recording /\ op' = "retry" /\ UNCHANGED <<m_fence, commands, landed>>
    <3>1. commands = <<>>
      BY <2>3 DEF NothingPending
    <3>2. UpTypes'
      BY <2>1, <2>3 DEF UpTypes
    <3>3. FenceLast' /\ NothingPending' /\ CopiesIntact' /\ HandsBelowCursor'
      BY <2>1, <2>3, <3>1 DEF FenceLast, NothingPending, CopiesIntact, HandsBelowCursor, Waiting
    <3>4. Numbered'
      BY <2>1, <2>3, <3>1 DEF Numbered
    <3> QED BY <2>1, <2>3, <3>2, <3>3, <3>4
  <2> QED BY <1>2, <2>2, <2>3 DEF SliceFlushes, gpu
<1> QED BY <1>1, <1>2 DEF Slice

\* The second: there is nothing pending that a buffer of its own could disturb.
LEMMA RetryStep ==
    ASSUME UpInv, SliceRetries
    PROVE  UpInv' /\ UNCHANGED <<recorded, landed, flushed>>
<1> USE DEF UpInv
<1>1. /\ op = "retry" /\ recording' = TRUE /\ wanted' = 0 /\ wanted \in Size
      /\ UNCHANGED <<commands, landed, memory, recorded, m_fence>> /\ flushed' = flushed
      /\ commands = <<>>
  BY DEF SliceRetries, gpu, UpTypes, NothingPending
<1>2. CASE SliceOfStage(wanted)
  <2>1. UpInv'
    BY <1>1, <1>2, StageSliceStep DEF Waiting
  <2> QED BY <1>1, <2>1
<1>3. CASE LargeSlice /\ op' = "upload" /\ UNCHANGED m_cursor
  <2> DEFINE b == [buffer |-> "large", offset |-> 0, size |-> wanted]
  <2>1. batch' = b
    BY <1>3 DEF LargeSlice
  <2>2. b \in Batch /\ b.buffer = "large" /\ b.size = wanted
    BY <1>1 DEF Batch, Buffer
  <2> HIDE DEF b
  <2>3. UpTypes'
    BY <1>1, <1>3, <2>1, <2>2 DEF UpTypes, Buffer
  <2>4. FenceLast' /\ NothingPending' /\ CopiesIntact' /\ HandsBelowCursor'
    BY <1>1, <1>3, <2>1, <2>2 DEF FenceLast, NothingPending, CopiesIntact, HandsBelowCursor, Waiting
  <2>5. Numbered'
    BY <1>1, <1>3 DEF Numbered
  <2> QED BY <1>1, <2>3, <2>4, <2>5
<1> QED BY <1>2, <1>3 DEF SliceRetries

\* flush and the destructor, with a queue and without, up to the wait.
LEMMA FlushStep ==
    ASSUME UpInv, NEW call \in {"flush", "destroy"}, Flush(call)
    PROVE  UpInv' /\ UNCHANGED <<recorded, landed, flushed>>
<1>1. /\ ~ Waiting /\ op # "upload" /\ recording /\ op' = call /\ SignalFence
      /\ UNCHANGED <<m_cursor, recording, memory, batch, recorded>>
      /\ wanted' = wanted /\ flushed' = flushed
  BY DEF Flush, stage, Waiting
<1>2. wanted' \in Size \cup {0}
  BY <1>1 DEF UpInv, UpTypes
<1>3. UpInv'
  BY <1>1, <1>2, SignalStep
<1> QED BY <1>1, <1>3 DEF SignalFence

LEMMA DestroyIdleStep ==
    ASSUME UpInv, DestroyIdle
    PROVE  UpInv' /\ UNCHANGED <<recorded, landed, flushed>>
<1> USE DEF UpInv
<1>1. /\ op = "idle" /\ op' = "destroyed" /\ ~ recording
      /\ UNCHANGED <<m_cursor, recording, m_fence, commands, landed, memory, wanted, batch, recorded, flushed>>
  BY DEF DestroyIdle, stage, gpu
<1>2. commands = <<>>
  BY <1>1 DEF NothingPending
<1>3. UpTypes'
  BY <1>1 DEF UpTypes
<1>4. FenceLast' /\ NothingPending' /\ CopiesIntact' /\ HandsBelowCursor'
  BY <1>1, <1>2 DEF FenceLast, NothingPending, CopiesIntact, HandsBelowCursor, Waiting
<1>5. Numbered'
  BY <1>1, <1>2 DEF Numbered
<1> QED BY <1>1, <1>3, <1>4, <1>5

\* A call outside the context changes nothing in it.
LEMMA StutterStep == UpInv /\ UNCHANGED upVars => UpInv' /\ UNCHANGED <<recorded, landed, flushed>>
<1> SUFFICES ASSUME UpInv, UNCHANGED upVars
             PROVE  UpInv' /\ UNCHANGED <<recorded, landed, flushed>>
  OBVIOUS
<1> USE DEF UpInv
<1>1. UNCHANGED <<m_cursor, recording, m_fence, commands, landed, memory, op, wanted, batch, recorded, flushed>>
  BY DEF upVars, stage, gpu
<1>2. UpTypes' /\ NothingPending' /\ HandsBelowCursor'
  BY <1>1 DEF UpTypes, NothingPending, HandsBelowCursor
<1>3. FenceLast' /\ Numbered'
  BY <1>1 DEF FenceLast, Numbered, Waiting
<1>4. CopiesIntact'
  BY <1>1 DEF CopiesIntact, Bytes
<1> QED BY <1>1, <1>2, <1>3, <1>4
-----------------------------------------------------------------------------
\* Every step keeps the invariant, and is a step of the stream of uploads or none.
LEMMA UpStep ==
    ASSUME UpInv, [UpNext]_upVars
    PROVE  UpInv' /\ [Stream!Next]_(Stream!vars)
<1> USE DEF Stream!vars
<1>1. CASE UNCHANGED upVars
  BY <1>1, StutterStep
<1>2. ASSUME NEW size \in Size, Slice(size)
      PROVE  UpInv' /\ [Stream!Next]_(Stream!vars)
  BY <1>2, SliceStep
<1>3. CASE FlushIdle
  BY <1>3, StutterStep DEF FlushIdle
<1>4. ASSUME NEW call \in {"flush", "destroy"}, Flush(call)
      PROVE  UpInv' /\ [Stream!Next]_(Stream!vars)
  BY <1>4, FlushStep
<1>5. CASE DestroyIdle
  BY <1>5, DestroyIdleStep
<1>6. CASE SliceRetries
  BY <1>6, RetryStep
<1>7. CASE Record
  <2>1. recorded' = recorded + 1 /\ UNCHANGED <<landed, flushed>>
    BY <1>7 DEF Record
  <2> QED BY <1>7, <2>1, RecordStep DEF Stream!Next, Stream!Record
<1>8. CASE Flushed
  <2>1. flushed' = recorded /\ UNCHANGED <<recorded, landed>>
    BY <1>8 DEF Flushed, gpu
  <2> QED BY <1>8, <2>1, FlushedStep DEF Stream!Next, Stream!Flush
<1>9. CASE Execute
  <2>1. UNCHANGED <<recorded, flushed>>
    BY <1>9 DEF Execute
  <2> QED BY <1>9, <2>1, ExecuteStep DEF Stream!Next, Stream!Land
<1> QED BY <1>1, <1>2, <1>3, <1>4, <1>5, <1>6, <1>7, <1>8, <1>9 DEF UpNext, Continue

\* The invariant says more than the property does.
LEMMA UpInvImplies == UpInv => StagedUntilExecuted
<1> SUFFICES ASSUME UpInv, NEW k \in DOMAIN commands, commands[k] # Fence
             PROVE  Found(commands[k].batch) = {commands[k].upload}
  BY DEF StagedUntilExecuted
<1> DEFINE c == commands[k]
<1>1. /\ c \in Copies /\ c.batch.buffer \in Buffer /\ c.batch.size \in Size
      /\ \A p \in Bytes(c.batch) : p \in DOMAIN memory /\ memory[p] = c.upload
  BY DEF UpInv, UpTypes, CopiesIntact
<1>2. c.batch \in Batch
  BY <1>1 DEF Copies
<1>3. c.batch.offset \in c.batch.offset .. c.batch.offset + c.batch.size - 1
  BY <1>1, <1>2, BatchFields, UploadAssumption
<1>4. <<c.batch.buffer, c.batch.offset>> \in Bytes(c.batch)
  BY <1>3 DEF Bytes
<1> HIDE DEF c
<1>5. Found(c.batch) = {c.upload}
  BY <1>1, <1>4 DEF Found
<1> QED BY <1>5 DEF c

\* Staging memory is not written again, and the separate buffer not freed, before the GPU
\* has executed the copies that read them (the implicit flush of slice included).
THEOREM StagedSafe == UpSpec => []StagedUntilExecuted
<1>1. UpInit => UpInv
  BY UpInitInv
<1>2. UpInv /\ [UpNext]_upVars => UpInv'
  BY UpStep
<1>3. UpInv => StagedUntilExecuted
  BY UpInvImplies
<1> QED BY <1>1, <1>2, <1>3, PTL DEF UpSpec

\* The upload context implements the stream of uploads: in order, each with its own bytes,
\* and a flush returns when all have landed.
THEOREM UploadsStream == UpSpec => IsUploadStream
<1>1. UpInit => UpInv /\ Stream!Init
  BY UpInitInv DEF UpInit, Stream!Init
<1>2. UpInv /\ [UpNext]_upVars => UpInv' /\ [Stream!Next]_(Stream!vars)
  BY UpStep
<1> QED BY <1>1, <1>2, PTL DEF UpSpec, IsUploadStream, Stream!Spec

------------------------------------------------------------------------------
\* The steps that leave the upload context alone.
LEMMA Elsewhere ==
    ASSUME \/ \E n \in Name : LoadFound(n)
           \/ \E n \in Name, a \in Address : LoadInserted(n, a)
           \/ \E a \in Address : ReleaseResource(a)
           \/ BeginFrame
           \/ LoadFails \/ LoadAbandons \/ LoadSucceeds \/ LoadTexture \/ LoadUploaded
           \/ EagerSync \/ FrameSync
    PROVE  UNCHANGED upVars
<1>1. CASE \/ \E n \in Name : LoadFound(n)
           \/ \E n \in Name, a \in Address : LoadInserted(n, a)
           \/ \E a \in Address : ReleaseResource(a)
           \/ BeginFrame
  BY <1>1 DEF LoadFound, LoadInserted, ReleaseResource, BeginFrame
<1>2. CASE LoadFails \/ LoadSucceeds \/ LoadUploaded
  BY <1>2 DEF LoadFails, LoadSucceeds, LoadUploaded, Answer
<1>3. CASE LoadAbandons \/ LoadTexture \/ EagerSync \/ FrameSync
  BY <1>3 DEF LoadAbandons, LoadTexture, EagerSync, FrameSync
<1> QED BY <1>1, <1>2, <1>3

\* A step of the manager is a step of the upload context, or none.
LEMMA MgrStepIsUpStep == [MgrNext]_mgrVars => [UpNext]_upVars
<1> SUFFICES ASSUME [MgrNext]_mgrVars PROVE [UpNext]_upVars
  OBVIOUS
<1>1. CASE UNCHANGED mgrVars
  BY <1>1 DEF mgrVars
<1>2. CASE TakeSlice
  BY <1>2 DEF TakeSlice, UpNext
<1>3. CASE SliceGoesOn
  BY <1>3 DEF SliceGoesOn, UpNext, Continue
<1>4. CASE RecordPlaceholder \/ RecordLevel \/ RecordAtlas
  BY <1>4 DEF RecordPlaceholder, RecordLevel, RecordAtlas, UpNext, Continue
<1>5. CASE FrameFlush
  BY <1>5 DEF FrameFlush, UpNext
<1>6. CASE FrameEnds \/ Destroyed
  BY <1>6 DEF FrameEnds, Destroyed, UpNext, Continue
<1>7. CASE Destroy
  BY <1>7 DEF Destroy, UpNext
<1>8. CASE GpuExecutes
  BY <1>8 DEF GpuExecutes, UpNext
<1> QED BY <1>1, <1>2, <1>3, <1>4, <1>5, <1>6, <1>7, <1>8, Elsewhere DEF MgrNext, Proceed

\* While frames load, release and draw, staging memory is not written again before the GPU
\* has executed the copies that read it.
THEOREM ManagerStagedSafe == MgrSpec => []StagedUntilExecuted
<1>1. MgrInit => UpInv
  BY UpInitInv DEF MgrInit
<1>2. UpInv /\ [MgrNext]_mgrVars => UpInv'
  BY MgrStepIsUpStep, UpStep
<1>3. UpInv => StagedUntilExecuted
  BY UpInvImplies
<1> QED BY <1>1, <1>2, <1>3, PTL DEF MgrSpec

\* The textures of all its loads reach the GPU as one stream of uploads, in order and whole.
THEOREM ManagerUploadsStream == MgrSpec => IsUploadStream
<1>1. MgrInit => UpInv /\ Stream!Init
  BY UpInitInv DEF MgrInit, UpInit, Stream!Init
<1>2. UpInv /\ [MgrNext]_mgrVars => UpInv' /\ [Stream!Next]_(Stream!vars)
  BY MgrStepIsUpStep, UpStep
<1> QED BY <1>1, <1>2, PTL DEF MgrSpec, IsUploadStream, Stream!Spec
-----------------------------------------------------------------------------
\* Uploads are counted, and those that no flush has waited for keep a queue.
UploadsCounted == /\ recorded \in Nat /\ flushed \in Nat
                  /\ flushed <= recorded
                  /\ ~ recording => flushed = recorded

\* Only frame and eager make a resource ready; what a frame makes ready it flushes before it
\* ends, and a kind that is synced at once has no textures of its own.
Flow ==
    /\ textures \in [Address -> SUBSET (1 .. recorded)]
    /\ fonts \in 0 .. recorded
    /\ kind # "texture" => \A a \in Address : textures[a] = {}
    /\ pc = "eager" => kind # "texture"
    /\ pc = "uploading" => kind = "texture"
    /\ pc \in {"inserted", "uploading"} => slot \in Address /\ ~ Ready(slot)
    /\ pc \notin {"frame", "atlas", "flush"} =>
           \A a \in Address : Ready(a) => textures[a] \subseteq 1 .. flushed
    /\ pc \notin {"atlas", "flush"} /\ ~ dirty => fonts <= flushed

MgrInv == UpInv /\ RegInv /\ UploadsCounted /\ Flow

\* Before the placeholder is uploaded there is nothing to show.
LEMMA MgrInitInv == MgrInit => MgrInv
<1> SUFFICES ASSUME MgrInit PROVE MgrInv
  OBVIOUS
<1>1. UpInv
  BY UpInitInv DEF MgrInit
<1>2. RegInv
  BY RegInitInv DEF MgrInit
<1>3. recorded = 0 /\ flushed = 0
  BY DEF MgrInit, UpInit
<1>4. UploadsCounted
  BY <1>3 DEF UploadsCounted
<1>5. \A a \in Address : ~ Ready(a)
  BY DEF MgrInit, Init, Ready, Alive
<1>6. Flow
  BY <1>3, <1>5 DEF MgrInit, Flow
<1> QED BY <1>1, <1>2, <1>4, <1>6 DEF MgrInv

\* The upload context never forgets an upload that no flush has waited for.
LEMMA CountedStep ==
    ASSUME UpInv, UploadsCounted, [UpNext]_upVars
    PROVE  UploadsCounted' /\ recorded <= recorded' /\ flushed <= flushed'
<1> USE DEF UploadsCounted
<1>1. CASE UNCHANGED upVars \/ FlushIdle
  BY <1>1 DEF upVars, stage, FlushIdle
<1>2. ASSUME NEW size \in Size, Slice(size)
      PROVE  UploadsCounted' /\ recorded <= recorded' /\ flushed <= flushed'
  <2>1. UNCHANGED <<recorded, flushed>>
    BY <1>2 DEF Slice, SliceFits, SliceFlushes
  <2>2. recording' = TRUE \/ recording' = recording
    BY <1>2 DEF Slice, SliceFits, SliceFlushes
  <2> QED BY <2>1, <2>2
<1>3. CASE \E call \in {"flush", "destroy"} : Flush(call)
  BY <1>3 DEF Flush, stage
<1>4. CASE DestroyIdle
  BY <1>4 DEF DestroyIdle, stage
<1>5. CASE SliceRetries
  BY <1>5 DEF SliceRetries
<1>6. CASE Record
  <2>1. recording
    BY <1>6 DEF Record, UpInv, NothingPending
  <2> QED BY <1>6, <2>1 DEF Record, stage
<1>7. CASE Flushed
  BY <1>7 DEF Flushed
<1>8. CASE Execute
  BY <1>8 DEF Execute, stage
<1> QED BY <1>1, <1>2, <1>3, <1>4, <1>5, <1>6, <1>7, <1>8 DEF UpNext, Continue
-----------------------------------------------------------------------------
\* The calls of the registry: only sync makes anything ready.
LEMMA FoundKeeps ==
    ASSUME RegInv, NEW n \in Name, MakeSlotFound(n)
    PROVE  RegInv' /\ \A b \in Address : Ready(b)' => Ready(b)
<1>1. PICK a \in Address : /\ Alive(a) /\ entries[a] \in AnyEntry
                           /\ entries' = [entries EXCEPT ![a].rc = @ + 1]
  BY LiveEntry DEF MakeSlotFound, RegInv, RegTypes, Lookup
<1>2. /\ entries'[a].status = entries[a].status
      /\ \A b \in Address \ {a} : entries'[b] = entries[b]
  BY <1>1 DEF RegInv, RegTypes, AnyEntry
<1> QED BY <1>1, <1>2, MakeSlotFoundStep DEF Ready, Alive

\* A name that is inserted gets an entry of its own, which is not ready.
LEMMA InsertedKeeps ==
    ASSUME RegInv, NEW n \in Name, NEW a \in Address, MakeSlotInserted(n, a)
    PROVE  RegInv' /\ ~ Ready(a)' /\ \A b \in Address : Ready(b)' => Ready(b) /\ b # a
<1>1. entries' = [entries EXCEPT ![a] = NewEntry(n)] /\ NewEntry(n).status = "unloaded"
  BY DEF MakeSlotInserted, NewEntry
<1>2. entries'[a].status = "unloaded" /\ \A b \in Address \ {a} : entries'[b] = entries[b]
  BY <1>1 DEF RegInv, RegTypes
<1>3. RegInv'
  BY MakeSlotInsertedStep
<1> QED BY <1>2, <1>3 DEF Ready, Alive

LEMMA PublishKeeps ==
    ASSUME RegInv, slot \in Address, NEW k \in {"set_ready", "set_failed"}, Publish(slot, k)
    PROVE  RegInv' /\ \A b \in Address : Ready(b)' <=> Ready(b)
<1>1. k \in Kind /\ UNCHANGED entries
  BY DEF Publish, Push, Kind
<1> QED BY <1>1, PublishStep DEF Ready, Alive

LEMMA ReleaseKeeps ==
    ASSUME RegInv, NEW a \in Address, Release(a)
    PROVE  RegInv' /\ \A b \in Address : Ready(b)' <=> Ready(b)
<1>1. UNCHANGED entries
  BY DEF Release, Push
<1> QED BY <1>1, ReleaseStep DEF Ready, Alive

LEMMA SyncKeeps == RegInv /\ Sync => RegInv'
BY StartSyncStep, SyncStepKeeps DEF Sync

\* A load that ends without an answer leaves its slot to those who hold it.
LEMMA AbandonKeeps ==
    ASSUME RegInv, unpublished' \subseteq unpublished,
           UNCHANGED <<m_resources, entries, m_pending_transitions, syncing, holders>>
    PROVE  RegInv' /\ \A b \in Address : Ready(b)' <=> Ready(b)
<1> USE DEF RegInv
<1>1. RegTypes' /\ Lookup'
  BY DEF RegTypes, Lookup, Alive, Queue
<1>2. Balance'
  BY DEF Balance, Alive, Queued
<1>3. DeadUnused' /\ UnpublishedHeld' /\ AnsweredOnce'
  BY DEF DeadUnused, UnpublishedHeld, AnsweredOnce, Alive, Queue
<1>4. CountedToTheEnd'
  BY DEF CountedToTheEnd, Counts, Alive, Queue
<1> QED BY <1>1, <1>2, <1>3, <1>4 DEF Ready, Alive
-----------------------------------------------------------------------------
\* The steps of the manager that leave its registry alone: nothing becomes ready by them.
LEMMA RegistryRests ==
    ASSUME RegInv, UNCHANGED regVars
    PROVE  RegInv' /\ \A b \in Address : Ready(b)' <=> Ready(b)
BY RegStutter DEF regVars, vars, Ready, Alive

\* What every step of the manager does to the numbers of the uploads.
LEMMA UploadsStep ==
    ASSUME MgrInv, [MgrNext]_mgrVars
    PROVE  /\ UpInv' /\ UploadsCounted'
           /\ recorded \in Nat /\ flushed \in Nat /\ recorded' \in Nat /\ flushed' \in Nat
           /\ recorded <= recorded' /\ flushed <= flushed' /\ flushed' <= recorded'
<1>1. [UpNext]_upVars
  BY MgrStepIsUpStep
<1>2. UpInv'
  BY <1>1, UpStep DEF MgrInv
<1>3. UploadsCounted' /\ recorded <= recorded' /\ flushed <= flushed'
  BY <1>1, CountedStep DEF MgrInv
<1> QED BY <1>2, <1>3 DEF MgrInv, UploadsCounted

\* The uploads of every texture stay within what has been recorded, and those that have
\* reached the GPU stay there.
LEMMA UploadsGrow ==
    ASSUME MgrInv, [MgrNext]_mgrVars
    PROVE  /\ 1 .. recorded \subseteq 1 .. recorded' /\ 1 .. flushed \subseteq 1 .. flushed'
           /\ 0 .. recorded \subseteq 0 .. recorded'
           /\ \A f \in 0 .. recorded : f <= flushed => f <= flushed'
BY UploadsStep

\* What becomes ready in a step: nothing, or what has no textures, or what the frame flushes.
NothingUnsafe == \/ \A b \in Address : Ready(b)' => Ready(b)
                 \/ pc' \in {"eager", "idle"} /\ kind # "texture"
                 \/ pc' \in {"frame", "atlas"}

\* A step that leaves the uploads of the textures and the atlas as they are.
LEMMA FlowRests ==
    ASSUME MgrInv, [MgrNext]_mgrVars, UNCHANGED <<kind, textures, fonts>>,
           NothingUnsafe, ~ dirty' => ~ dirty,
           pc' = "eager" => kind # "texture",
           pc' = "uploading" => kind = "texture",
           pc' \in {"inserted", "uploading"} =>
               pc \in {"inserted", "uploading"} /\ slot' = slot,
           pc \in {"frame", "atlas", "flush"} =>
               pc' \in {"frame", "atlas", "flush"} \/ flushed' = recorded,
           pc \in {"atlas", "flush"} => pc' \in {"atlas", "flush"} \/ flushed' = recorded
    PROVE  Flow'
<1>1. /\ textures \in [Address -> SUBSET (1 .. recorded)] /\ fonts \in 0 .. recorded
      /\ kind # "texture" => \A a \in Address : textures[a] = {}
      /\ pc \in {"inserted", "uploading"} => slot \in Address /\ ~ Ready(slot)
  BY DEF MgrInv, Flow
<1>2. textures' \in [Address -> SUBSET (1 .. recorded')] /\ fonts' \in 0 .. recorded'
  BY <1>1, UploadsGrow
<1>3. pc' \in {"inserted", "uploading"} => slot' \in Address /\ ~ Ready(slot)'
  <2> SUFFICES ASSUME pc' \in {"inserted", "uploading"}
               PROVE  slot' \in Address /\ ~ Ready(slot)'
    OBVIOUS
  <2>1. slot' = slot /\ slot \in Address /\ ~ Ready(slot)
    BY <1>1
  <2>2. \A b \in Address : Ready(b)' => Ready(b)
    BY DEF NothingUnsafe
  <2>3. Ready(slot)' => Ready(slot)
    BY <2>1, <2>2 DEF Ready, Alive
  <2> QED BY <2>1, <2>3
<1>4. ASSUME pc' \notin {"frame", "atlas", "flush"}, NEW a \in Address, Ready(a)'
      PROVE  textures'[a] \subseteq 1 .. flushed'
  <2>1. textures[a] \subseteq 1 .. recorded /\ textures' = textures
    BY <1>1
  <2>2. CASE pc \in {"frame", "atlas", "flush"}
    BY <1>4, <2>1, <2>2
  <2>3. CASE kind # "texture"
    BY <1>1, <2>1, <2>3
  <2>4. CASE kind = "texture" /\ pc \notin {"frame", "atlas", "flush"}
    <3>1. Ready(a)
      BY <1>4, <2>4 DEF NothingUnsafe
    <3>2. textures[a] \subseteq 1 .. flushed
      BY <2>4, <3>1 DEF MgrInv, Flow
    <3> QED BY <2>1, <3>2, UploadsGrow
  <2> QED BY <2>2, <2>3, <2>4
<1>5. ASSUME pc' \notin {"atlas", "flush"}, ~ dirty' PROVE fonts' <= flushed'
  <2>1. CASE pc \in {"atlas", "flush"}
    BY <1>1, <1>5, <2>1, UploadsStep
  <2>2. CASE pc \notin {"atlas", "flush"}
    BY <1>1, <1>5, <2>2, UploadsGrow DEF MgrInv, Flow
  <2> QED BY <2>1, <2>2
<1>6. kind' # "texture" => \A a \in Address : textures'[a] = {}
  BY <1>1
<1>7. (pc' = "eager" => kind' # "texture") /\ (pc' = "uploading" => kind' = "texture")
  BY <1>1
<1> QED BY <1>2, <1>3, <1>4, <1>5, <1>6, <1>7 DEF Flow

\* The loads that upload nothing, and the releases.
LEMMA LoadStep ==
    ASSUME MgrInv, [MgrNext]_mgrVars,
           \/ \E n \in Name : LoadFound(n)
           \/ \E a \in Address : ReleaseResource(a)
           \/ LoadFails \/ LoadAbandons \/ LoadSucceeds \/ LoadTexture \/ LoadUploaded
    PROVE  RegInv' /\ Flow'
<1> USE DEF NothingUnsafe
<1>1. RegInv
  BY DEF MgrInv
<1>2. CASE \E n \in Name : LoadFound(n)
  <2>1. PICK n \in Name : LoadFound(n)
    BY <1>2
  <2>2. MakeSlotFound(n) /\ pc = "idle" /\ UNCHANGED <<kind, pc, loadVars, fonts, dirty>>
    BY <2>1 DEF LoadFound
  <2>3. RegInv' /\ \A b \in Address : Ready(b)' => Ready(b)
    BY <1>1, <2>2, FoundKeeps
  <2> QED BY <2>2, <2>3, FlowRests DEF loadVars
<1>3. CASE \E a \in Address : ReleaseResource(a)
  <2>1. PICK a \in Address : ReleaseResource(a)
    BY <1>3
  <2>2. Release(a) /\ pc = "idle" /\ UNCHANGED <<kind, pc, loadVars, fonts, dirty>>
    BY <2>1 DEF ReleaseResource
  <2>3. RegInv' /\ \A b \in Address : Ready(b)' <=> Ready(b)
    BY <1>1, <2>2, ReleaseKeeps
  <2> QED BY <2>2, <2>3, FlowRests DEF loadVars
<1>4. ASSUME NEW k \in {"set_ready", "set_failed"}, NEW syncs,
             Answer(k, syncs), "texture" \notin syncs, ~ dirty' => ~ dirty,
             pc \in {"inserted", "uploading"}
      PROVE  RegInv' /\ Flow'
  <2>1. Publish(slot, k) /\ slot \in Address
    BY <1>4 DEF Answer, MgrInv, Flow
  <2>2. RegInv' /\ \A b \in Address : Ready(b)' <=> Ready(b)
    BY <1>1, <1>4, <2>1, PublishKeeps
  <2>3. pc' = (IF kind \in syncs THEN "eager" ELSE "idle") /\ UNCHANGED <<kind, textures, fonts>>
    BY <1>4 DEF Answer
  <2>4. (pc' = "eager" => kind # "texture") /\ pc' \in {"eager", "idle"}
    BY <1>4, <2>3
  <2> QED BY <1>4, <2>2, <2>3, <2>4, FlowRests
<1>5. CASE LoadFails
  BY <1>4, <1>5 DEF LoadFails
<1>6. CASE LoadSucceeds
  BY <1>4, <1>6 DEF LoadSucceeds
<1>7. CASE LoadUploaded
  BY <1>4, <1>7 DEF LoadUploaded
<1>8. CASE LoadAbandons
  <2>1. /\ pc = "inserted" /\ pc' = "idle"
        /\ UNCHANGED <<m_resources, entries, m_pending_transitions, syncing, holders,
                       kind, textures, fonts, dirty>>
        /\ unpublished' = unpublished \ {slot}
    BY <1>8 DEF LoadAbandons
  <2>2. RegInv' /\ \A b \in Address : Ready(b)' <=> Ready(b)
    BY <1>1, <2>1, AbandonKeeps
  <2> QED BY <2>1, <2>2, FlowRests
<1>9. CASE LoadTexture
  <2>1. /\ pc = "inserted" /\ kind = "texture" /\ pc' = "uploading"
        /\ UNCHANGED <<regVars, kind, slot, textures, fonts, dirty>>
    BY <1>9 DEF LoadTexture
  <2>2. RegInv' /\ \A b \in Address : Ready(b)' <=> Ready(b)
    BY <1>1, <2>1, RegistryRests
  <2> QED BY <2>1, <2>2, FlowRests
<1> QED BY <1>2, <1>3, <1>5, <1>6, <1>7, <1>8, <1>9

\* The steps of the calls that use the upload context, but record nothing of their own.
LEMMA UploadStep ==
    ASSUME MgrInv, [MgrNext]_mgrVars,
           \/ TakeSlice \/ SliceGoesOn \/ RecordPlaceholder \/ FrameFlush \/ FrameEnds
           \/ Destroy \/ Destroyed \/ GpuExecutes \/ BeginFrame \/ UNCHANGED mgrVars
    PROVE  RegInv' /\ Flow'
<1>1. UNCHANGED regVars /\ UNCHANGED <<kind, slot, textures, fonts, dirty>>
  BY DEF TakeSlice, SliceGoesOn, RecordPlaceholder, FrameFlush, FrameEnds, Destroy, Destroyed,
         GpuExecutes, BeginFrame, mgrVars, loadVars
<1>2. RegInv' /\ \A b \in Address : Ready(b)' <=> Ready(b)
  BY <1>1, RegistryRests DEF MgrInv
<1>3. NothingUnsafe
  BY <1>2 DEF NothingUnsafe
<1>4. (pc = "eager" => kind # "texture") /\ (pc = "uploading" => kind = "texture")
  BY DEF MgrInv, Flow
<1>5. CASE UNCHANGED pc
  BY <1>1, <1>2, <1>3, <1>4, <1>5, FlowRests
<1>6. CASE FrameFlush
  <2>1. pc = "atlas" /\ pc' \in {"flush", "idle"}
    BY <1>6 DEF FrameFlush
  <2>2. pc' = "flush" \/ flushed' = recorded
    BY <1>6 DEF FrameFlush, FlushIdle, MgrInv, UploadsCounted, upVars
  <2> QED BY <1>1, <1>2, <1>3, <2>1, <2>2, FlowRests
<1>7. CASE FrameEnds
  <2>1. pc = "flush" /\ pc' = "idle" /\ flushed' = recorded
    BY <1>7 DEF FrameEnds, Flushed
  <2> QED BY <1>1, <1>2, <1>3, <2>1, FlowRests
<1>8. CASE RecordPlaceholder \/ Destroy
  <2>1. pc \in {"placeholder", "idle"} /\ pc' \in {"idle", "destroyed"}
    BY <1>8 DEF RecordPlaceholder, Destroy
  <2> QED BY <1>1, <1>2, <1>3, <2>1, FlowRests
<1>9. CASE BeginFrame
  <2>1. pc = "idle" /\ pc' \in {"atlas", "frame"}
    BY <1>9 DEF BeginFrame
  <2> QED BY <1>1, <1>2, <1>3, <2>1, FlowRests
<1> QED BY <1>5, <1>6, <1>7, <1>8, <1>9
        DEF TakeSlice, SliceGoesOn, Destroyed, GpuExecutes, mgrVars

\* The two loops that apply what is queued.
LEMMA SyncStepFlows ==
    ASSUME MgrInv, [MgrNext]_mgrVars, EagerSync \/ FrameSync
    PROVE  RegInv' /\ Flow'
<1>1. Sync /\ UNCHANGED <<kind, textures, fonts>> /\ (~ dirty' => ~ dirty)
  BY DEF EagerSync, FrameSync, loadVars
<1>2. RegInv'
  BY <1>1, SyncKeeps DEF MgrInv
<1>3. CASE EagerSync
  <2>1. pc = "eager" /\ pc' \in {"eager", "idle"} /\ kind # "texture"
    BY <1>3 DEF EagerSync, MgrInv, Flow
  <2> QED BY <1>1, <1>2, <2>1, FlowRests DEF NothingUnsafe
<1>4. CASE FrameSync
  <2>1. pc = "frame" /\ pc' \in {"frame", "atlas"}
    BY <1>4 DEF FrameSync
  <2> QED BY <1>1, <1>2, <2>1, FlowRests DEF NothingUnsafe
<1> QED BY <1>3, <1>4

\* A slot that is inserted starts without uploads, whatever was at its address before.
LEMMA InsertedStep ==
    ASSUME MgrInv, [MgrNext]_mgrVars, NEW n \in Name, NEW a \in Address, LoadInserted(n, a)
    PROVE  RegInv' /\ Flow'
<1>1. /\ pc = "idle" /\ pc' = "inserted" /\ slot' = a /\ MakeSlotInserted(n, a)
      /\ textures' = [textures EXCEPT ![a] = {}] /\ UNCHANGED <<upVars, kind, fonts>>
      /\ ~ dirty' => ~ dirty
  BY DEF LoadInserted
<1>2. RegInv' /\ ~ Ready(a)' /\ \A b \in Address : Ready(b)' => Ready(b) /\ b # a
  BY <1>1, InsertedKeeps DEF MgrInv
<1>3. UNCHANGED <<recorded, flushed>>
  BY <1>1 DEF upVars
<1>4. ~ Ready(slot)'
  BY <1>1, <1>2 DEF Ready, Alive
<1>5. /\ textures \in [Address -> SUBSET (1 .. recorded)] /\ fonts \in 0 .. recorded
      /\ kind # "texture" => \A b \in Address : textures[b] = {}
      /\ \A b \in Address : Ready(b) => textures[b] \subseteq 1 .. flushed
      /\ ~ dirty => fonts <= flushed
  BY <1>1 DEF MgrInv, Flow
<1>6. /\ textures' \in [Address -> SUBSET (1 .. recorded')]
      /\ kind' # "texture" => \A b \in Address : textures'[b] = {}
      /\ \A b \in Address : b # a => textures'[b] = textures[b]
  BY <1>1, <1>3, <1>5
<1>7. \A b \in Address : Ready(b)' => textures'[b] \subseteq 1 .. flushed'
  BY <1>2, <1>3, <1>5, <1>6
<1> QED BY <1>1, <1>2, <1>3, <1>4, <1>5, <1>6, <1>7 DEF Flow

\* A level belongs to the slot that is being loaded, which is not ready.
LEMMA LevelStep ==
    ASSUME MgrInv, [MgrNext]_mgrVars, RecordLevel
    PROVE  RegInv' /\ Flow'
<1>1. /\ pc = "uploading" /\ pc' = pc /\ Record
      /\ textures' = [textures EXCEPT ![slot] = @ \cup {recorded'}]
      /\ UNCHANGED <<regVars, kind, slot, fonts, dirty>>
  BY DEF RecordLevel
<1>2. RegInv' /\ \A b \in Address : Ready(b)' <=> Ready(b)
  BY <1>1, RegistryRests DEF MgrInv
<1>3. /\ recorded' = recorded + 1 /\ flushed' = flushed
      /\ recorded \in Nat /\ recorded' \in 1 .. recorded' /\ 1 .. recorded \subseteq 1 .. recorded'
  BY <1>1, UploadsStep, UploadsGrow DEF Record
<1>4. /\ textures \in [Address -> SUBSET (1 .. recorded)] /\ fonts \in 0 .. recorded
      /\ kind = "texture" /\ slot \in Address /\ ~ Ready(slot)
      /\ \A b \in Address : Ready(b) => textures[b] \subseteq 1 .. flushed
      /\ ~ dirty => fonts <= flushed
  BY <1>1 DEF MgrInv, Flow
<1>5. /\ textures' \in [Address -> SUBSET (1 .. recorded')]
      /\ \A b \in Address : b # slot => textures'[b] = textures[b]
  BY <1>1, <1>3, <1>4
<1>6. fonts' \in 0 .. recorded'
  BY <1>1, <1>3, <1>4
<1>7. ~ Ready(slot)'
  BY <1>1, <1>2, <1>4 DEF Ready, Alive
<1>8. \A b \in Address : Ready(b)' => textures'[b] \subseteq 1 .. flushed'
  BY <1>2, <1>3, <1>4, <1>5
<1> QED BY <1>1, <1>2, <1>3, <1>4, <1>5, <1>6, <1>7, <1>8 DEF Flow

\* The atlas is uploaded while the frame has still to flush.
LEMMA AtlasStep ==
    ASSUME MgrInv, [MgrNext]_mgrVars, RecordAtlas
    PROVE  RegInv' /\ Flow'
<1>1. /\ pc = "atlas" /\ pc' = pc /\ Record /\ fonts' = recorded'
      /\ UNCHANGED <<regVars, kind, slot, textures>>
  BY DEF RecordAtlas, loadVars
<1>2. RegInv'
  BY <1>1, RegistryRests DEF MgrInv
<1>3. textures' \in [Address -> SUBSET (1 .. recorded')] /\ fonts' \in 0 .. recorded'
  <2>1. textures \in [Address -> SUBSET (1 .. recorded)] /\ textures' = textures
    BY <1>1 DEF MgrInv, Flow
  <2> QED BY <1>1, <2>1, UploadsStep, UploadsGrow
<1> QED BY <1>1, <1>2, <1>3 DEF Flow, MgrInv

\* Each step keeps the invariant.
LEMMA MgrStep == MgrInv /\ [MgrNext]_mgrVars => MgrInv'
<1> SUFFICES ASSUME MgrInv, [MgrNext]_mgrVars PROVE MgrInv'
  OBVIOUS
<1>1. UpInv' /\ UploadsCounted'
  BY UploadsStep
<1>2. RegInv' /\ Flow'
  BY LoadStep, UploadStep, SyncStepFlows, InsertedStep, LevelStep, AtlasStep DEF MgrNext, Proceed
<1> QED BY <1>1, <1>2 DEF MgrInv

\* What is ready when a call to the manager has ended has reached the GPU: begin_frame applies
\* what was published before it flushes, and no kind that is synced at once uploads anything.
THEOREM ReadyUploaded == MgrSpec => []ReadyIsUploaded
<1>1. MgrInv => ReadyIsUploaded
  BY DEF MgrInv, Flow, ReadyIsUploaded
<1> QED BY <1>1, MgrInitInv, MgrStep, PTL DEF MgrSpec
-----------------------------------------------------------------------------
\* The registry inside the manager is used as it expects: its counts stay exact although a
\* load may end without an answer, and what clients hold is alive.
THEOREM ManagerRegistrySafe ==
    MgrSpec => [](RefCountExact /\ HeldEntriesAlive /\ SyncReadsLiveEntries)
<1>1. MgrInv => RefCountExact /\ HeldEntriesAlive /\ SyncReadsLiveEntries
  BY RegInvImplies DEF MgrInv
<1> QED BY <1>1, MgrInitInv, MgrStep, PTL DEF MgrSpec

\* A slice in the caller's hands lies inside its buffer, and whoever waits for a slice may
\* still record it.
StageBounds ==
    /\ m_cursor <= capacity
    /\ capacity \in {0, k_stage_buffer_size}
    /\ large \in {0} \cup Size
    /\ op \in {"slice", "retry"} => capacity = k_stage_buffer_size
    /\ op \in {"slice", "retry", "upload"} => recorded < MaxUploads
    /\ recorded <= MaxUploads
    /\ op # "upload" => batch = NoBatch
    /\ op = "upload" /\ batch.buffer = "stage" => batch.offset + batch.size <= capacity
    /\ op = "upload" /\ batch.buffer = "large" => batch.offset + batch.size <= large

\* Where the manager can be while the context is inside a call.
Calls == /\ pc \in {"idle", "inserted", "eager", "frame"} => op = "idle"
         /\ pc = "uploading" /\ levels = 0 => op = "idle"
         /\ pc = "flush" => op = "flush"

Own == /\ recording \in BOOLEAN
       /\ m_fence \in {"none", "pending", "signaled"}
       /\ op \in {"idle", "slice", "retry", "upload", "flush", "destroy", "destroyed", "aborted"}
       /\ kind \in Kinds
       /\ pc \in {"placeholder", "idle", "inserted", "uploading", "eager", "frame", "atlas",
                  "flush", "destroyed"}
       /\ slot \in Address \cup {Nowhere}
       /\ levels \in 0 .. MaxLevels
       /\ dirty \in BOOLEAN
       /\ abandoned \in SUBSET Address

MgrBounds == StageBounds /\ Calls /\ Own

\* A slice of the staging buffer lies below the new cursor, which stays inside.
LEMMA StageSliceBounds ==
    ASSUME UpInv, StageBounds, op # "upload", NEW size \in Size, SliceOfStage(size),
           capacity' = k_stage_buffer_size, recorded < MaxUploads,
           UNCHANGED <<large, recorded>>
    PROVE  StageBounds'
<1> USE DEF StageBounds
<1>1. /\ m_cursor \in Nat /\ recorded \in Nat /\ size \in Nat
      /\ k_stage_buffer_size \in Nat /\ batch = NoBatch
  BY UploadAssumption DEF UpInv, UpTypes
<1>2. CASE InBounds(size) /\ StageSlice(size)
  <2>1. AlignUp(m_cursor) \in Nat
    BY <1>1, AlignUpAtLeast
  <2>2. /\ op' = "upload" /\ batch'.buffer = "stage"
        /\ batch'.offset = AlignUp(m_cursor) /\ batch'.size = size
        /\ m_cursor' = AlignUp(m_cursor) + size
    BY <1>2 DEF StageSlice
  <2>3. m_cursor' <= k_stage_buffer_size
    BY <1>2, <2>2 DEF InBounds
  <2> QED BY <1>1, <2>1, <2>2, <2>3
<1>3. CASE StageSliceFails
  <2>1. op' = "aborted" /\ UNCHANGED <<batch, m_cursor>>
    BY <1>3 DEF StageSliceFails
  <2>2. m_cursor <= k_stage_buffer_size
    BY <1>1, UploadAssumption
  <2> QED BY <1>1, <2>1, <2>2
<1> QED BY <1>2, <1>3 DEF SliceOfStage

\* Every step of the context keeps its slices inside their buffers.
LEMMA StageBoundsStep ==
    ASSUME UpInv, StageBounds, [UpNext]_upVars
    PROVE  StageBounds'
<1>1. /\ m_cursor \in Nat /\ recorded \in Nat /\ k_stage_buffer_size \in Nat /\ MaxUploads \in Nat
      /\ wanted \in Size \cup {0} /\ (op \in {"slice", "retry"} => wanted \in Size)
  BY UploadAssumption DEF UpInv, UpTypes
<1>2. CASE UNCHANGED upVars \/ FlushIdle
  BY <1>2 DEF upVars, stage, FlushIdle, StageBounds
<1>3. ASSUME NEW size \in Size, SliceFits(size) PROVE StageBounds'
  BY <1>3, StageSliceBounds DEF SliceFits
<1>4. ASSUME NEW size \in Size, SliceFlushes(size) PROVE StageBounds'
  BY <1>1, <1>4 DEF SliceFlushes, StageBounds
<1>5. ASSUME NEW call \in {"flush", "destroy"}, Flush(call) PROVE StageBounds'
  BY <1>1, <1>5 DEF Flush, StageBounds, stage
<1>6. CASE DestroyIdle
  BY <1>1, <1>6 DEF DestroyIdle, StageBounds, stage
<1>7. CASE SliceRetries
  <2>1. /\ op = "retry" /\ capacity' = k_stage_buffer_size /\ UNCHANGED <<capacity, recorded>>
        /\ recorded < MaxUploads /\ wanted \in Size
    BY <1>1, <1>7 DEF SliceRetries, StageBounds
  <2>2. CASE SliceOfStage(wanted) /\ UNCHANGED large
    BY <2>1, <2>2, StageSliceBounds
  <2>3. CASE LargeSlice /\ op' = "upload" /\ UNCHANGED m_cursor
    <3>1. /\ large' = wanted /\ batch'.buffer = "large"
          /\ batch'.offset = 0 /\ batch'.size = wanted /\ wanted \in Nat
      BY <2>1, <2>3, UploadAssumption DEF LargeSlice
    <3> QED BY <1>1, <2>1, <2>3, <3>1 DEF StageBounds
  <2> QED BY <1>7, <2>2, <2>3 DEF SliceRetries
<1>8. CASE Record
  BY <1>1, <1>8 DEF Record, StageBounds, stage
<1>9. CASE Flushed
  <2>1. /\ m_cursor' = 0 /\ large' = 0 /\ UNCHANGED <<capacity, batch, recorded>>
        /\ op' \in {"idle", "retry", "destroyed"} /\ (op' = "retry" => op = "slice")
        /\ op # "upload"
    BY <1>9 DEF Flushed
  <2> QED BY <1>1, <2>1 DEF StageBounds
<1>10. CASE Execute
  BY <1>1, <1>10 DEF Execute, StageBounds, stage
<1> QED BY <1>2, <1>3, <1>4, <1>5, <1>6, <1>7, <1>8, <1>9, <1>10 DEF UpNext, Continue, Slice

\* What a step of the context makes of its call.
LEMMA OpStep ==
    ASSUME Own, [UpNext]_upVars
    PROVE  /\ recording' \in BOOLEAN
           /\ m_fence' \in {"none", "pending", "signaled"}
           /\ op' \in {"idle", "slice", "retry", "upload", "flush", "destroy", "destroyed",
                       "aborted"}
BY DEF Own, UpNext, upVars, stage, gpu, FlushIdle, Slice, SliceFits, SliceFlushes, SliceOfStage,
       StageSlice, StageSliceFails, SignalFence, Flush, DestroyIdle, Continue, SliceRetries,
       LargeSlice, Record, Flushed, Execute

\* The manager's own state, and where it can be.
LEMMA OwnStep ==
    ASSUME MgrInv, Own, Calls, [MgrNext]_mgrVars
    PROVE  Own'
<1> USE DEF Own
<1>1. /\ recording' \in BOOLEAN
      /\ m_fence' \in {"none", "pending", "signaled"}
      /\ op' \in {"idle", "slice", "retry", "upload", "flush", "destroy", "destroyed", "aborted"}
  BY MgrStepIsUpStep, OpStep
<1>2. CASE \E n \in Name, a \in Address : LoadInserted(n, a)
  BY <1>1, <1>2 DEF LoadInserted
<1>3. CASE LoadAbandons
  BY <1>1, <1>3 DEF LoadAbandons, MgrInv, Flow
<1>4. CASE LoadFails \/ LoadSucceeds \/ LoadUploaded
  BY <1>1, <1>4 DEF LoadFails, LoadSucceeds, LoadUploaded, Answer
<1>5. CASE LoadTexture
  BY <1>1, <1>5 DEF LoadTexture
<1>6. CASE RecordLevel
  <2>1. levels \in 0 .. MaxLevels /\ levels # 0 /\ levels' = levels - 1
    BY <1>6 DEF RecordLevel, Record, Calls
  <2>2. levels' \in 0 .. MaxLevels
    BY <2>1, ManagerAssumption
  <2> QED BY <1>1, <1>6, <2>2 DEF RecordLevel
<1>7. CASE EagerSync \/ FrameSync
  BY <1>1, <1>7 DEF EagerSync, FrameSync, loadVars
<1>8. CASE \/ \E n \in Name : LoadFound(n)
           \/ \E a \in Address : ReleaseResource(a)
           \/ BeginFrame \/ TakeSlice \/ SliceGoesOn \/ RecordPlaceholder \/ RecordAtlas
           \/ FrameFlush \/ FrameEnds \/ Destroy \/ Destroyed \/ GpuExecutes
           \/ UNCHANGED mgrVars
  BY <1>1, <1>8 DEF LoadFound, ReleaseResource, BeginFrame, TakeSlice, SliceGoesOn,
     RecordPlaceholder, RecordAtlas, FrameFlush, FrameEnds, Destroy, Destroyed, GpuExecutes,
     mgrVars, loadVars
<1> QED BY <1>1, <1>2, <1>3, <1>4, <1>5, <1>6, <1>7, <1>8 DEF MgrNext, Proceed

LEMMA CallsStep ==
    ASSUME MgrInv, Own, Calls, [MgrNext]_mgrVars
    PROVE  Calls'
<1> USE DEF Calls
<1>1. CASE UNCHANGED <<pc, levels, op>>
  BY <1>1
<1>2. CASE \/ \E n \in Name : LoadFound(n)
           \/ \E n \in Name, a \in Address : LoadInserted(n, a)
           \/ \E a \in Address : ReleaseResource(a)
           \/ BeginFrame
           \/ LoadFails \/ LoadAbandons \/ LoadSucceeds \/ LoadTexture \/ LoadUploaded
           \/ EagerSync \/ FrameSync
  <2>1. op' = op
    BY <1>2, Elsewhere DEF upVars
  <2>2. pc' # "flush" /\ op = "idle"
    BY <1>2 DEF LoadFound, LoadInserted, ReleaseResource, BeginFrame, LoadFails, LoadAbandons,
       LoadSucceeds, LoadTexture, LoadUploaded, Answer, EagerSync, FrameSync
  <2> QED BY <2>1, <2>2
<1>3. CASE TakeSlice
  BY <1>3 DEF TakeSlice, loadVars
<1>4. CASE SliceGoesOn
  <2>1. UNCHANGED <<pc, levels>> /\ op \in {"retry", "slice"}
    BY <1>4 DEF SliceGoesOn, SliceRetries, loadVars
  <2> QED BY <2>1
<1>5. CASE RecordPlaceholder \/ RecordLevel \/ RecordAtlas
  <2>1. op' = "idle" /\ pc' # "flush"
    BY <1>5 DEF RecordPlaceholder, RecordLevel, RecordAtlas, Record
  <2> QED BY <2>1
<1>6. CASE FrameFlush
  <2>1. pc = "atlas" /\ op = "idle"
    BY <1>6 DEF FrameFlush
  <2>2. (op' = "flush" /\ pc' = "flush") \/ (op' = "idle" /\ pc' = "idle")
    BY <1>6, <2>1 DEF FrameFlush, Flush, FlushIdle, upVars
  <2> QED BY <2>2
<1>7. CASE FrameEnds
  <2>1. pc' = "idle" /\ op' = "idle"
    BY <1>7 DEF FrameEnds, Flushed
  <2> QED BY <2>1
<1>8. CASE Destroy \/ Destroyed
  <2>1. pc' = "destroyed"
    BY <1>8 DEF Destroy, Destroyed, Flushed
  <2> QED BY <2>1
<1>9. CASE GpuExecutes \/ UNCHANGED mgrVars
  BY <1>1, <1>9 DEF GpuExecutes, Execute, mgrVars, upVars, loadVars
<1> QED BY <1>2, <1>3, <1>4, <1>5, <1>6, <1>7, <1>8, <1>9 DEF MgrNext, Proceed

\* Together they are the types.
LEMMA MgrBoundsImply == MgrInv /\ MgrBounds => MgrTypeOK
<1> SUFFICES ASSUME MgrInv, MgrBounds PROVE MgrTypeOK
  OBVIOUS
<1> USE DEF MgrInv, MgrBounds
<1>1. TypeOK
  BY RegInvBounds
<1>2. recorded \in 0 .. MaxUploads /\ 1 .. recorded \subseteq Upload
  BY UploadAssumption DEF StageBounds, UploadsCounted, Upload
<1>3. textures \in [Address -> SUBSET Upload] /\ fonts \in 0 .. MaxUploads
  BY <1>2, UploadAssumption DEF Flow, StageBounds
<1>4. UpTypeOK
  <2>1. m_cursor \in 0 .. capacity
    BY UploadAssumption DEF UpInv, UpTypes, StageBounds
  <2>2. batch.offset + batch.size <= CASE batch.buffer = "none"  -> 0
                                       [] batch.buffer = "stage" -> capacity
                                       [] batch.buffer = "large" -> large
    <3>1. CASE op = "upload"
      <4>1. batch.buffer \in {"stage", "large"}
        BY <3>1 DEF UpInv, UpTypes, Buffer
      <4> QED BY <3>1, <4>1 DEF StageBounds
    <3>2. CASE op # "upload"
      BY <3>2 DEF StageBounds, NoBatch
    <3> QED BY <3>1, <3>2
  <2> QED BY <1>2, <2>1, <2>2 DEF UpTypeOK, UpInv, UpTypes, StageBounds, Own
<1> QED BY <1>1, <1>3, <1>4 DEF MgrTypeOK, Own

\* The manager's calls stay in their order, and slices within the buffers they are taken from.
THEOREM ManagerTypeOK == MgrSpec => []MgrTypeOK
<1>1. MgrInit => MgrInv /\ MgrBounds
  <2> SUFFICES ASSUME MgrInit PROVE MgrBounds
    BY MgrInitInv
  <2>1. StageBounds
    BY UploadAssumption DEF MgrInit, UpInit, StageBounds
  <2>2. Calls
    BY DEF MgrInit, UpInit, Calls
  <2>3. 0 \in 0 .. MaxLevels
    BY ManagerAssumption
  <2>4. Own
    BY <2>3 DEF MgrInit, UpInit, Own
  <2> QED BY <2>1, <2>2, <2>4 DEF MgrBounds
<1>2. MgrInv /\ MgrBounds /\ [MgrNext]_mgrVars => (MgrInv /\ MgrBounds)'
  BY MgrStep, MgrStepIsUpStep, StageBoundsStep, OwnStep, CallsStep DEF MgrInv, MgrBounds
<1> QED BY <1>1, <1>2, MgrBoundsImply, PTL DEF MgrSpec
=============================================================================
