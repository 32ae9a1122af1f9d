-------------------------- MODULE ResourceRegistry --------------------------
(***************************************************************************)
(* core/resource/resource_registry: resources by the hash of their name.   *)
(* make_slot takes effect at once; publish, publish_failed, acquire and    *)
(* release are queued and take effect in that order when the owning thread *)
(* calls sync, once a frame.  A resource_ref is the address of an entry,   *)
(* and sync reads the hash of a transition's entry through that address.   *)
(*                                                                         *)
(* Clients count: each make_slot and acquire entitles to one release, and  *)
(* the client a slot was inserted for keeps its reference until it has     *)
(* published.  The entry of an address may be freed and the address given  *)
(* to another entry.                                                       *)
(***************************************************************************)
EXTENDS Naturals, Sequences, FiniteSets

CONSTANTS Name,       \* hashes of resource names
          Address,    \* where entries can live
          Nowhere,    \* no address: the hash is not registered
          Freed,      \* no entry lives at the address
          MaxHolders, \* bound on the references to an entry that clients hold
          MaxPending  \* bound on the length of the queue

VARIABLES m_resources,            \* the address of the entry of each hash
          entries,                \* the entry at each address
          m_pending_transitions,  \* the queue
          syncing,                \* sync is in its loop
          holders,                \* references the clients still have to release
          unpublished             \* addresses of slots that were inserted and not yet published

vars == <<m_resources, entries, m_pending_transitions, syncing, holders, unpublished>>

Status == {"unloaded", "ready", "failed"}
Kind   == {"set_ready", "set_failed", "acquire", "release"}

\* own: ptr points to the published data, and no longer to the placeholder.
Entry      == [hash : Name, rc : 0 .. MaxHolders + MaxPending, status : Status, own : BOOLEAN]
Transition == [ref : Address, kind : Kind]

ASSUME RegistryAssumption == /\ Nowhere \notin Address
                             /\ Freed \notin [hash : Name, rc : Nat, status : Status, own : BOOLEAN]
                             /\ MaxHolders \in Nat \ {0}
                             /\ MaxPending \in Nat \ {0}

Alive(a) == entries[a] # Freed

\* Types: every count stays within what clients hold and what is queued.
TypeOK == /\ m_resources \in [Name -> Address \cup {Nowhere}]
          /\ entries \in [Address -> Entry \cup {Freed}]
          /\ m_pending_transitions \in Seq(Transition)
          /\ Len(m_pending_transitions) <= MaxPending
          /\ syncing \in BOOLEAN
          /\ holders \in [Address -> 0 .. MaxHolders]
          /\ unpublished \subseteq Address

Init == /\ m_resources = [n \in Name |-> Nowhere]
        /\ entries = [a \in Address |-> Freed]
        /\ m_pending_transitions = <<>>
        /\ syncing = FALSE
        /\ holders = [a \in Address |-> 0]
        /\ unpublished = {}
-----------------------------------------------------------------------------
NewEntry(n) == [hash |-> n, rc |-> 1, status |-> "unloaded", own |-> FALSE]

\* Mutant: make_slot forgets to count the reference it returns.
MakeSlotUncounted(n) ==
    LET a == m_resources[n]
    IN  /\ ~ syncing
        /\ a # Nowhere
        /\ holders[a] < MaxHolders
        /\ holders' = [holders EXCEPT ![a] = @ + 1]
        /\ UNCHANGED <<m_resources, entries, m_pending_transitions, syncing, unpublished>>

\* make_slot of a name that is registered: one more reference, at once.
MakeSlotFound(n) ==
    LET a == m_resources[n]
    IN  /\ ~ syncing
        /\ a # Nowhere
        /\ holders[a] < MaxHolders
        /\ entries' = [entries EXCEPT ![a].rc = @ + 1]
        /\ holders' = [holders EXCEPT ![a] = @ + 1]
        /\ UNCHANGED <<m_resources, m_pending_transitions, syncing, unpublished>>

MakeSlotInserted(n, a) ==
    /\ ~ syncing
    /\ m_resources[n] = Nowhere
    /\ ~ Alive(a)
    /\ m_resources' = [m_resources EXCEPT ![n] = a]
    /\ entries' = [entries EXCEPT ![a] = NewEntry(n)]
    /\ holders' = [holders EXCEPT ![a] = 1]
    /\ unpublished' = unpublished \cup {a}
    /\ UNCHANGED <<m_pending_transitions, syncing>>

Push(a, kind) == /\ ~ syncing
                 /\ Len(m_pending_transitions) < MaxPending
                 /\ m_pending_transitions' = Append(m_pending_transitions, [ref |-> a, kind |-> kind])
                 /\ UNCHANGED <<m_resources, entries, syncing>>

\* publish and publish_failed, by the client the slot was inserted for.
Publish(a, kind) == /\ a \in unpublished
                    /\ kind \in {"set_ready", "set_failed"}
                    /\ Push(a, kind)
                    /\ unpublished' = unpublished \ {a}
                    /\ UNCHANGED holders

\* acquire, by a client that holds a reference and makes a copy of it.
Acquire(a) == /\ holders[a] \in 1 .. MaxHolders - 1
              /\ Push(a, "acquire")
              /\ holders' = [holders EXCEPT ![a] = @ + 1]
              /\ UNCHANGED unpublished

\* release; the client that has to publish keeps its own reference until then.
Release(a) == /\ holders[a] > IF a \in unpublished THEN 1 ELSE 0
              /\ Push(a, "release")
              /\ holders' = [holders EXCEPT ![a] = @ - 1]
              /\ UNCHANGED unpublished

StartSync == /\ ~ syncing
             /\ m_pending_transitions # <<>>
             /\ syncing' = TRUE
             /\ UNCHANGED <<m_resources, entries, m_pending_transitions, holders, unpublished>>

EraseAt(n, a) == /\ entries' = [entries EXCEPT ![a] = Freed]
                 /\ m_resources' = [m_resources EXCEPT ![n] = Nowhere]

\* Mutant: the count is compared before it is decremented.
ReleasePostDecrement(n, a) ==
    \/ entries[a].rc = 0 /\ EraseAt(n, a)
    \/ entries[a].rc > 0 /\ entries' = [entries EXCEPT ![a].rc = @ - 1] /\ UNCHANGED m_resources

\* Mutant: any release erases the entry.
ReleaseErases(n, a) == EraseAt(n, a)

\* entry.rc.decrement, and the erasure when the count reaches zero.
ReleaseEntry(n, a) ==
    \/ entries[a].rc = 1 /\ EraseAt(n, a)
    \/ entries[a].rc # 1 /\ entries' = [entries EXCEPT ![a].rc = @ - 1] /\ UNCHANGED m_resources

\* Mutant: acquire is forgotten.
ModifiedWithoutAcquire(kind, e) ==
    CASE kind = "set_ready"  -> [e EXCEPT !.status = "ready", !.own = TRUE]
      [] kind = "set_failed" -> [e EXCEPT !.status = "failed"]
      [] kind = "acquire"    -> e

\* Mutant: set_ready leaves the pointer at the placeholder.
ModifiedKeepingPlaceholder(kind, e) ==
    CASE kind = "set_ready"  -> [e EXCEPT !.status = "ready"]
      [] kind = "set_failed" -> [e EXCEPT !.status = "failed"]
      [] kind = "acquire"    -> [e EXCEPT !.rc = @ + 1]

\* What the transitions that never erase make of an entry.
Modified(kind, e) ==
    CASE kind = "set_ready"  -> [e EXCEPT !.status = "ready", !.own = TRUE]
      [] kind = "set_failed" -> [e EXCEPT !.status = "failed"]
      [] kind = "acquire"    -> [e EXCEPT !.rc = @ + 1]

\* The transition in turn, on the entry `a' that its hash is registered for.
Apply(kind, n, a) ==
    \/ kind = "release" /\ ReleaseEntry(n, a)
    \/ /\ kind # "release"
       /\ entries' = [entries EXCEPT ![a] = Modified(kind, @)]
       /\ UNCHANGED m_resources

\* Mutant: the queue is emptied after its first transition.
DequeuedAll == /\ m_pending_transitions' = <<>>
               /\ syncing' = FALSE
               /\ UNCHANGED <<holders, unpublished>>

Dequeued == /\ m_pending_transitions' = Tail(m_pending_transitions)
            /\ syncing' = (Len(m_pending_transitions) > 1)
            /\ UNCHANGED <<holders, unpublished>>

\* The code also skips a hash that is not registered, and would read a freed entry for the
\* hash of an erased one: RefCountExact and SyncReadsLiveEntries say that neither happens.
SyncStep == LET t == Head(m_pending_transitions)
                n == entries[t.ref].hash
            IN  /\ syncing
                /\ Alive(t.ref)
                /\ Apply(t.kind, n, m_resources[n])
                /\ Dequeued

\* clear; every reference the clients had is invalid.  The queue is left as it is.
Clear == /\ ~ syncing
         /\ m_resources' = [n \in Name |-> Nowhere]
         /\ entries' = [a \in Address |-> Freed]
         /\ holders' = [a \in Address |-> 0]
         /\ unpublished' = {}
         /\ UNCHANGED <<m_pending_transitions, syncing>>

Sync == StartSync \/ SyncStep

\* Clients that count, and that clear the registry only when nothing is queued.
Next == \/ \E n \in Name : MakeSlotFound(n)
        \/ \E n \in Name, a \in Address : MakeSlotInserted(n, a)
        \/ \E a \in Address, kind \in Kind : Publish(a, kind)
        \/ \E a \in Address : Acquire(a)
        \/ \E a \in Address : Release(a)
        \/ Sync
        \/ m_pending_transitions = <<>> /\ Clear

\* The owning thread runs sync every frame and never stops inside it.
Spec == Init /\ [][Next]_vars /\ WF_vars(Sync)
-----------------------------------------------------------------------------
Queued(a, kind) == {k \in DOMAIN m_pending_transitions :
                       m_pending_transitions[k] = [ref |-> a, kind |-> kind]}

\* The count of an entry, with the queued transitions added up, is the number of
\* references the clients hold; the lookup and the entry point at each other.
RefCountExact ==
    \A a \in Address : Alive(a) =>
        /\ entries[a].rc + Cardinality(Queued(a, "acquire"))
              = holders[a] + Cardinality(Queued(a, "release"))
        /\ m_resources[entries[a].hash] = a

\* A reference that a client still has to release never dangles, nor does that of the
\* client that has to publish.
HeldEntriesAlive == \A a \in Address : holders[a] > 0 \/ a \in unpublished => Alive(a)

\* sync reads the hash of a transition through the address of an entry that is alive.
SyncReadsLiveEntries == syncing => Alive(Head(m_pending_transitions).ref)

\* An entry that is ready stays so, and shows its data and not the placeholder, for as
\* long as it is alive: no late transition of an earlier entry reaches it.
ReadyStays ==
    [][\A a \in Address :
         (Alive(a) /\ entries[a].status = "ready" /\ entries'[a] # Freed)
            => (entries'[a].status = "ready" /\ entries'[a].own)]_vars

\* What has been published reaches the entry.
PublishedBecomesReady ==
    \A a \in Address :
        (Queued(a, "set_ready") # {}) ~> (~ Alive(a) \/ entries[a].status = "ready")

\* An entry that nobody holds any more is erased, unless it is taken up again.
UnheldIsErased ==
    \A a \in Address : (Alive(a) /\ holders[a] = 0) ~> (~ Alive(a) \/ holders[a] > 0)

=============================================================================
