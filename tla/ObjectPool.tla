----------------------------- MODULE ObjectPool -----------------------------
(***************************************************************************)
(* core/resource/object_pool: a handle allocator and a growing array of    *)
(* raw slots, one per index, in which objects are constructed and          *)
(* destroyed in place.  An object is known here by the allocation it was   *)
(* constructed for: the number of deallocations and of resets before it.   *)
(***************************************************************************)
EXTENDS HandleAllocator, FiniteSets

CONSTANTS BitsPerWord, Words,  \* shape of the lowest level of the index allocator
          PowersOfTwo,         \* those up to the first that reaches the capacity
          Raw                  \* a slot without an object

ASSUME PoolAssumption == /\ BitsPerWord \in Nat \ {0}
                         /\ Words \in Nat
                         /\ Capacity = Words * BitsPerWord
                         /\ PowersOfTwo \subseteq Nat \ {0}
                         /\ 1 \in PowersOfTwo
                         /\ \A p \in PowersOfTwo : p < Capacity => 2 * p \in PowersOfTwo
                         /\ Raw \notin [age : Nat, era : Nat]

VARIABLES m_storage,  \* slots of the array, a function on 0 .. size-1
          peak        \* history: the largest number of objects alive at once

poolVars == <<vars, m_storage, peak>>

Object == [age : 0 .. MaxReleases, era : 0 .. MaxResets]

Loop == INSTANCE IterationYield

StorageSizes == {0, 2} \cup 2 .. Capacity

\* Types: the storage has one of the sizes its growth goes through.
PoolTypeOK == /\ TypeOK
              /\ \E n \in StorageSizes : m_storage \in [0 .. n - 1 -> Object \cup {Raw}]
              /\ peak \in 0 .. Capacity

PoolInit == Init /\ m_storage = [i \in {} |-> Raw] /\ peak = 0

Size == Cardinality(DOMAIN m_storage)

CeilPowerOfTwo(n) == CHOOSE p \in PowersOfTwo : p >= n /\ \A q \in PowersOfTwo : q >= n => p <= q

Smaller(a, b) == IF a <= b THEN a ELSE b

\* Mutant: the growth is not capped at the capacity of the handle allocator.
EnsuredUncapped(idx) ==
    LET size == IF idx < Size THEN Size ELSE IF idx < 2 THEN 2 ELSE CeilPowerOfTwo(idx + 1)
    IN  [i \in 0 .. size - 1 |-> IF i < Size THEN m_storage[i] ELSE Raw]

\* ensure_allocation: the storage, bytewise extended when idx is past its end.
Ensured(idx) ==
    LET required == idx + 1
        size == IF idx < Size THEN Size
                ELSE IF required <= 2 THEN 2
                ELSE Smaller(CeilPowerOfTwo(required), Capacity)
    IN  [i \in 0 .. size - 1 |-> IF i < Size THEN m_storage[i] ELSE Raw]

\* The index the handle allocator hands out next.
NextIndex == CHOOSE i \in Index \ allocated : \A j \in Index \ allocated : i <= j

Emplace ==
    /\ Allocate
    /\ m_storage' = [Ensured(ret') EXCEPT ![ret'] = [age |-> releases[ret'], era |-> resets]]
    /\ peak' = IF Cardinality(allocated') > peak THEN Cardinality(allocated') ELSE peak

\* Mutant: the exception leaves the handle allocated.
EmplaceThrowsKeepingHandle(grown) ==
    /\ allocated # Index
    /\ ret' = NextIndex
    /\ allocated' = allocated \cup {NextIndex}
    /\ m_storage' = IF grown THEN Ensured(NextIndex) ELSE m_storage
    /\ UNCHANGED <<m_gen, releases, resets, issued, peak>>

\* The storage cannot grow, or the constructor throws after it has grown: the handle is
\* deallocated again, which increments the generation, and is returned to nobody.
EmplaceThrows(grown) ==
    /\ allocated # Index
    /\ releases[NextIndex] < MaxReleases
    /\ ret' = NextIndex
    /\ m_gen' = [m_gen EXCEPT ![NextIndex] = (@ + 1) % Generations]
    /\ releases' = [releases EXCEPT ![NextIndex] = @ + 1]
    /\ m_storage' = IF grown THEN Ensured(NextIndex) ELSE m_storage
    /\ UNCHANGED <<allocated, resets, issued, peak>>

EmplaceFull == AllocateFull /\ UNCHANGED <<m_storage, peak>>

Reserve(count) == /\ m_storage' = IF count > 0 THEN Ensured(count - 1) ELSE m_storage
                  /\ UNCHANGED <<vars, peak>>

\* Mutant: the handle is freed, the object is not destroyed.
EraseHandleOnly(h) == Deallocate(h) /\ UNCHANGED <<m_storage, peak>>

Erase(h) == /\ Deallocate(h)
            /\ m_storage' = [m_storage EXCEPT ![h.index] = Raw]
            /\ UNCHANGED peak

EraseRefused(h) == DeallocateRefused(h) /\ UNCHANGED <<m_storage, peak>>

\* Mutant: the objects are destroyed, the handles stay.
ClearObjectsOnly ==
    /\ m_storage' = [i \in DOMAIN m_storage |->
                        IF i \in Loop!Yielded(allocated) THEN Raw ELSE m_storage[i]]
    /\ UNCHANGED <<vars, peak>>

\* destroy_all loops over the handle allocator, then the allocator is reset.
Clear == /\ Reset
         /\ m_storage' = [i \in DOMAIN m_storage |->
                             IF i \in Loop!Yielded(allocated) THEN Raw ELSE m_storage[i]]
         /\ UNCHANGED peak

PoolNext == \/ Emplace
            \/ \E grown \in BOOLEAN : EmplaceThrows(grown)
            \/ EmplaceFull
            \/ \E count \in 0 .. Capacity : Reserve(count)
            \/ \E h \in Held : Erase(h)
            \/ \E h \in Held : EraseRefused(h)
            \/ Clear

PoolSpec == PoolInit /\ [][PoolNext]_poolVars
-----------------------------------------------------------------------------
Constructed == {i \in DOMAIN m_storage : m_storage[i] # Raw}

\* find on a live handle returns the very object that emplace constructed for it, inside
\* the storage, through every growth, failed emplace, erase and clear.
LiveHandleFindsItsObject ==
    \A t \in issued : Live(t) =>
        /\ t.handle.index \in DOMAIN m_storage
        /\ m_storage[t.handle.index] = [age |-> t.age, era |-> t.era]

\* erase and clear run the destructor of a constructed object, never of a raw slot.
AllocatedAreConstructed == allocated \subseteq Constructed

\* A pool that never held a word's worth of objects (64 in the code) at once destroys
\* every object it has constructed.
SmallPoolLeaksNothing == peak < BitsPerWord => Constructed \subseteq allocated

=============================================================================
