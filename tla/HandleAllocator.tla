--------------------------- MODULE HandleAllocator ---------------------------
(***************************************************************************)
(* core/ids/handle_allocator: an index allocator plus a generation per     *)
(* index.  A handle packs the tag's type id, the generation the index had  *)
(* when it was allocated, and the index; deallocate increments the         *)
(* generation, so that the copies of the handle the clients still hold are *)
(* refused.                                                                *)
(*                                                                         *)
(* The index allocator is a template parameter: it appears through what    *)
(* IndexSet promises, which L3BitmapIndexAllocator implements.             *)
(*                                                                         *)
(* Handles travel in the hands of clients.  `issued' keeps one token for   *)
(* each handle ever returned by allocate, saying when it was issued, so    *)
(* that a handle value that is issued twice can be told apart.             *)
(***************************************************************************)
EXTENDS Naturals

CONSTANTS Capacity,       \* k_capacity of the index allocator
          invalid_index,
          Generations,    \* number of values of handle_gen_t: 2^16
          MaxReleases,    \* bound on the deallocations of one index between two resets
          MaxResets       \* bound on the calls of reset

ASSUME HandleAssumption ==
    /\ Capacity \in Nat
    /\ invalid_index \in Nat \ (0 .. Capacity - 1)
    /\ Generations \in Nat \ {0}
    /\ MaxReleases \in Nat
    /\ MaxResets \in Nat

VARIABLES allocated,  \* m_index_alloc: its set of indices
          ret,        \* m_index_alloc: the index allocate returned last
          m_gen,      \* generation of each index
          releases,   \* history: deallocations of each index since the last reset
          resets,     \* history: calls of reset
          issued      \* history: the tokens of the handles returned by allocate

vars == <<allocated, ret, m_gen, releases, resets, issued>>

m_index_alloc == INSTANCE IndexSet

Index      == 0 .. Capacity - 1
Generation == 0 .. Generations - 1

\* type is 1 for the tag of this allocator; type 0 is reserved for the null handle.
Handle     == [type : {1}, generation : Generation, index : Index]
NullHandle == [type |-> 0, generation |-> 0, index |-> 0]

Token == [handle : Handle, age : 0 .. MaxReleases, era : 0 .. MaxResets]

\* Types: generations stay within handle_gen_t, tokens record handles of this tag.
TypeOK == /\ allocated \in SUBSET Index
          /\ ret \in Index \cup {invalid_index}
          /\ m_gen \in [Index -> Generation]
          /\ releases \in [Index -> 0 .. MaxReleases]
          /\ resets \in 0 .. MaxResets
          /\ issued \in SUBSET Token

Init == /\ m_index_alloc!Init
        /\ m_gen = [i \in Index |-> 0]
        /\ releases = [i \in Index |-> 0]
        /\ resets = 0
        /\ issued = {}

\* contains looks at the index and the generation, never at the type.
Contains(h) == h.index \in allocated /\ m_gen[h.index] = h.generation

\* Mutant: the handle carries the generation the next deallocation will give.
HandleForNext(i) == [type |-> 1, generation |-> (m_gen[i] + 1) % Generations, index |-> i]

HandleFor(i) == [type |-> 1, generation |-> m_gen[i], index |-> i]

Allocate == \E i \in Index :
    /\ m_index_alloc!Allocate(i)
    /\ issued' = issued \cup {[handle |-> HandleFor(i), age |-> releases[i], era |-> resets]}
    /\ UNCHANGED <<m_gen, releases, resets>>

\* Without the assertion, which a release build compiles out, the null handle is returned.
AllocateFull == /\ m_index_alloc!AllocateFull
                /\ UNCHANGED <<m_gen, releases, resets, issued>>

\* Mutant: the generation stays.
DeallocateKeepingGeneration(h) ==
    /\ Contains(h)
    /\ releases[h.index] < MaxReleases
    /\ m_index_alloc!Deallocate(h.index)
    /\ releases' = [releases EXCEPT ![h.index] = @ + 1]
    /\ UNCHANGED <<m_gen, resets, issued>>

Deallocate(h) ==
    /\ Contains(h)
    /\ releases[h.index] < MaxReleases
    /\ m_index_alloc!Deallocate(h.index)
    /\ m_gen' = [m_gen EXCEPT ![h.index] = (@ + 1) % Generations]
    /\ releases' = [releases EXCEPT ![h.index] = @ + 1]
    /\ UNCHANGED <<resets, issued>>

DeallocateRefused(h) == ~ Contains(h) /\ UNCHANGED vars

Reset == /\ resets < MaxResets
         /\ m_index_alloc!Reset
         /\ m_gen' = [i \in Index |-> 0]
         /\ releases' = [i \in Index |-> 0]
         /\ resets' = resets + 1
         /\ UNCHANGED issued

\* A client passes a handle it was given, or a null one.
Held == {t.handle : t \in issued} \cup {NullHandle}

Next == \/ Allocate
        \/ AllocateFull
        \/ \E h \in Held : Deallocate(h)
        \/ \E h \in Held : DeallocateRefused(h)
        \/ Reset

Spec == Init /\ [][Next]_vars
-----------------------------------------------------------------------------
\* The allocation a token stands for has not been ended by deallocate or reset.
Live(t) == /\ t.era = resets
           /\ t.handle.index \in allocated
           /\ t.age = releases[t.handle.index]

\* A handle is accepted from the allocation that issued it until its own deallocation,
\* whatever is allocated and freed around it.
LiveHandleAccepted == \A t \in issued : Live(t) => Contains(t.handle)

\* A stale copy is refused for as long as its index has been deallocated fewer times
\* since than a generation has values (65535 in the code) and no reset has happened.
StaleHandleRefused ==
    \A t \in issued :
        /\ t.era = resets
        /\ releases[t.handle.index] < t.age + Generations
        /\ ~ Live(t)
        => ~ Contains(t.handle)

\* handle_allocator.hpp:149, "All issued handles become invalid": of reset.
ResetInvalidates == \A t \in issued : Contains(t.handle) => t.era = resets

\* handle_allocator.hpp:138, "true if handle refers to a currently live slot": a null
\* handle refers to none.
NullHandleRefused == ~ Contains(NullHandle)

=============================================================================
