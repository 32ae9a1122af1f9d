------------------------------ MODULE IndexSet ------------------------------
(***************************************************************************)
(* What an index allocator promises its clients, whatever bitmap it keeps: *)
(* the header of every allocator and `index_allocator_concept' speak of a  *)
(* set of indices, `allocate' hands out the smallest free one, or          *)
(* `invalid_index' when there is none, and `deallocate' ignores an index   *)
(* that is out of range or free.                                           *)
(***************************************************************************)
EXTENDS Naturals

CONSTANTS Capacity,      \* number of indices
          invalid_index  \* the value that is no index

VARIABLES allocated,  \* the indices handed out and not given back
          ret         \* what the last call of allocate returned

vars == <<allocated, ret>>

Index == 0 .. Capacity - 1

Free == Index \ allocated

\* Types: allocate returns an index or invalid_index.
TypeOK == /\ allocated \subseteq Index
          /\ ret \in Index \cup {invalid_index}

Init == allocated = {} /\ ret = invalid_index

Allocate(i) == /\ i \in Free
               /\ \A j \in Free : i <= j
               /\ allocated' = allocated \cup {i}
               /\ ret' = i

AllocateFull == /\ Free = {}
                /\ ret' = invalid_index
                /\ UNCHANGED allocated

Deallocate(i) == /\ allocated' = allocated \ {i}
                 /\ UNCHANGED ret

Reset == allocated' = {} /\ UNCHANGED ret

Next == \/ \E i \in Index : Allocate(i)
        \/ AllocateFull
        \/ \E i \in Index : Deallocate(i)
        \/ Reset

Spec == Init /\ [][Next]_vars
=============================================================================
