--------------------------- MODULE BitmapIteration ---------------------------
(***************************************************************************)
(* Iteration over an l3_bitmap_index_allocator: `begin()' is find_first,   *)
(* `++' is next_after, `end()' is k_capacity.  A client runs the loop      *)
(*     for (auto idx : allocator) ...                                      *)
(* and either leaves the allocator alone, or deallocates indices it is     *)
(* given, as the graphics device does when it is destroyed, although every *)
(* modification invalidates the iterators (index_allocator.hpp).           *)
(***************************************************************************)
EXTENDS L3BitmapIndexAllocator

VARIABLES cursor,   \* position of the loop's iterator, or NoLoop
          visited,  \* what the loop body has been given so far
          before    \* history: what was allocated when the loop began

iterVars == <<cursor, visited, before>>

NoLoop == k_capacity + 1

\* The inverted upper levels lead to the first word that is not full.
FindFirst ==
    IF m_size = 0 \/ m_l1_map = Bit \/ m_l2_map[FreeWord2] = Bit \/ m_l3_map[FreeWord3] = {}
    THEN k_capacity
    ELSE FreeWord3 * k_bits_per_word + FirstSetBit(m_l3_map[FreeWord3])

\* The loop of next_after from an already incremented position, given what it returns from
\* the positions further on.
ScanStep(scan, pos) ==
    LET w3     == WordOf(pos)
        w2     == WordOf(w3)
        here   == {b \in m_l3_map[w3] : b >= BitOf(pos)}
        inW2   == {b \in Bit \ m_l2_map[w2] : b > BitOf(w3)}
        inL1   == {b \in Bit \ m_l1_map : b > w2}
        jumpW3 == w2 * k_bits_per_word + FirstSetBit(inW2)
        jumpW2 == FirstSetBit(inL1)
    IN  CASE pos = k_capacity -> k_capacity
          [] pos < k_capacity /\ here # {} -> w3 * k_bits_per_word + FirstSetBit(here)
          [] pos < k_capacity /\ here = {} /\ inW2 # {} ->
                IF m_l3_map[jumpW3] # {}
                THEN jumpW3 * k_bits_per_word + FirstSetBit(m_l3_map[jumpW3])
                ELSE scan[jumpW3 * k_bits_per_word]
          [] pos < k_capacity /\ here = {} /\ inW2 = {} ->
                IF inL1 = {} THEN k_capacity
                ELSE IF m_l2_map[jumpW2] = Bit
                     THEN scan[(jumpW2 + 1) * k_l3_map_size]
                     ELSE scan[(jumpW2 * k_bits_per_word + FirstZeroBit(m_l2_map[jumpW2]))
                                  * k_bits_per_word]

Scan[pos \in 0 .. k_capacity] == ScanStep(Scan, pos)

\* Mutants: the position is not incremented, or once too often.
NextAfterSame(pos)    == IF pos >= k_capacity THEN k_capacity ELSE Scan[pos]
NextAfterSkipped(pos) == IF pos + 1 >= k_capacity THEN k_capacity ELSE Scan[pos + 2]

NextAfter(pos) == IF pos >= k_capacity THEN k_capacity ELSE Scan[pos + 1]

ItInit == Init /\ cursor = NoLoop /\ visited = {} /\ before = {}

Begin == /\ cursor = NoLoop
         /\ cursor' = FindFirst
         /\ before' = Allocated
         /\ UNCHANGED <<vars, visited>>

\* The body of the loop deallocates the index it is given.
EraseCurrent == /\ cursor \in Index
                /\ Deallocate(cursor)
                /\ UNCHANGED iterVars

Advance == /\ cursor \in Index
           /\ visited' = visited \cup {cursor}
           /\ cursor' = NextAfter(cursor)
           /\ UNCHANGED <<vars, before>>

End == /\ cursor = k_capacity
       /\ cursor' = NoLoop
       /\ visited' = {}
       /\ before' = {}
       /\ UNCHANGED vars

Modify == cursor = NoLoop /\ Next /\ UNCHANGED iterVars

ItNext == Begin \/ EraseCurrent \/ Advance \/ End \/ Modify

\* The loop is sequential code: it does not stop in the middle.
ItSpec == ItInit /\ [][ItNext]_<<vars, iterVars>> /\ WF_<<vars, iterVars>>(Advance)
-----------------------------------------------------------------------------
Loop == INSTANCE IterationYield WITH BitsPerWord <- k_bits_per_word, Words <- k_l3_map_size

\* A loop that has run to the end was given exactly Loop!Yielded of what was allocated when
\* it began: never a free index, and every allocated index outside the full words once it
\* has begun at all; what its body deallocates on the way changes nothing.
LoopYields == cursor = k_capacity => visited = Loop!Yielded(before)

\* A loop that has begun reaches end().
LoopEnds == cursor \in Index ~> cursor = k_capacity

\* index_allocator.hpp:65 and the test iterator_matches_contains: the loop is given
\* every allocated index.
LoopVisitsAllAllocated == cursor = k_capacity => visited = before

=============================================================================
