----------------------- MODULE L3BitmapIndexAllocator -----------------------
(***************************************************************************)
(* core/ids/l3_bitmap_index_allocator: a three-level bitmap over the       *)
(* indices 0 .. k_capacity-1.  A word is the set of its bits that are set. *)
(* A bit of m_l3_map says that an index is allocated; a bit of m_l2_map    *)
(* says that a word of m_l3_map is full; a bit of m_l1_map says that a     *)
(* word of m_l2_map is full.  The two upper levels are caches of the       *)
(* lowest one that every allocate and deallocate has to keep exact.        *)
(*                                                                         *)
(* The width of a word, 64 in the code, is a constant here: nothing else   *)
(* in the algorithm depends on it.                                         *)
(***************************************************************************)
EXTENDS Naturals, FiniteSets

CONSTANTS k_bits_per_word,  \* bits of a word
          invalid_index     \* index_base.hpp: 0xffffffff

k_l2_map_size == k_bits_per_word
k_l3_map_size == k_bits_per_word * k_bits_per_word
k_capacity    == k_l3_map_size * k_bits_per_word

ASSUME L3Assumption == /\ k_bits_per_word \in Nat \ {0}
                       /\ invalid_index \in Nat
                       /\ invalid_index >= k_capacity

VARIABLES m_l1_map,  \* the only word of level 1
          m_l2_map,  \* words of level 2
          m_l3_map,  \* words of level 3
          m_size,    \* number of allocated indices
          ret        \* what the last call of allocate returned

vars == <<m_l1_map, m_l2_map, m_l3_map, m_size, ret>>

Bit   == 0 .. k_bits_per_word - 1
Word2 == 0 .. k_l2_map_size - 1
Word3 == 0 .. k_l3_map_size - 1
Index == 0 .. k_capacity - 1

\* math::first_zero_bit and math::first_set_bit; undefined on a word without one.
\* (HighestZeroBit is a mutant: counting from the other end of the word.)
HighestZeroBit(word) == CHOOSE b \in Bit \ word : \A c \in Bit \ word : b >= c
FirstZeroBit(word) == CHOOSE b \in Bit \ word : \A c \in Bit \ word : b <= c
FirstSetBit(word)  == CHOOSE b \in word : \A c \in word : b <= c

BitOf(i)  == i % k_bits_per_word
WordOf(i) == i \div k_bits_per_word

Contains(i) == i < k_capacity /\ BitOf(i) \in m_l3_map[WordOf(i)]

\* The indices the lowest level holds as allocated.
Allocated == {i \in Index : Contains(i)}

\* Types: words have their width, and m_size stays within the capacity.
TypeOK == /\ m_l1_map \in SUBSET Bit
          /\ m_l2_map \in [Word2 -> SUBSET Bit]
          /\ m_l3_map \in [Word3 -> SUBSET Bit]
          /\ m_size \in 0 .. k_capacity
          /\ ret \in Index \cup {invalid_index}

Init == /\ m_l1_map = {}
        /\ m_l2_map = [w \in Word2 |-> {}]
        /\ m_l3_map = [w \in Word3 |-> {}]
        /\ m_size = 0
        /\ ret = invalid_index
-----------------------------------------------------------------------------
\* The descent of allocate: the first word of each level with a clear bit above it.
FreeWord2 == FirstZeroBit(m_l1_map)
FreeWord3 == FreeWord2 * k_bits_per_word + FirstZeroBit(m_l2_map[FreeWord2])
FreeBit   == FirstZeroBit(m_l3_map[FreeWord3])

\* None of the three early returns of allocate is taken.
FindsFreeBit == /\ m_l1_map # Bit
                /\ m_l2_map[FreeWord2] # Bit
                /\ m_l3_map[FreeWord3] # Bit

AllocateFull == /\ ~ FindsFreeBit
                /\ ret' = invalid_index
                /\ UNCHANGED <<m_l1_map, m_l2_map, m_l3_map, m_size>>

Allocate ==
    /\ FindsFreeBit
    /\ m_size' = m_size + 1
    /\ ret' = FreeWord3 * k_bits_per_word + FreeBit
    /\ m_l3_map' = [m_l3_map EXCEPT ![FreeWord3] = @ \cup {FreeBit}]
    /\ m_l2_map' = IF m_l3_map'[FreeWord3] = Bit
                   THEN [m_l2_map EXCEPT ![FreeWord2] = @ \cup {FreeWord3 - FreeWord2 * k_bits_per_word}]
                   ELSE m_l2_map
    /\ m_l1_map' = IF m_l3_map'[FreeWord3] = Bit /\ m_l2_map'[FreeWord2] = Bit
                   THEN m_l1_map \cup {FreeWord2}
                   ELSE m_l1_map

\* An index out of range or free: deallocate returns false.
DeallocateRefused(i) == ~ Contains(i) /\ UNCHANGED vars

\* Mutant: the cleared bit is not propagated to the levels above.
DeallocateLeafOnly(i) ==
    /\ Contains(i)
    /\ m_size' = m_size - 1
    /\ m_l3_map' = [m_l3_map EXCEPT ![WordOf(i)] = @ \ {BitOf(i)}]
    /\ UNCHANGED <<m_l1_map, m_l2_map, ret>>

Deallocate(i) ==
    LET w3 == WordOf(i)
        w2 == WordOf(w3)
    IN  /\ Contains(i)
        /\ m_size' = m_size - 1
        /\ m_l3_map' = [m_l3_map EXCEPT ![w3] = @ \ {BitOf(i)}]
        /\ m_l2_map' = IF m_l3_map[w3] = Bit
                       THEN [m_l2_map EXCEPT ![w2] = @ \ {BitOf(w3)}]
                       ELSE m_l2_map
        /\ m_l1_map' = IF m_l3_map[w3] = Bit /\ m_l2_map[w2] = Bit
                       THEN m_l1_map \ {BitOf(w2)}
                       ELSE m_l1_map
        /\ UNCHANGED ret

\* Mutant: reset forgets the counter.
ResetKeepingSize == /\ m_l1_map' = {}
                    /\ m_l2_map' = [w \in Word2 |-> {}]
                    /\ m_l3_map' = [w \in Word3 |-> {}]
                    /\ UNCHANGED <<m_size, ret>>

Reset == /\ m_l1_map' = {}
         /\ m_l2_map' = [w \in Word2 |-> {}]
         /\ m_l3_map' = [w \in Word3 |-> {}]
         /\ m_size' = 0
         /\ UNCHANGED ret

\* The index a client may pass: any index, one past the end, and invalid_index.
Argument == Index \cup {k_capacity, invalid_index}

Next == \/ Allocate
        \/ AllocateFull
        \/ \E i \in Argument : Deallocate(i)
        \/ \E i \in Argument : DeallocateRefused(i)
        \/ Reset

Spec == Init /\ [][Next]_vars
-----------------------------------------------------------------------------
\* The caches of the hierarchy are exact: an upper bit is set precisely when the
\* word under it is full, so that allocate neither descends into a full word nor
\* gives up while an index is free.
SummaryExact ==
    /\ \A w \in Word3 : BitOf(w) \in m_l2_map[WordOf(w)] <=> m_l3_map[w] = Bit
    /\ \A w \in Word2 : w \in m_l1_map <=> m_l2_map[w] = Bit

\* m_size, which empty(), full() and available() answer from, counts the bits of
\* the lowest level.
SizeExact == m_size = Cardinality(Allocated)

\* The bitmap behaves as a set of indices that hands out the smallest free one,
\* and returns invalid_index only when none is free.
Indices == INSTANCE IndexSet WITH Capacity <- k_capacity, allocated <- Allocated
IsIndexSet == Indices!Spec

=============================================================================
