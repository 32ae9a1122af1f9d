---------------------- MODULE FixedPoolAllocatorProofs ----------------------
(***************************************************************************)
(* For words of any width: the upper levels of the bitmap stay exact, the  *)
(* counter counts, and the allocator implements IndexSet; a loop over it is *)
(* given what IterationYield says; and the pool knows its live blocks.     *)
(***************************************************************************)
EXTENDS FixedPoolAllocator, ArithmeticLemmas, FiniteSetTheorems

\* The inductive invariant: the three run-checked invariants together.  SummaryExact
\* is needed to know that allocate descends to a free index, SizeExact to bound m_size.
L3Inv == TypeOK /\ SummaryExact /\ SizeExact

W == k_bits_per_word

\* The least clear bit of a word that is not full.
LEMMA FirstZeroBitLeast ==
    ASSUME NEW word \in SUBSET Bit, word # Bit
    PROVE  /\ FirstZeroBit(word) \in Bit \ word
           /\ \A c \in Bit \ word : FirstZeroBit(word) <= c
<1>0. Bit \subseteq Nat
  BY L3Assumption DEF Bit
<1>1. Bit \ word \in SUBSET Nat /\ Bit \ word # {}
  BY <1>0
<1>2. \E b \in Bit \ word : \A c \in Bit \ word : b <= c
  BY <1>1, LeastElement
<1> QED BY <1>2 DEF FirstZeroBit

\* The capacity is a natural number, and bounds every index.
LEMMA CapacityNat == k_capacity \in Nat /\ \A i \in Index : i < k_capacity
<1>1. k_capacity \in Nat
  BY L3Assumption DEF k_capacity, k_l3_map_size
<1> QED BY <1>1 DEF Index

\* Positions at the lowest level: a word of level 3 and a bit make an index.
LEMMA PlaceOfIndex ==
    /\ \A w \in Word3, b \in Bit : /\ w * W + b \in Index
                                   /\ WordOf(w * W + b) = w
                                   /\ BitOf(w * W + b) = b
    /\ \A i \in Index : /\ WordOf(i) \in Word3
                        /\ BitOf(i) \in Bit
                        /\ i = WordOf(i) * W + BitOf(i)
<1> USE L3Assumption DEF W
<1>1. W * W \in Nat /\ k_l3_map_size = W * W /\ k_capacity = (W * W) * W
  BY DEF k_l3_map_size, k_capacity
<1>2. ASSUME NEW w \in Word3, NEW b \in Bit
      PROVE  /\ w * W + b \in Index
             /\ WordOf(w * W + b) = w
             /\ BitOf(w * W + b) = b
  <2>1. w \in Nat /\ b \in 0 .. W - 1 /\ w < W * W
    BY <1>1, <1>2 DEF Word3, Bit
  <2>2. w * W + b < (W * W) * W
    BY <1>1, <2>1, MulBound
  <2>3. w * W + b \in Nat
    BY <2>1, DivMod
  <2>4. (W * W) * W \in Nat
    BY <1>1
  <2> QED BY <1>1, <2>1, <2>2, <2>3, <2>4, DivMod DEF Index, WordOf, BitOf
<1>3. ASSUME NEW i \in Index
      PROVE  /\ WordOf(i) \in Word3
             /\ BitOf(i) \in Bit
             /\ i = WordOf(i) * W + BitOf(i)
  <2>1. (W * W) * W \in Nat
    BY <1>1
  <2>2. i \in Nat /\ i < (W * W) * W
    BY <1>1, <2>1, <1>3 DEF Index
  <2>3. i \div W < W * W
    BY <1>1, <2>2, DivBound
  <2>4. /\ i \div W \in Nat
        /\ i % W \in 0 .. W - 1
        /\ i = (i \div W) * W + (i % W)
    BY <2>2, DivModOf
  <2> QED BY <1>1, <2>3, <2>4 DEF Word3, Bit, WordOf, BitOf
<1> QED BY <1>2, <1>3

\* Positions at level 2: a word of level 2 and a bit make a word of level 3.
LEMMA PlaceOfWord ==
    /\ \A v \in Word2, b \in Bit : /\ v * W + b \in Word3
                                   /\ WordOf(v * W + b) = v
                                   /\ BitOf(v * W + b) = b
    /\ \A w \in Word3 : /\ WordOf(w) \in Word2
                        /\ BitOf(w) \in Bit
                        /\ w = WordOf(w) * W + BitOf(w)
<1> USE L3Assumption DEF W
<1>1. W \in Nat /\ k_l2_map_size = W /\ k_l3_map_size = W * W /\ W * W \in Nat
  BY DEF k_l2_map_size, k_l3_map_size
<1>2. ASSUME NEW v \in Word2, NEW b \in Bit
      PROVE  /\ v * W + b \in Word3
             /\ WordOf(v * W + b) = v
             /\ BitOf(v * W + b) = b
  <2>1. v \in Nat /\ b \in 0 .. W - 1 /\ v < W
    BY <1>1, <1>2 DEF Word2, Bit
  <2>2. v * W + b < W * W
    BY <1>1, <2>1, MulBound
  <2>3. /\ v * W + b \in Nat
        /\ (v * W + b) \div W = v
        /\ (v * W + b) % W = b
    BY <2>1, DivMod
  <2>4. v * W + b \in Word3
    BY <1>1, <2>2, <2>3 DEF Word3
  <2> QED BY <2>3, <2>4 DEF WordOf, BitOf
<1>3. ASSUME NEW w \in Word3
      PROVE  /\ WordOf(w) \in Word2
             /\ BitOf(w) \in Bit
             /\ w = WordOf(w) * W + BitOf(w)
  <2>1. w \in Nat /\ w < W * W
    BY <1>1, <1>3 DEF Word3
  <2>2. w \div W < W
    BY <1>1, <2>1, DivBound
  <2>3. /\ w \div W \in Nat
        /\ w % W \in 0 .. W - 1
        /\ w = (w \div W) * W + (w % W)
    BY <2>1, DivModOf
  <2> QED BY <1>1, <2>2, <2>3 DEF Word2, Bit, WordOf, BitOf
<1> QED BY <1>2, <1>3

\* When an early return is not taken, the descent ends at a clear bit of the lowest
\* level, the least one there is.
LEMMA Descent ==
    ASSUME L3Inv, FindsFreeBit
    PROVE  /\ FreeWord2 \in Word2
           /\ FreeWord3 \in Word3 /\ WordOf(FreeWord3) = FreeWord2
           /\ FreeWord3 - FreeWord2 * k_bits_per_word = BitOf(FreeWord3)
           /\ FreeBit \in Bit \ m_l3_map[FreeWord3]
           /\ FreeWord3 * W + FreeBit \in Index \ Allocated
           /\ \A j \in Index \ Allocated : FreeWord3 * W + FreeBit <= j
<1> USE L3Assumption DEF W
<1> DEFINE b2 == FirstZeroBit(m_l2_map[FreeWord2])
<1>0. Word2 = Bit /\ Bit \subseteq Nat /\ Word3 \subseteq Nat
  BY DEF Word2, Bit, Word3, k_l2_map_size, k_l3_map_size
<1>1. /\ FreeWord2 \in Word2
      /\ \A v \in Word2 \ m_l1_map : FreeWord2 <= v
  BY <1>0, FirstZeroBitLeast DEF FreeWord2, FindsFreeBit, L3Inv, TypeOK
<1>2. /\ b2 \in Bit
      /\ \A b \in Bit \ m_l2_map[FreeWord2] : b2 <= b
  BY <1>1, FirstZeroBitLeast DEF FindsFreeBit, L3Inv, TypeOK
<1>3. /\ FreeWord3 \in Word3
      /\ WordOf(FreeWord3) = FreeWord2
      /\ BitOf(FreeWord3) = b2
  BY <1>1, <1>2, PlaceOfWord DEF FreeWord3
<1>4. /\ FreeBit \in Bit \ m_l3_map[FreeWord3]
      /\ \A b \in Bit \ m_l3_map[FreeWord3] : FreeBit <= b
  BY <1>3, FirstZeroBitLeast DEF FreeBit, FindsFreeBit, L3Inv, TypeOK
<1>5. FreeWord3 * W + FreeBit \in Index \ Allocated
  <2>1. /\ FreeWord3 * W + FreeBit \in Index
        /\ WordOf(FreeWord3 * W + FreeBit) = FreeWord3
        /\ BitOf(FreeWord3 * W + FreeBit) = FreeBit
    BY <1>3, <1>4, PlaceOfIndex
  <2> QED BY <1>4, <2>1 DEF Allocated, Contains
<1>6. ASSUME NEW j \in Index \ Allocated
      PROVE  FreeWord3 * W + FreeBit <= j
  <2> DEFINE w == WordOf(j)
             v == WordOf(w)
  <2>1. /\ w \in Word3 /\ BitOf(j) \in Bit /\ j = w * W + BitOf(j)
        /\ v \in Word2 /\ BitOf(w) \in Bit /\ w = v * W + BitOf(w)
    BY <1>6, PlaceOfIndex, PlaceOfWord
  <2>2. BitOf(j) \notin m_l3_map[w]
    BY <1>6, CapacityNat DEF Allocated, Contains
  <2>3. BitOf(w) \notin m_l2_map[v]
    BY <2>1, <2>2 DEF L3Inv, SummaryExact
  <2>4. v \notin m_l1_map
    BY <2>1, <2>3 DEF L3Inv, SummaryExact
  <2>5. FreeWord2 < v \/ (FreeWord2 = v /\ b2 <= BitOf(w))
    <3>1. FreeWord2 <= v
      BY <1>1, <2>1, <2>4
    <3>2. FreeWord2 = v => b2 <= BitOf(w)
      BY <1>2, <2>1, <2>3
    <3>3. FreeWord2 \in Nat /\ v \in Nat
      BY <1>0, <1>1, <2>1
    <3> HIDE DEF v, b2
    <3> QED BY <3>1, <3>2, <3>3
  <2>6. FreeWord3 <= w
    <3>1. FreeWord2 \in Nat /\ v \in Nat /\ b2 \in 0 .. W - 1 /\ BitOf(w) \in 0 .. W - 1
      BY <1>0, <1>1, <1>2, <2>1 DEF Bit
    <3>2. FreeWord2 * W + b2 <= v * W + BitOf(w)
      BY <2>5, <3>1, Lexicographic
    <3> QED BY <2>1, <3>2 DEF FreeWord3
  <2>7. FreeWord3 < w \/ (FreeWord3 = w /\ FreeBit <= BitOf(j))
    <3>1. FreeWord3 = w => FreeBit <= BitOf(j)
      BY <1>4, <2>1, <2>2
    <3>2. FreeWord3 \in Nat /\ w \in Nat
      BY <1>0, <1>3, <2>1
    <3> HIDE DEF w
    <3> QED BY <2>6, <3>1, <3>2
  <2>8. FreeWord3 \in Nat /\ w \in Nat /\ FreeBit \in 0 .. W - 1 /\ BitOf(j) \in 0 .. W - 1
    BY <1>0, <1>3, <1>4, <2>1 DEF Bit
  <2>9. FreeWord3 * W + FreeBit <= w * W + BitOf(j)
    BY <2>7, <2>8, Lexicographic
  <2> QED BY <2>1, <2>9
<1>7. FreeWord3 - FreeWord2 * k_bits_per_word = b2
  BY <1>0, <1>1, <1>2 DEF FreeWord3
<1> QED BY <1>1, <1>3, <1>4, <1>5, <1>6, <1>7

\* When an early return is taken, every index is allocated.
LEMMA EarlyReturnMeansFull ==
    ASSUME L3Inv, ~ FindsFreeBit
    PROVE  Allocated = Index
<1> USE L3Assumption DEF W
<1> DEFINE b2 == FirstZeroBit(m_l2_map[FreeWord2])
<1>0. Word2 = Bit
  BY DEF Word2, Bit, k_l2_map_size
<1>1. m_l1_map = Bit
  <2> SUFFICES ASSUME m_l1_map # Bit PROVE FALSE
    OBVIOUS
  <2>1. FreeWord2 \in Word2 /\ FreeWord2 \notin m_l1_map
    BY <1>0, FirstZeroBitLeast DEF FreeWord2, L3Inv, TypeOK
  <2>2. m_l2_map[FreeWord2] # Bit /\ m_l2_map[FreeWord2] \in SUBSET Bit
    BY <2>1 DEF L3Inv, TypeOK, SummaryExact
  <2>3. b2 \in Bit \ m_l2_map[FreeWord2]
    BY <2>2, FirstZeroBitLeast
  <2>4. FreeWord3 \in Word3 /\ WordOf(FreeWord3) = FreeWord2 /\ BitOf(FreeWord3) = b2
    BY <2>1, <2>3, PlaceOfWord DEF FreeWord3
  <2>5. m_l3_map[FreeWord3] # Bit
    BY <2>3, <2>4 DEF L3Inv, SummaryExact
  <2> QED BY <2>2, <2>5 DEF FindsFreeBit
<1>2. \A v \in Word2 : m_l2_map[v] = Bit
  BY <1>0, <1>1 DEF L3Inv, SummaryExact
<1>3. \A w \in Word3 : m_l3_map[w] = Bit
  BY <1>2, PlaceOfWord DEF L3Inv, SummaryExact
<1> QED BY <1>3, CapacityNat, PlaceOfIndex DEF Allocated, Contains

\* There are finitely many allocated indices, and no more than the capacity.
LEMMA AllocatedFinite ==
    /\ IsFiniteSet(Allocated)
    /\ Cardinality(Allocated) \in 0 .. k_capacity
<1>1. IsFiniteSet(Index) /\ Cardinality(Index) = k_capacity
  BY CapacityNat, FS_Interval DEF Index
<1>2. Allocated \subseteq Index
  BY DEF Allocated
<1> QED BY <1>1, <1>2, CapacityNat, FS_Subset, FS_CardinalityType

\* Setting or clearing the bit of an index at the lowest level adds it to the allocated
\* set or removes it, and touches no other index.
LEMMA BitSet ==
    ASSUME NEW i \in Index, m_l3_map \in [Word3 -> SUBSET Bit],
           m_l3_map' = [m_l3_map EXCEPT ![WordOf(i)] = @ \cup {BitOf(i)}]
    PROVE  Allocated' = Allocated \cup {i}
<1>1. \A j \in Index : Contains(j)' <=> Contains(j) \/ j = i
  BY PlaceOfIndex, CapacityNat DEF Contains
<1> QED BY <1>1 DEF Allocated

\* The same for clearing the bit.
LEMMA BitCleared ==
    ASSUME NEW i \in Index, m_l3_map \in [Word3 -> SUBSET Bit],
           m_l3_map' = [m_l3_map EXCEPT ![WordOf(i)] = @ \ {BitOf(i)}]
    PROVE  Allocated' = Allocated \ {i}
<1>1. \A j \in Index : Contains(j)' <=> Contains(j) /\ j # i
  BY PlaceOfIndex DEF Contains
<1> QED BY <1>1 DEF Allocated

\* The constructor establishes the invariant, with nothing allocated.
LEMMA L3Init == Init => L3Inv /\ Allocated = {}
<1> SUFFICES ASSUME Init PROVE L3Inv /\ Allocated = {}
  OBVIOUS
<1>1. Bit # {} /\ Word2 = Bit
  BY L3Assumption DEF Bit, Word2, k_l2_map_size
<1>2. Allocated = {}
  BY PlaceOfIndex DEF Init, Allocated, Contains
<1>3. TypeOK
  BY CapacityNat DEF Init, TypeOK
<1>4. SummaryExact
  BY <1>1, PlaceOfWord DEF Init, SummaryExact
<1>5. SizeExact
  BY <1>2, FS_EmptySet DEF Init, SizeExact
<1> QED BY <1>2, <1>3, <1>4, <1>5 DEF L3Inv

\* The new index is in the set, the levels above follow, and the counter counts it.
LEMMA L3Allocate ==
    ASSUME L3Inv, Allocate
    PROVE  /\ L3Inv'
           /\ ret' \in Index \ Allocated
           /\ \A j \in Index \ Allocated : ret' <= j
           /\ Allocated' = Allocated \cup {ret'}
<1> USE L3Assumption DEF W
<1> DEFINE i  == FreeWord3 * W + FreeBit
           f3 == FreeWord3
           f2 == FreeWord2
<1>0. Word2 = Bit
  BY DEF Word2, Bit, k_l2_map_size
<1>1. /\ f2 \in Word2
      /\ f3 \in Word3 /\ WordOf(f3) = f2
      /\ f3 - f2 * k_bits_per_word = BitOf(f3)
      /\ FreeBit \in Bit \ m_l3_map[f3]
      /\ i \in Index \ Allocated
      /\ \A j \in Index \ Allocated : i <= j
  BY Descent DEF Allocate
<1>2. /\ ret' = i
      /\ m_size' = m_size + 1
      /\ m_l3_map' = [m_l3_map EXCEPT ![f3] = @ \cup {FreeBit}]
      /\ m_l2_map' = IF m_l3_map'[f3] = Bit
                     THEN [m_l2_map EXCEPT ![f2] = @ \cup {BitOf(f3)}]
                     ELSE m_l2_map
      /\ m_l1_map' = IF m_l3_map'[f3] = Bit /\ m_l2_map'[f2] = Bit
                     THEN m_l1_map \cup {f2}
                     ELSE m_l1_map
  BY <1>1 DEF Allocate
<1>3. WordOf(i) = f3 /\ BitOf(i) = FreeBit /\ BitOf(f3) \in Bit
  BY <1>1, PlaceOfIndex, PlaceOfWord
<1> HIDE DEF i, f3, f2
<1>4. Allocated' = Allocated \cup {i}
  BY <1>1, <1>2, <1>3, BitSet DEF L3Inv, TypeOK
<1>5. SizeExact'
  BY <1>1, <1>2, <1>4, AllocatedFinite, FS_AddElement DEF L3Inv, SizeExact
<1>6. TypeOK'
  <2>1. m_l3_map' \in [Word3 -> SUBSET Bit]
    BY <1>1, <1>2 DEF L3Inv, TypeOK
  <2>2. m_l2_map' \in [Word2 -> SUBSET Bit]
    BY <1>1, <1>2, <1>3 DEF L3Inv, TypeOK
  <2>3. m_l1_map' \in SUBSET Bit
    BY <1>0, <1>1, <1>2 DEF L3Inv, TypeOK
  <2>4. m_size' \in 0 .. k_capacity
    <3>1. Allocated' \subseteq Index
      BY <1>1, <1>4 DEF Allocated
    <3>2. IsFiniteSet(Index) /\ Cardinality(Index) = k_capacity
      BY CapacityNat, FS_Interval DEF Index
    <3>3. Cardinality(Allocated') <= k_capacity /\ Cardinality(Allocated') \in Nat
      BY <3>1, <3>2, FS_Subset, FS_CardinalityType
    <3>4. m_size' = Cardinality(Allocated')
      BY <1>5 DEF SizeExact
    <3> QED BY <3>3, <3>4, CapacityNat
  <2> QED BY <1>1, <1>2, <2>1, <2>2, <2>3, <2>4 DEF TypeOK
<1>7. SummaryExact'
  <2>1. ASSUME NEW w \in Word3
        PROVE  BitOf(w) \in m_l2_map'[WordOf(w)] <=> m_l3_map'[w] = Bit
    <3>1. WordOf(w) \in Word2 /\ BitOf(w) \in Bit
      BY PlaceOfWord
    <3>2. BitOf(w) \in m_l2_map[WordOf(w)] <=> m_l3_map[w] = Bit
      BY DEF L3Inv, SummaryExact
    <3>3. CASE w = f3
      BY <1>1, <1>2, <3>1, <3>2, <3>3 DEF L3Inv, TypeOK
    <3>4. CASE w # f3
      <4>1. WordOf(w) # WordOf(f3) \/ BitOf(w) # BitOf(f3)
        BY <1>1, <3>4, PlaceOfWord
      <4>2. m_l3_map'[w] = m_l3_map[w]
        BY <1>2, <3>4 DEF L3Inv, TypeOK
      <4> QED BY <1>1, <1>2, <3>1, <3>2, <4>1, <4>2 DEF L3Inv, TypeOK
    <3> QED BY <3>3, <3>4
  <2>2. ASSUME NEW v \in Word2
        PROVE  v \in m_l1_map' <=> m_l2_map'[v] = Bit
    <3>1. v \in m_l1_map <=> m_l2_map[v] = Bit
      BY DEF L3Inv, SummaryExact
    <3>2. CASE v # f2
      BY <1>1, <1>2, <3>1, <3>2 DEF L3Inv, TypeOK
    <3>3. CASE v = f2
      <4>1. f2 \notin m_l1_map
        BY <1>1, Descent DEF L3Inv, SummaryExact, FindsFreeBit, Allocate, f2
      <4> QED BY <1>1, <1>2, <3>1, <3>3, <4>1 DEF L3Inv, TypeOK
    <3> QED BY <3>2, <3>3
  <2> QED BY <2>1, <2>2 DEF SummaryExact
<1> QED BY <1>1, <1>2, <1>4, <1>5, <1>6, <1>7 DEF L3Inv

\* deallocate keeps the invariant and frees the index it is given.
LEMMA L3Deallocate ==
    ASSUME L3Inv, NEW a \in Argument, Deallocate(a)
    PROVE  /\ L3Inv'
           /\ a \in Index
           /\ Allocated' = Allocated \ {a}
           /\ ret' = ret
<1> USE L3Assumption DEF W
<1> DEFINE w3 == WordOf(a)
           w2 == WordOf(w3)
<1>0. Word2 = Bit /\ invalid_index \in Nat
  BY DEF Word2, Bit, k_l2_map_size
<1>1. /\ a \in Allocated /\ a \in Index
      /\ w3 \in Word3 /\ BitOf(a) \in Bit
      /\ w2 \in Word2 /\ BitOf(w3) \in Bit
      /\ BitOf(a) \in m_l3_map[w3]
  BY CapacityNat, PlaceOfIndex, PlaceOfWord DEF Deallocate, Contains, Argument, Allocated, Index
<1>2. BitOf(w2) = w2
  <2>1. w2 \in 0 .. W - 1
    BY <1>0, <1>1 DEF Bit
  <2>2. (0 * W + w2) % W = w2
    BY <2>1, DivMod
  <2>3. 0 * W + w2 = w2
    BY <2>1
  <2> QED BY <2>2, <2>3 DEF BitOf
<1>3. /\ m_size' = m_size - 1
      /\ m_l3_map' = [m_l3_map EXCEPT ![w3] = @ \ {BitOf(a)}]
      /\ m_l2_map' = IF m_l3_map[w3] = Bit
                     THEN [m_l2_map EXCEPT ![w2] = @ \ {BitOf(w3)}]
                     ELSE m_l2_map
      /\ m_l1_map' = IF m_l3_map[w3] = Bit /\ m_l2_map[w2] = Bit
                     THEN m_l1_map \ {w2}
                     ELSE m_l1_map
      /\ ret' = ret
  BY <1>2 DEF Deallocate
<1>4. Allocated' = Allocated \ {a}
  BY <1>1, <1>3, BitCleared DEF L3Inv, TypeOK
<1> HIDE DEF w3, w2
<1>5. SizeExact'
  BY <1>1, <1>3, <1>4, AllocatedFinite, FS_RemoveElement DEF L3Inv, SizeExact
<1>6. TypeOK'
  <2>1. m_l3_map' \in [Word3 -> SUBSET Bit]
    BY <1>1, <1>3 DEF L3Inv, TypeOK
  <2>2. m_l2_map' \in [Word2 -> SUBSET Bit]
    BY <1>1, <1>3 DEF L3Inv, TypeOK
  <2>3. m_l1_map' \in SUBSET Bit
    BY <1>3 DEF L3Inv, TypeOK
  <2>4. m_size' \in 0 .. k_capacity
    <3>1. Cardinality(Allocated) # 0
      BY <1>1, AllocatedFinite, FS_EmptySet
    <3> QED BY <1>3, <3>1, AllocatedFinite, CapacityNat DEF L3Inv, SizeExact
  <2> QED BY <1>3, <2>1, <2>2, <2>3, <2>4 DEF TypeOK, L3Inv
<1>7. SummaryExact'
  <2>1. ASSUME NEW w \in Word3
        PROVE  BitOf(w) \in m_l2_map'[WordOf(w)] <=> m_l3_map'[w] = Bit
    <3>1. WordOf(w) \in Word2 /\ BitOf(w) \in Bit
      BY PlaceOfWord
    <3>2. BitOf(w) \in m_l2_map[WordOf(w)] <=> m_l3_map[w] = Bit
      BY DEF L3Inv, SummaryExact
    <3>3. CASE w = w3
      BY <1>1, <1>3, <3>1, <3>2, <3>3 DEF L3Inv, TypeOK, w2
    <3>4. CASE w # w3
      <4>1. WordOf(w) # w2 \/ BitOf(w) # BitOf(w3)
        BY <1>1, <3>4, PlaceOfWord DEF w2
      <4>2. m_l3_map'[w] = m_l3_map[w]
        BY <1>3, <3>4 DEF L3Inv, TypeOK
      <4> QED BY <1>1, <1>3, <3>1, <3>2, <4>1, <4>2 DEF L3Inv, TypeOK
    <3> QED BY <3>3, <3>4
  <2>2. ASSUME NEW v \in Word2
        PROVE  v \in m_l1_map' <=> m_l2_map'[v] = Bit
    <3>1. v \in m_l1_map <=> m_l2_map[v] = Bit
      BY DEF L3Inv, SummaryExact
    <3>2. CASE v # w2
      BY <1>1, <1>3, <3>1, <3>2 DEF L3Inv, TypeOK
    <3>3. CASE v = w2
      BY <1>1, <1>3, <3>1, <3>3 DEF L3Inv, TypeOK
    <3> QED BY <3>2, <3>3
  <2> QED BY <2>1, <2>2 DEF SummaryExact
<1> QED BY <1>1, <1>3, <1>4, <1>5, <1>6, <1>7 DEF L3Inv

\* reset keeps the invariant and frees every index.
LEMMA L3Reset ==
    ASSUME L3Inv, Reset
    PROVE  L3Inv' /\ Allocated' = {}
<1>1. Bit # {} /\ Word2 = Bit
  BY L3Assumption DEF Bit, Word2, k_l2_map_size
<1>2. Allocated' = {}
  BY PlaceOfIndex DEF Reset, Allocated, Contains
<1>3. TypeOK'
  BY CapacityNat DEF Reset, TypeOK, L3Inv
<1>4. SummaryExact'
  BY <1>1, PlaceOfWord DEF Reset, SummaryExact
<1>5. SizeExact'
  BY <1>2, FS_EmptySet DEF Reset, SizeExact
<1> QED BY <1>2, <1>3, <1>4, <1>5 DEF L3Inv

\* So does a call that leaves the bitmap alone.
LEMMA L3Unchanged ==
    ASSUME L3Inv, UNCHANGED <<m_l1_map, m_l2_map, m_l3_map, m_size>>,
           ret' \in Index \cup {invalid_index}
    PROVE  L3Inv' /\ Allocated' = Allocated
<1>1. Allocated' = Allocated
  BY DEF Allocated, Contains
<1> QED BY <1>1 DEF L3Inv, TypeOK, SummaryExact, SizeExact

\* Each step keeps the invariant, and is a step of IndexSet.
LEMMA L3Step == L3Inv /\ [Next]_vars => L3Inv' /\ [Indices!Next]_(Indices!vars)
<1> SUFFICES ASSUME L3Inv, [Next]_vars PROVE L3Inv' /\ [Indices!Next]_(Indices!vars)
  OBVIOUS
<1> USE DEF Indices!Next, Indices!vars, Indices!Index, Indices!Free
<1>1. CASE Allocate
  <2>1. Indices!Allocate(ret')
    BY <1>1, L3Allocate DEF Indices!Allocate, Index
  <2>2. ret' \in 0 .. k_capacity - 1
    BY <1>1, L3Allocate DEF Index
  <2> QED BY <1>1, <2>1, <2>2, L3Allocate
<1>2. CASE AllocateFull
  <2>1. Allocated = Index
    BY <1>2, EarlyReturnMeansFull DEF AllocateFull
  <2>2. L3Inv' /\ Allocated' = Allocated /\ ret' = invalid_index
    BY <1>2, L3Unchanged DEF AllocateFull
  <2>3. Indices!AllocateFull
    BY <2>1, <2>2 DEF Indices!AllocateFull, Index
  <2> QED BY <2>2, <2>3
<1>3. CASE \E i \in Argument : Deallocate(i)
  <2>1. PICK i \in Argument : Deallocate(i)
    BY <1>3
  <2>2. L3Inv' /\ i \in 0 .. k_capacity - 1 /\ Allocated' = Allocated \ {i} /\ ret' = ret
    BY <2>1, L3Deallocate DEF Index
  <2>3. Indices!Deallocate(i)
    BY <2>2 DEF Indices!Deallocate
  <2> QED BY <2>2, <2>3
<1>4. CASE \E i \in Argument : DeallocateRefused(i)
  BY <1>4, L3Unchanged DEF DeallocateRefused, vars, L3Inv, TypeOK
<1>5. CASE Reset
  <2>1. Indices!Reset
    BY <1>5, L3Reset DEF Reset, Indices!Reset
  <2> QED BY <1>5, <2>1, L3Reset
<1>6. CASE UNCHANGED vars
  BY <1>6, L3Unchanged DEF vars, L3Inv, TypeOK
<1> QED BY <1>1, <1>2, <1>3, <1>4, <1>5, <1>6 DEF Next

\* The three invariants hold in every state of the allocator.
THEOREM L3Invariant == Spec => []L3Inv
<1>1. Init => L3Inv
  BY L3Init
<1>2. L3Inv /\ [Next]_vars => L3Inv'
  BY L3Step
<1> QED BY <1>1, <1>2, PTL DEF Spec

\* The words of the bitmap keep their width, and m_size stays within the capacity.
THEOREM L3TypeOK == Spec => []TypeOK
<1>1. L3Inv => TypeOK
  BY DEF L3Inv
<1> QED BY <1>1, L3Invariant, PTL

\* An upper bit of the bitmap is set precisely when the word under it is full, at every
\* level and after every allocate, deallocate and reset.
THEOREM L3SummaryExact == Spec => []SummaryExact
<1>1. L3Inv => SummaryExact
  BY DEF L3Inv
<1> QED BY <1>1, L3Invariant, PTL

\* m_size is the number of allocated indices.
THEOREM L3SizeExact == Spec => []SizeExact
<1>1. L3Inv => SizeExact
  BY DEF L3Inv
<1> QED BY <1>1, L3Invariant, PTL

\* The bitmap implements the set of indices: allocate returns the smallest free index,
\* and invalid_index precisely when every index is allocated.
THEOREM L3ImplementsIndexSet == Spec => IsIndexSet
<1>1. Init => Indices!Init
  BY L3Init DEF Init, Indices!Init
<1>2. L3Inv /\ [Next]_vars => [Indices!Next]_(Indices!vars)
  BY L3Step
<1> QED BY <1>1, <1>2, L3Invariant, PTL DEF Spec, IsIndexSet, Indices!Spec
-----------------------------------------------------------------------------
\* The least set bit of a word that is not empty.
LEMMA FirstSetBitLeast ==
    ASSUME NEW word \in SUBSET Bit, word # {}
    PROVE  /\ FirstSetBit(word) \in word
           /\ \A c \in word : FirstSetBit(word) <= c
<1>1. word \in SUBSET Nat
  BY L3Assumption DEF Bit
<1>2. \E b \in word : \A c \in word : b <= c
  BY <1>1, LeastElement
<1> QED BY <1>2 DEF FirstSetBit

\* A word of level 3 that is neither full nor empty: what the jumps look for.
Partial(w) == w \in Word3 /\ m_l3_map[w] # Bit /\ m_l3_map[w] # {}

\* r is what a scan from pos has to return: the least set bit left in the word of pos, or
\* the first index of the next partial word, or k_capacity.
ScanResult(pos, r) ==
    LET here == {b \in m_l3_map[WordOf(pos)] : b >= BitOf(pos)}
    IN  IF pos = k_capacity THEN r = k_capacity
        ELSE IF here # {} THEN r = WordOf(pos) * W + FirstSetBit(here)
        ELSE \/ /\ r = k_capacity
                /\ \A w \in Word3 : w > WordOf(pos) => ~ Partial(w)
             \/ \E u \in Word3 :
                   /\ u > WordOf(pos) /\ Partial(u)
                   /\ \A w \in Word3 : w > WordOf(pos) /\ w < u => ~ Partial(w)
                   /\ r = u * W + FirstSetBit(m_l3_map[u])

\* It determines the result.
LEMMA ScanResultUnique ==
    ASSUME NEW pos \in 0 .. k_capacity, NEW r, NEW s, ScanResult(pos, r), ScanResult(pos, s)
    PROVE  r = s
<1>1. Word3 \subseteq Nat
  BY L3Assumption DEF Word3, k_l3_map_size
<1>2. \A u, v \in Word3 : u < v \/ v < u \/ u = v
  BY <1>1
<1> QED BY <1>2 DEF ScanResult


\* Where nothing is left in the word of a position and every word between it and t is full,
\* the result is that of the first position of t.
LEMMA ScanOn ==
    ASSUME NEW pos \in Index, NEW t \in Word3, t > WordOf(pos), m_l3_map \in [Word3 -> SUBSET Bit],
           {b \in m_l3_map[WordOf(pos)] : b >= BitOf(pos)} = {},
           \A w \in Word3 : w > WordOf(pos) /\ w < t => m_l3_map[w] = Bit,
           m_l3_map[t] # Bit,
           NEW r, ScanResult(t * W, r)
    PROVE  ScanResult(pos, r)
<1> USE L3Assumption
<1>1. 0 \in Bit /\ t * W + 0 \in Index /\ WordOf(t * W + 0) = t /\ BitOf(t * W + 0) = 0
  <2>1. 0 \in Bit
    BY DEF Bit
  <2> QED BY <2>1, PlaceOfIndex
<1>2. t * W + 0 = t * W
  BY DEF W, Word3, k_l3_map_size
<1>3. {b \in m_l3_map[WordOf(t * W)] : b >= BitOf(t * W)} = m_l3_map[t]
  <2>1. m_l3_map[t] \subseteq Bit /\ \A b \in Bit : b >= 0
    BY DEF Bit
  <2> QED BY <1>1, <1>2, <2>1
<1>4. t * W # k_capacity /\ pos # k_capacity
  BY <1>1, <1>2, CapacityNat
<1>5. Word3 \subseteq Nat /\ WordOf(pos) \in Word3
  BY PlaceOfIndex DEF Word3, k_l3_map_size
<1>6. \A w \in Word3 : w > WordOf(pos) /\ w < t => ~ Partial(w)
  BY DEF Partial
<1>7. CASE m_l3_map[t] # {}
  <2>1. r = t * W + FirstSetBit(m_l3_map[t])
    <3>1. WordOf(t * W) = t
      BY <1>1, <1>2
    <3> QED BY <1>3, <1>4, <1>7, <3>1 DEF ScanResult
  <2>2. Partial(t)
    BY <1>7 DEF Partial
  <2> QED BY <1>4, <1>6, <2>1, <2>2 DEF ScanResult
<1>8. CASE m_l3_map[t] = {}
  <2>1. \/ /\ r = k_capacity
           /\ \A w \in Word3 : w > t => ~ Partial(w)
        \/ \E u \in Word3 :
              /\ u > t /\ Partial(u)
              /\ \A w \in Word3 : w > t /\ w < u => ~ Partial(w)
              /\ r = u * W + FirstSetBit(m_l3_map[u])
    <3>1. WordOf(t * W) = t
      BY <1>1, <1>2
    <3> QED BY <1>3, <1>4, <1>8, <3>1 DEF ScanResult
  <2>2. \A w \in Word3 : w > WordOf(pos) => w < t \/ w = t \/ w > t
    BY <1>5
  <2>3. ~ Partial(t)
    BY <1>8 DEF Partial
  <2>4. CASE r = k_capacity /\ \A w \in Word3 : w > t => ~ Partial(w)
    BY <1>4, <1>6, <2>2, <2>3, <2>4 DEF ScanResult
  <2>5. ASSUME NEW u \in Word3, u > t, Partial(u),
               \A w \in Word3 : w > t /\ w < u => ~ Partial(w),
               r = u * W + FirstSetBit(m_l3_map[u])
        PROVE  ScanResult(pos, r)
    <3>1. u > WordOf(pos)
      <4>1. u \in Nat /\ t \in Nat /\ WordOf(pos) \in Nat
        BY <1>5
      <4> QED BY <2>5, <4>1
    <3>2. \A w \in Word3 : w > WordOf(pos) /\ w < u => ~ Partial(w)
      BY <1>6, <2>2, <2>3, <2>5
    <3> QED BY <1>4, <2>5, <3>1, <3>2 DEF ScanResult
  <2> QED BY <2>1, <2>4, <2>5
<1> QED BY <1>7, <1>8

\* Words of level 3 are ordered by the word and the bit of level 2.
LEMMA WordOrder ==
    ASSUME NEW u \in Word3, NEW w \in Word3
    PROVE  u < w <=> \/ WordOf(u) < WordOf(w)
                     \/ WordOf(u) = WordOf(w) /\ BitOf(u) < BitOf(w)
<1> USE L3Assumption DEF W
<1>1. Bit = 0 .. W - 1 /\ Word2 \subseteq Nat /\ Word3 \subseteq Nat
  BY DEF Bit, Word2, Word3, k_l2_map_size, k_l3_map_size
<1>2. /\ WordOf(u) \in Nat /\ BitOf(u) \in 0 .. W - 1 /\ u = WordOf(u) * W + BitOf(u)
      /\ WordOf(w) \in Nat /\ BitOf(w) \in 0 .. W - 1 /\ w = WordOf(w) * W + BitOf(w)
      /\ u \in Nat /\ w \in Nat
  BY <1>1, PlaceOfWord
<1>3. WordOf(u) < WordOf(w) => u < w
  <2> SUFFICES ASSUME WordOf(u) < WordOf(w) PROVE u < w
    OBVIOUS
  <2>1. WordOf(u) * W + BitOf(u) < WordOf(w) * W
    BY <1>2, MulBound
  <2>2. WordOf(w) * W \in Nat
    BY <1>2
  <2> QED BY <1>2, <2>1, <2>2
<1>4. WordOf(w) < WordOf(u) => w < u
  <2> SUFFICES ASSUME WordOf(w) < WordOf(u) PROVE w < u
    OBVIOUS
  <2>1. WordOf(w) * W + BitOf(w) < WordOf(u) * W
    BY <1>2, MulBound
  <2>2. WordOf(u) * W \in Nat
    BY <1>2
  <2> QED BY <1>2, <2>1, <2>2
<1>5. WordOf(u) = WordOf(w) => (u < w <=> BitOf(u) < BitOf(w))
  <2>1. WordOf(u) * W \in Nat
    BY <1>2
  <2> QED BY <1>2, <2>1
<1> QED BY <1>2, <1>3, <1>4, <1>5

\* One round of the loop leads from a position to its result, provided the later ones do.
LEMMA ScanStepResult ==
    ASSUME L3Inv, NEW pos \in 0 .. k_capacity, NEW scan,
           \A t \in 0 .. k_capacity : t > pos => ScanResult(t, scan[t])
    PROVE  ScanResult(pos, ScanStep(scan, pos))
<1> USE L3Assumption
<1> DEFINE w3     == WordOf(pos)
           w2     == WordOf(w3)
           here   == {b \in m_l3_map[w3] : b >= BitOf(pos)}
           inW2   == {b \in Bit \ m_l2_map[w2] : b > BitOf(w3)}
           inL1   == {b \in Bit \ m_l1_map : b > w2}
           jumpW3 == w2 * k_bits_per_word + FirstSetBit(inW2)
           jumpW2 == FirstSetBit(inL1)
           step   == ScanStep(scan, pos)
<1>0. /\ m_l3_map \in [Word3 -> SUBSET Bit]
      /\ m_l2_map \in [Word2 -> SUBSET Bit]
      /\ m_l1_map \in SUBSET Bit
      /\ SummaryExact
  BY DEF L3Inv, TypeOK
<1>00. Word2 = Bit /\ Bit \subseteq Nat /\ Word3 \subseteq Nat
  BY DEF Word2, Bit, Word3, k_l2_map_size, k_l3_map_size
<1>1. CASE pos = k_capacity
  BY <1>1 DEF ScanStep, ScanResult
<1>2. CASE pos < k_capacity /\ here # {}
  <2>1. step = w3 * k_bits_per_word + FirstSetBit(here)
    BY <1>2 DEF ScanStep
  <2> QED BY <1>2, <2>1 DEF ScanResult, W
<1> SUFFICES ASSUME pos < k_capacity, here = {} PROVE ScanResult(pos, step)
  BY <1>1, <1>2, CapacityNat
<1>3. pos \in Index
  BY CapacityNat DEF Index
<1>4. /\ w3 \in Word3 /\ BitOf(pos) \in Bit /\ pos = w3 * W + BitOf(pos)
      /\ w2 \in Word2 /\ BitOf(w3) \in Bit
  BY <1>3, PlaceOfIndex, PlaceOfWord
<1>5. \A w \in Word3 : m_l3_map[w] = Bit <=> BitOf(w) \in m_l2_map[WordOf(w)]
  BY <1>0 DEF SummaryExact
<1>6. ASSUME NEW t \in Word3, t > w3
      PROVE  t * W \in 0 .. k_capacity /\ t * W > pos
  <2>1. 0 \in Bit
    BY DEF Bit
  <2>2. t * W + 0 \in Index
    BY <2>1, PlaceOfIndex
  <2>3. w3 * W + BitOf(pos) < t * W
    BY <1>00, <1>4, <1>6, MulBound DEF W, Bit
  <2>4. t * W \in Nat /\ t * W + 0 = t * W /\ w3 * W + BitOf(pos) \in Nat
    BY <1>00, <1>4 DEF W
  <2> QED BY <1>4, <2>2, <2>3, <2>4, CapacityNat DEF Index
<1>7. CASE inW2 # {}
  <2> DEFINE b == FirstSetBit(inW2)
  <2>1. b \in Bit /\ b \notin m_l2_map[w2] /\ b > BitOf(w3) /\ \A c \in inW2 : b <= c
    <3>1. inW2 \in SUBSET Bit
      OBVIOUS
    <3> HIDE DEF inW2
    <3>2. b \in inW2 /\ \A c \in inW2 : b <= c
      BY <1>7, <3>1, FirstSetBitLeast
    <3> QED BY <3>2 DEF inW2
  <2>2. jumpW3 \in Word3 /\ WordOf(jumpW3) = w2 /\ BitOf(jumpW3) = b
    BY <1>4, <2>1, PlaceOfWord DEF W
  <2> HIDE DEF b, jumpW3
  <2>3. jumpW3 > w3
    <3>1. w3 < jumpW3
      BY <1>4, <2>1, <2>2, WordOrder, <1>00
    <3> QED BY <3>1, <1>00, <1>4, <2>2
  <2>4. m_l3_map[jumpW3] # Bit
    BY <1>5, <2>1, <2>2
  <2>5. ASSUME NEW w \in Word3, w > w3, w < jumpW3
        PROVE  m_l3_map[w] = Bit
    <3>0. WordOf(w) \in Word2 /\ BitOf(w) \in Bit /\ w3 < w
      BY <2>5, PlaceOfWord, <1>00, <1>4
    <3>1. /\ WordOf(w3) < WordOf(w) \/ (WordOf(w3) = WordOf(w) /\ BitOf(w3) < BitOf(w))
          /\ WordOf(w) < WordOf(jumpW3) \/ (WordOf(w) = WordOf(jumpW3) /\ BitOf(w) < BitOf(jumpW3))
      BY <2>2, <2>5, <3>0, WordOrder, <1>4
    <3>2. WordOf(w) = w2 /\ BitOf(w3) < BitOf(w) /\ BitOf(w) < b
      <4>1. WordOf(w) \in Nat /\ w2 \in Nat
        BY <3>0, <1>4, <1>00
      <4> QED BY <3>1, <2>2, <4>1
    <3>3. BitOf(w) \in m_l2_map[w2]
      <4> SUFFICES ASSUME BitOf(w) \notin m_l2_map[w2] PROVE FALSE
        OBVIOUS
      <4>0. BitOf(w) \in Nat /\ BitOf(w3) \in Nat /\ b \in Nat
        BY <3>0, <1>4, <2>1, <1>00
      <4>1. BitOf(w) \in inW2
        BY <3>0, <3>2, <4>0
      <4> QED BY <2>1, <3>2, <4>0, <4>1
    <3> QED BY <1>5, <3>2, <3>3
  <2>6. CASE m_l3_map[jumpW3] # {}
    <3>1. step = jumpW3 * k_bits_per_word + FirstSetBit(m_l3_map[jumpW3])
      BY <1>7, <2>6 DEF ScanStep, jumpW3
    <3>2. Partial(jumpW3) /\ \A w \in Word3 : w > w3 /\ w < jumpW3 => ~ Partial(w)
      BY <2>2, <2>4, <2>5, <2>6 DEF Partial
    <3> QED BY <2>2, <2>3, <3>1, <3>2 DEF ScanResult, W
  <2>7. CASE m_l3_map[jumpW3] = {}
    <3>1. step = scan[jumpW3 * W]
      BY <1>7, <2>7 DEF ScanStep, jumpW3, W
    <3>2. ScanResult(jumpW3 * W, step)
      BY <1>6, <2>2, <2>3, <3>1
    <3> HIDE DEF step
    <3> QED BY <1>0, <1>3, <2>2, <2>3, <2>4, <2>5, <3>2, ScanOn
  <2> QED BY <2>6, <2>7
<1>8. CASE inW2 = {} /\ inL1 = {}
  <2>1. step = k_capacity
    BY <1>8 DEF ScanStep
  <2>2. ASSUME NEW w \in Word3, w > w3
        PROVE  m_l3_map[w] = Bit
    <3>0. WordOf(w) \in Word2 /\ BitOf(w) \in Bit /\ w3 < w
      BY <2>2, PlaceOfWord, <1>00, <1>4
    <3>1. CASE w2 < WordOf(w)
      <4>1. WordOf(w) > w2
        BY <3>0, <3>1, <1>00, <1>4
      <4>2. WordOf(w) \in m_l1_map
        BY <1>8, <1>00, <3>0, <4>1
      <4> QED BY <1>0, <1>5, <3>0, <4>2 DEF SummaryExact
    <3>2. CASE w2 = WordOf(w) /\ BitOf(w3) < BitOf(w)
      <4>1. BitOf(w) > BitOf(w3)
        BY <3>0, <3>2, <1>00, <1>4
      <4>2. BitOf(w) \in m_l2_map[w2]
        BY <1>8, <3>0, <4>1
      <4> QED BY <1>5, <3>2, <4>2
    <3> QED BY <3>0, <3>1, <3>2, WordOrder, <1>4
  <2> QED BY <2>1, <2>2 DEF ScanResult, Partial
<1>9. CASE inW2 = {} /\ inL1 # {}
  <2> DEFINE v == FirstSetBit(inL1)
             b == FirstZeroBit(m_l2_map[v])
             t == v * k_bits_per_word + b
  <2>1. v \in Word2 /\ v \notin m_l1_map /\ v > w2 /\ \A c \in inL1 : v <= c
    <3>1. inL1 \in SUBSET Bit
      OBVIOUS
    <3> HIDE DEF inL1
    <3>2. v \in inL1 /\ \A c \in inL1 : v <= c
      BY <1>9, <3>1, FirstSetBitLeast
    <3> QED BY <3>2, <1>00 DEF inL1
  <2>2. m_l2_map[v] # Bit
    BY <1>0, <2>1 DEF SummaryExact
  <2>3. step = scan[t * W]
    BY <1>9, <2>2 DEF ScanStep, W
  <2> HIDE DEF v
  <2>4. b \in Bit \ m_l2_map[v] /\ \A c \in Bit \ m_l2_map[v] : b <= c
    BY <1>0, <2>1, <2>2, FirstZeroBitLeast
  <2> HIDE DEF b
  <2>5. t \in Word3 /\ WordOf(t) = v /\ BitOf(t) = b
    BY <2>1, <2>4, PlaceOfWord DEF W
  <2> HIDE DEF t
  <2>6. m_l3_map[t] # Bit
    BY <1>5, <2>4, <2>5
  <2>7. t > w3
    <3>1. w2 < v
      BY <2>1, <1>00, <1>4
    <3>2. w3 < t
      BY <3>1, <2>5, WordOrder, <1>4
    <3> QED BY <3>2, <1>00, <1>4, <2>5
  <2>8. ASSUME NEW w \in Word3, w > w3, w < t
        PROVE  m_l3_map[w] = Bit
    <3>0. WordOf(w) \in Word2 /\ BitOf(w) \in Bit /\ w3 < w
      BY <2>8, PlaceOfWord, <1>00, <1>4
    <3>1. /\ w2 < WordOf(w) \/ (w2 = WordOf(w) /\ BitOf(w3) < BitOf(w))
          /\ WordOf(w) < v \/ (WordOf(w) = v /\ BitOf(w) < b)
      BY <2>5, <2>8, <3>0, WordOrder, <1>4
    <3>2. CASE w2 = WordOf(w) /\ BitOf(w3) < BitOf(w)
      <4>1. BitOf(w) > BitOf(w3)
        BY <3>0, <3>2, <1>00, <1>4
      <4>2. BitOf(w) \in m_l2_map[w2]
        BY <1>9, <3>0, <4>1
      <4> QED BY <1>5, <3>2, <4>2
    <3>3. CASE w2 < WordOf(w) /\ WordOf(w) < v
      <4>0. WordOf(w) \in Nat /\ w2 \in Nat /\ v \in Nat
        BY <3>0, <1>4, <2>1, <1>00
      <4>1. WordOf(w) \notin inL1
        <5> HIDE DEF inL1
        <5> QED BY <2>1, <3>3, <4>0
      <4>2. WordOf(w) \in m_l1_map
        BY <3>0, <3>3, <4>0, <4>1, <1>00
      <4> QED BY <1>0, <1>5, <3>0, <4>2 DEF SummaryExact
    <3>4. CASE WordOf(w) = v /\ BitOf(w) < b
      <4>0. BitOf(w) \in Nat /\ b \in Nat
        BY <3>0, <2>4, <1>00
      <4>1. BitOf(w) \in m_l2_map[v]
        BY <2>4, <3>0, <3>4, <4>0
      <4> QED BY <1>5, <3>4, <4>1
    <3> QED BY <3>1, <3>2, <3>3, <3>4
  <2>9. ScanResult(t * W, step)
    BY <1>6, <2>3, <2>5, <2>7
  <2> HIDE DEF step
  <2> QED BY <1>0, <1>3, <2>5, <2>6, <2>7, <2>8, <2>9, ScanOn
<1> QED BY <1>7, <1>8, <1>9

\* There is a result for every position.
LEMMA ScanResultExists ==
    ASSUME NEW pos \in 0 .. k_capacity
    PROVE  \E r : ScanResult(pos, r)
<1> DEFINE here == {b \in m_l3_map[WordOf(pos)] : b >= BitOf(pos)}
           ahead == {w \in Word3 : w > WordOf(pos) /\ Partial(w)}
<1>1. CASE pos = k_capacity \/ here # {}
  BY <1>1 DEF ScanResult
<1>2. CASE pos # k_capacity /\ here = {} /\ ahead = {}
  BY <1>2 DEF ScanResult
<1>3. CASE pos # k_capacity /\ here = {} /\ ahead # {}
  <2>0. Word3 \subseteq Nat
    BY L3Assumption DEF Word3, k_l3_map_size
  <2>1. ahead \in SUBSET Nat
    BY <2>0
  <2>2. PICK u \in ahead : \A w \in ahead : u <= w
    <3> HIDE DEF ahead
    <3> QED BY <1>3, <2>1, LeastElement
  <2>3. \A w \in Word3 : w > WordOf(pos) /\ w < u => ~ Partial(w)
    <3> SUFFICES ASSUME NEW w \in Word3, w > WordOf(pos), w < u, Partial(w) PROVE FALSE
      OBVIOUS
    <3>1. w \in ahead
      OBVIOUS
    <3>2. w \in Nat /\ u \in Nat
      BY <2>0
    <3> QED BY <2>2, <3>1, <3>2
  <2> QED BY <1>3, <2>2, <2>3 DEF ScanResult
<1> QED BY <1>1, <1>2, <1>3

\* The recursion is well founded: it goes on from later positions only.
LEMMA ScanEquation ==
    ASSUME L3Inv
    PROVE  Scan = [pos \in 0 .. k_capacity |-> ScanStep(Scan, pos)]
<1> DEFINE f == [pos \in 0 .. k_capacity |-> CHOOSE r : ScanResult(pos, r)]
<1>1. \A pos \in 0 .. k_capacity : ScanResult(pos, f[pos])
  BY ScanResultExists
<1> HIDE DEF f
<1>2. \A pos \in 0 .. k_capacity : ScanResult(pos, ScanStep(f, pos))
  BY <1>1, ScanStepResult
<1>3. \A pos \in 0 .. k_capacity : f[pos] = ScanStep(f, pos)
  BY <1>1, <1>2, ScanResultUnique
<1>4. f = [pos \in 0 .. k_capacity |-> ScanStep(f, pos)]
  BY <1>3, Zenon DEF f
<1>5. \E scan : scan = [pos \in 0 .. k_capacity |-> ScanStep(scan, pos)]
  BY <1>4
<1> QED BY <1>5, Zenon DEF Scan

\* The loop of next_after finds the result from every position.
LEMMA ScanFinds ==
    ASSUME L3Inv, NEW pos \in 0 .. k_capacity
    PROVE  ScanResult(pos, Scan[pos])
<1> DEFINE wrong == {k \in 0 .. k_capacity : ~ ScanResult(k_capacity - k, Scan[k_capacity - k])}
<1>1. wrong = {}
  <2> SUFFICES ASSUME wrong # {} PROVE FALSE
    OBVIOUS
  <2>1. wrong \in SUBSET Nat
    BY CapacityNat
  <2>2. PICK k \in wrong : \A j \in wrong : k <= j
    <3> HIDE DEF wrong
    <3> QED BY <2>1, LeastElement
  <2> DEFINE p == k_capacity - k
  <2>3. k \in 0 .. k_capacity /\ p \in 0 .. k_capacity
    BY CapacityNat
  <2>4. ASSUME NEW t \in 0 .. k_capacity, t > p
        PROVE  ScanResult(t, Scan[t])
    <3>1. k_capacity - t \in 0 .. k_capacity /\ k_capacity - t < k /\ k_capacity - (k_capacity - t) = t
      BY <2>3, <2>4, CapacityNat
    <3>2. k_capacity - t \notin wrong
      <4> HIDE DEF wrong
      <4>1. k_capacity - t \in Nat /\ k \in Nat
        BY <2>3, <3>1
      <4> QED BY <2>2, <3>1, <4>1
    <3> QED BY <3>1, <3>2
  <2>5. ScanResult(p, ScanStep(Scan, p))
    <3> HIDE DEF p
    <3> QED BY <2>3, <2>4, ScanStepResult
  <2>6. Scan[p] = ScanStep(Scan, p)
    BY <2>3, ScanEquation
  <2> QED BY <2>5, <2>6
<1>2. k_capacity - pos \in 0 .. k_capacity /\ k_capacity - (k_capacity - pos) = pos
  BY CapacityNat
<1> QED BY <1>1, <1>2

\* Indices are ordered by word, then by bit.
LEMMA IndexOrder ==
    ASSUME NEW i \in Index, NEW j \in Index
    PROVE  i < j <=> \/ WordOf(i) < WordOf(j)
                     \/ WordOf(i) = WordOf(j) /\ BitOf(i) < BitOf(j)
<1> USE L3Assumption DEF W
<1>1. Bit = 0 .. W - 1 /\ Word3 \subseteq Nat /\ Index \subseteq Nat
  BY CapacityNat DEF Bit, Word3, k_l3_map_size, Index
<1>2. /\ WordOf(i) \in Nat /\ BitOf(i) \in 0 .. W - 1 /\ i = WordOf(i) * W + BitOf(i)
      /\ WordOf(j) \in Nat /\ BitOf(j) \in 0 .. W - 1 /\ j = WordOf(j) * W + BitOf(j)
      /\ i \in Nat /\ j \in Nat
  BY <1>1, PlaceOfIndex
<1>3. WordOf(i) < WordOf(j) => i < j
  <2> SUFFICES ASSUME WordOf(i) < WordOf(j) PROVE i < j
    OBVIOUS
  <2>1. WordOf(i) * W + BitOf(i) < WordOf(j) * W
    BY <1>2, MulBound
  <2>2. WordOf(j) * W \in Nat
    BY <1>2
  <2> QED BY <1>2, <2>1, <2>2
<1>4. WordOf(j) < WordOf(i) => j < i
  <2> SUFFICES ASSUME WordOf(j) < WordOf(i) PROVE j < i
    OBVIOUS
  <2>1. WordOf(j) * W + BitOf(j) < WordOf(i) * W
    BY <1>2, MulBound
  <2>2. WordOf(i) * W \in Nat
    BY <1>2
  <2> QED BY <1>2, <2>1, <2>2
<1>5. WordOf(i) = WordOf(j) => (i < j <=> BitOf(i) < BitOf(j))
  <2>1. WordOf(i) * W \in Nat
    BY <1>2
  <2> QED BY <1>2, <2>1
<1> QED BY <1>2, <1>3, <1>4, <1>5

\* The next index is the next bit of the word, or the first one of the next word.
LEMMA NextPlace ==
    ASSUME NEW p \in Index, p + 1 \in Index
    PROVE  \/ WordOf(p + 1) = WordOf(p)
           \/ WordOf(p + 1) = WordOf(p) + 1 /\ (WordOf(p) + 1) * W - 1 = p
<1> USE L3Assumption DEF W
<1>1. Bit = 0 .. W - 1 /\ Word3 \subseteq Nat /\ Index \subseteq Nat
  BY CapacityNat DEF Bit, Word3, k_l3_map_size, Index
<1>2. WordOf(p) \in Nat /\ BitOf(p) \in 0 .. W - 1 /\ p = WordOf(p) * W + BitOf(p) /\ p \in Nat
  BY <1>1, PlaceOfIndex
<1>3. WordOf(p) * W \in Nat
  BY <1>2
<1>4. CASE BitOf(p) < W - 1
  <2>1. BitOf(p) + 1 \in 0 .. W - 1 /\ p + 1 = WordOf(p) * W + (BitOf(p) + 1)
    BY <1>2, <1>3, <1>4
  <2>2. (WordOf(p) * W + (BitOf(p) + 1)) \div W = WordOf(p)
    BY <1>2, <2>1, DivMod
  <2> QED BY <2>1, <2>2 DEF WordOf
<1>5. CASE BitOf(p) = W - 1
  <2>1. (WordOf(p) + 1) * W = WordOf(p) * W + W
    BY <1>2
  <2>2. 0 \in 0 .. W - 1 /\ p + 1 = (WordOf(p) + 1) * W + 0
    BY <1>2, <1>3, <1>5, <2>1
  <2>3. ((WordOf(p) + 1) * W + 0) \div W = WordOf(p) + 1
    <3>1. WordOf(p) + 1 \in Nat /\ W \in Nat \ {0}
      BY <1>2
    <3> HIDE DEF W
    <3> QED BY <2>2, <3>1, DivMod
  <2>4. (WordOf(p) + 1) * W - 1 = p
    BY <1>2, <1>3, <1>5, <2>1
  <2> QED BY <2>2, <2>3, <2>4 DEF WordOf
<1>6. BitOf(p) < W - 1 \/ BitOf(p) = W - 1
  BY <1>2
<1> QED BY <1>4, <1>5, <1>6

\* What IterationYield calls the words and bits of the bitmap are those of the bitmap.
LEMMA LoopPlaces ==
    /\ Loop!Word = Word3 /\ Loop!Bit = Bit
    /\ \A i : Loop!WordOf(i) = WordOf(i)
  BY DEF Loop!Word, Loop!Bit, Loop!WordOf, Word3, Bit, WordOf

\* The bits of a word are the allocated indices in it.
LEMMA WordHolds ==
    /\ \A w \in Word3, b \in Bit : b \in m_l3_map[w] <=> w * W + b \in Allocated
    /\ \A i \in Index : BitOf(i) \in m_l3_map[WordOf(i)] <=> i \in Allocated
  BY CapacityNat, PlaceOfIndex DEF Allocated, Contains

\* From an index the loop yields, `++' leads to the next index it yields, or to the end, even
\* when the body has deallocated that index and some before it.
LEMMA NextYielded ==
    ASSUME L3Inv, NEW B \in SUBSET Index, Allocated \subseteq B,
           NEW p \in Loop!Yielded(B), \A i \in B : i > p => i \in Allocated
    PROVE  \/ /\ NextAfter(p) = k_capacity
              /\ \A i \in Loop!Yielded(B) : ~ (i > p)
           \/ /\ NextAfter(p) \in Loop!Yielded(B)
              /\ NextAfter(p) > p
              /\ \A i \in Loop!Yielded(B) : i > p => NextAfter(p) <= i
<1> USE L3Assumption
<1> DEFINE F == Loop!FullWords(B)
           Fine(i) == WordOf(i) \in F => Loop!RunInto(B, WordOf(i))
           pos == p + 1
           w == WordOf(pos)
           q == NextAfter(p)
           here == {b \in m_l3_map[w] : b >= BitOf(pos)}
<1>0. Word3 \subseteq Nat /\ Index \subseteq Nat /\ Bit \subseteq Nat /\ Bit = 0 .. W - 1 /\ W \in Nat
  BY CapacityNat DEF Word3, Bit, Index, k_l3_map_size, W
<1>00. m_l3_map \in [Word3 -> SUBSET Bit]
  BY DEF L3Inv, TypeOK
<1>1. Loop!Yielded(B) = {i \in B : Fine(i)}
  BY LoopPlaces DEF Loop!Yielded
<1>2. p \in B /\ p \in Index /\ p \in Nat /\ Fine(p) /\ p < k_capacity /\ pos > p /\ pos \in 0 .. k_capacity
  <2>1. p \in B /\ Fine(p)
    <3> HIDE DEF Fine
    <3> QED BY <1>1
  <2>2. p \in Index
    BY <2>1
  <2>3. p \in Nat /\ p < k_capacity
    BY <1>0, <2>2, CapacityNat
  <2> QED BY <2>1, <2>2, <2>3, CapacityNat
<1>3. q = Scan[pos] /\ ScanResult(pos, q)
  <2>1. ~ (p >= k_capacity)
    BY <1>2, CapacityNat
  <2>2. q = Scan[pos]
    BY <2>1 DEF NextAfter
  <2> QED BY <1>2, <2>2, ScanFinds
<1>4. \A u \in Word3 : u \in F <=> \A b \in Bit : u * W + b \in B
  BY LoopPlaces DEF Loop!FullWords, W
<1> HIDE DEF F, q
<1>5. CASE pos = k_capacity
  <2>1. q = k_capacity
    BY <1>3, <1>5 DEF ScanResult
  <2>2. \A i \in Index : ~ (i > p)
    BY <1>0, <1>2, <1>5, CapacityNat
  <2> QED BY <1>1, <2>1, <2>2 DEF q
<1> SUFFICES ASSUME pos # k_capacity
             PROVE  \/ q = k_capacity /\ \A i \in B : Fine(i) => ~ (i > p)
                    \/ q \in B /\ Fine(q) /\ q > p /\ \A i \in B : Fine(i) /\ i > p => q <= i
  BY <1>1, <1>5 DEF q
<1>6. pos \in Index /\ pos \in Nat
  BY <1>2, CapacityNat DEF Index
<1>7. w \in Word3 /\ w \in Nat /\ BitOf(pos) \in Bit /\ pos = w * W + BitOf(pos)
  BY <1>0, <1>6, PlaceOfIndex
<1>8. \A i \in Index : i > p => (i \in B <=> BitOf(i) \in m_l3_map[WordOf(i)])
  BY WordHolds
<1>9. \A i \in Index : i > p <=> \/ w < WordOf(i)
                                 \/ w = WordOf(i) /\ BitOf(i) >= BitOf(pos)
  <2> TAKE i \in Index
  <2>1. i > p <=> ~ (i < pos)
    BY <1>0, <1>2, <1>6
  <2>2. WordOf(i) \in Nat /\ BitOf(i) \in Nat /\ BitOf(pos) \in Nat
    BY <1>0, <1>7, PlaceOfIndex
  <2> QED BY <1>6, <1>7, <2>1, <2>2, IndexOrder
<1> HIDE DEF w
<1>10. CASE here # {}
  <2> DEFINE b == FirstSetBit(here)
  <2>1. b \in Bit /\ b \in m_l3_map[w] /\ b >= BitOf(pos) /\ \A c \in here : b <= c
    <3>1. here \in SUBSET Bit
      BY <1>00, <1>7
    <3> HIDE DEF here
    <3>2. b \in here /\ \A c \in here : b <= c
      BY <1>10, <3>1, FirstSetBitLeast
    <3> QED BY <3>1, <3>2 DEF here
  <2>2. q = w * W + b
    BY <1>3, <1>10 DEF ScanResult, w
  <2> HIDE DEF b
  <2>3. q \in Index /\ WordOf(q) = w /\ BitOf(q) = b
    BY <1>7, <2>1, <2>2, PlaceOfIndex
  <2>4. q > p
    BY <1>9, <2>1, <2>3
  <2>5. q \in B
    BY <1>8, <2>1, <2>3, <2>4
  <2>6. ASSUME NEW i \in B, i > p PROVE q <= i
    <3>1. i \in Index /\ i \in Nat /\ q \in Nat /\ WordOf(i) \in Nat /\ BitOf(i) \in Nat /\ b \in Nat
      BY <1>0, <2>1, <2>3, PlaceOfIndex
    <3>2. w < WordOf(i) \/ (w = WordOf(i) /\ BitOf(i) >= BitOf(pos))
      BY <1>9, <2>6, <3>1
    <3>3. w = WordOf(i) /\ BitOf(i) >= BitOf(pos) => b <= BitOf(i)
      BY <1>8, <2>1, <2>6, <3>1
    <3>4. ~ (i < q)
      BY <1>7, <2>3, <3>1, <3>2, <3>3, IndexOrder
    <3> QED BY <3>1, <3>4
  <2>7. Fine(q)
    <3> SUFFICES ASSUME w \in F PROVE Loop!RunInto(B, w)
      BY <2>3
    <3>1. \/ w = WordOf(p)
          \/ w = WordOf(p) + 1 /\ w * W - 1 = p
      BY <1>2, <1>6, NextPlace DEF w
    <3>2. CASE w = WordOf(p)
      BY <1>2, <3>2
    <3>3. CASE w = WordOf(p) + 1 /\ w * W - 1 = p
      <4>1. WordOf(p) \in Nat
        BY <1>0, <1>2, PlaceOfIndex
      <4>2. CASE WordOf(p) \notin F
        <5>1. w \in 1 .. w /\ w .. w \subseteq F /\ w - 1 \notin F
          BY <3>3, <4>1, <4>2
        <5>2. w * k_bits_per_word - 1 \in B
          BY <1>2, <3>3 DEF W
        <5> QED BY <5>1, <5>2 DEF Loop!RunInto, F
      <4>3. CASE WordOf(p) \in F
        <5>1. PICK v \in 1 .. WordOf(p) : /\ v .. WordOf(p) \subseteq F
                                          /\ v - 1 \notin F
                                          /\ v * k_bits_per_word - 1 \in B
          BY <1>2, <4>3 DEF Loop!RunInto, F
        <5>2. v \in 1 .. w /\ v .. w \subseteq F
          BY <3>3, <4>1, <5>1
        <5> QED BY <5>1, <5>2 DEF Loop!RunInto, F
      <4> QED BY <4>2, <4>3
    <3> QED BY <3>1, <3>2, <3>3
  <2> QED BY <2>4, <2>5, <2>6, <2>7
<1>11. CASE here = {}
  <2>1. w \notin F
    <3>1. pos \notin B
      <4>1. BitOf(pos) \notin m_l3_map[w]
        <5>1. BitOf(pos) >= BitOf(pos)
          BY <1>0, <1>7
        <5> QED BY <1>11, <5>1
      <4> QED BY <1>2, <1>6, <1>8, <4>1 DEF w
    <3> QED BY <1>4, <1>7, <3>1
  <2>2. ASSUME NEW u \in Word3, u > w
        PROVE  /\ u \in F <=> m_l3_map[u] = Bit
               /\ \A b \in Bit : /\ u * W + b \in B <=> b \in m_l3_map[u]
                                 /\ u * W + b > p
    <3>1. ASSUME NEW b \in Bit
          PROVE  /\ u * W + b \in B <=> b \in m_l3_map[u]
                 /\ u * W + b > p
      <4>1. u * W + b \in Index /\ WordOf(u * W + b) = u /\ BitOf(u * W + b) = b
        BY PlaceOfIndex
      <4>2. w < u
        BY <2>2, <1>0, <1>7
      <4>3. u * W + b > p
        BY <1>9, <4>1, <4>2
      <4> QED BY <1>8, <4>1, <4>3
    <3> QED BY <1>4, <1>00, <3>1
  <2>3. ASSUME NEW i \in B, Fine(i), i > p
        PROVE  \E u \in Word3 : u > w /\ Partial(u) /\ u <= WordOf(i)
    <3> DEFINE u0 == WordOf(i)
    <3>1. i \in Index /\ u0 \in Word3 /\ u0 \in Nat /\ BitOf(i) \in Bit /\ BitOf(i) \in m_l3_map[u0]
      BY <1>0, <1>8, <2>3, PlaceOfIndex
    <3>2. u0 > w
      <4>1. ~ (w = u0 /\ BitOf(i) >= BitOf(pos))
        BY <1>11, <3>1
      <4> QED BY <1>7, <1>9, <2>3, <3>1, <4>1
    <3>3. CASE u0 \notin F
      <4>1. Partial(u0)
        BY <2>2, <3>1, <3>2, <3>3 DEF Partial
      <4>2. u0 <= u0
        BY <3>1
      <4> QED BY <3>1, <3>2, <4>1, <4>2
    <3>4. CASE u0 \in F
      <4>1. PICK v \in 1 .. u0 : /\ v .. u0 \subseteq F
                                 /\ v - 1 \notin F
                                 /\ v * k_bits_per_word - 1 \in B
        BY <2>3, <3>4 DEF Loop!RunInto, F
      <4> HIDE DEF u0
      <4>2. v \in Nat /\ v > w
        BY <1>7, <2>1, <3>1, <3>2, <4>1
      <4>3. v - 1 \in Nat /\ v - 1 >= w /\ v - 1 < u0
        BY <1>7, <3>1, <4>1, <4>2
      <4>4. v - 1 \in Word3
        <5>1. u0 \in Nat /\ u0 < k_l3_map_size /\ k_l3_map_size \in Nat
          BY <3>1 DEF Word3, k_l3_map_size
        <5> QED BY <4>3, <5>1 DEF Word3
      <4>5. W - 1 \in Bit /\ (v - 1) * W + (W - 1) = v * k_bits_per_word - 1
        <5>1. W \in Nat /\ W >= 1 /\ W = k_bits_per_word
          BY DEF W
        <5>2. (v - 1) * W = v * W - W /\ v * W \in Nat
          BY <4>2, <5>1
        <5> QED BY <1>0, <5>1, <5>2
      <4>6. (v - 1) * W + (W - 1) \in B
        BY <4>1, <4>5
      <4>7. v - 1 # w
        <5> SUFFICES ASSUME v - 1 = w PROVE FALSE
          OBVIOUS
        <5>1. w * W + (W - 1) \in Index /\ WordOf(w * W + (W - 1)) = w /\ BitOf(w * W + (W - 1)) = W - 1
          BY <1>7, <4>5, PlaceOfIndex
        <5>2. W - 1 >= BitOf(pos)
          BY <1>0, <1>7
        <5>3. w * W + (W - 1) > p
          BY <1>9, <5>1, <5>2
        <5>4. W - 1 \in m_l3_map[w]
          BY <1>8, <4>6, <5>1, <5>3
        <5> QED BY <1>11, <5>2, <5>4
      <4>8. v - 1 > w
        BY <1>7, <4>3, <4>7
      <4>9. Partial(v - 1)
        BY <2>2, <4>1, <4>4, <4>5, <4>6, <4>8 DEF Partial
      <4>10. v - 1 <= u0
        BY <3>1, <4>3
      <4> QED BY <4>4, <4>8, <4>9, <4>10 DEF u0
    <3> QED BY <3>3, <3>4
  <2>4. \/ /\ q = k_capacity
           /\ \A u \in Word3 : u > w => ~ Partial(u)
        \/ \E u \in Word3 :
              /\ u > w /\ Partial(u)
              /\ \A v \in Word3 : v > w /\ v < u => ~ Partial(v)
              /\ q = u * W + FirstSetBit(m_l3_map[u])
    BY <1>3, <1>11 DEF ScanResult, w
  <2>5. CASE q = k_capacity /\ \A u \in Word3 : u > w => ~ Partial(u)
    BY <2>3, <2>5
  <2>6. ASSUME NEW u \in Word3, u > w, Partial(u),
               \A v \in Word3 : v > w /\ v < u => ~ Partial(v),
               q = u * W + FirstSetBit(m_l3_map[u])
        PROVE  q \in B /\ Fine(q) /\ q > p /\ \A i \in B : Fine(i) /\ i > p => q <= i
    <3> DEFINE b == FirstSetBit(m_l3_map[u])
    <3>1. b \in m_l3_map[u] /\ b \in Bit /\ \A c \in m_l3_map[u] : b <= c
      BY <1>00, <2>6, FirstSetBitLeast DEF Partial
    <3> HIDE DEF b
    <3>2. q \in Index /\ WordOf(q) = u /\ BitOf(q) = b
      BY <2>6, <3>1, PlaceOfIndex DEF b
    <3>3. q \in B /\ q > p
      BY <2>2, <2>6, <3>1 DEF b
    <3>4. Fine(q)
      BY <2>2, <2>6, <3>2 DEF Partial
    <3>5. ASSUME NEW i \in B, Fine(i), i > p PROVE q <= i
      <4>1. PICK v \in Word3 : v > w /\ Partial(v) /\ v <= WordOf(i)
        BY <2>3, <3>5
      <4>2. /\ i \in Index /\ i \in Nat /\ q \in Nat /\ u \in Nat /\ v \in Nat
            /\ WordOf(i) \in Nat /\ BitOf(i) \in Nat /\ b \in Nat
        BY <1>0, <3>1, <3>2, PlaceOfIndex
      <4>3. u <= WordOf(i)
        BY <2>6, <4>1, <4>2
      <4>4. WordOf(i) = u => b <= BitOf(i)
        BY <1>8, <3>1, <3>5, <4>2
      <4>5. ~ (i < q)
        BY <3>2, <4>2, <4>3, <4>4, IndexOrder
      <4> QED BY <4>2, <4>5
    <3> QED BY <3>3, <3>4, <3>5
  <2> QED BY <2>4, <2>5, <2>6
<1> QED BY <1>10, <1>11

\* What the loop yields is allocated.
LEMMA YieldedWithin == \A B : Loop!Yielded(B) \subseteq B
  BY DEF Loop!Yielded

\* `begin()' is the first index the loop yields, or the end when it yields none.
LEMMA FirstYielded ==
    ASSUME L3Inv
    PROVE  \/ FindFirst = k_capacity /\ Loop!Yielded(Allocated) = {}
           \/ /\ FindFirst \in Loop!Yielded(Allocated)
              /\ \A i \in Loop!Yielded(Allocated) : FindFirst <= i
<1> USE L3Assumption
<1> DEFINE F == Loop!FullWords(Allocated)
           Fine(i) == WordOf(i) \in F => Loop!RunInto(Allocated, WordOf(i))
           f == FreeWord3
<1>0. Word3 \subseteq Nat /\ Index \subseteq Nat /\ Bit \subseteq Nat /\ m_l3_map \in [Word3 -> SUBSET Bit]
  BY CapacityNat DEF Word3, Bit, Index, k_l3_map_size, L3Inv, TypeOK
<1>1. CASE m_size = 0
  <2>1. Allocated = {}
    BY <1>1, AllocatedFinite, FS_EmptySet DEF L3Inv, SizeExact
  <2>2. FindFirst = k_capacity
    BY <1>1 DEF FindFirst
  <2> QED BY <2>1, <2>2, YieldedWithin
<1>2. CASE ~ FindsFreeBit
  <2>1. Allocated = Index
    BY <1>2, EarlyReturnMeansFull
  <2>2. F = Word3
    BY <2>1, LoopPlaces, PlaceOfIndex DEF Loop!FullWords, W
  <2>3. Loop!Yielded(Allocated) = {}
    BY <2>2, LoopPlaces DEF Loop!Yielded
  <2>4. m_l1_map = Bit \/ m_l2_map[FreeWord2] = Bit
    <3> SUFFICES ASSUME m_l1_map # Bit, m_l2_map[FreeWord2] # Bit PROVE FALSE
      OBVIOUS
    <3>1. FreeWord2 \in Bit \ m_l1_map
      BY FirstZeroBitLeast DEF FreeWord2, L3Inv, TypeOK
    <3>2. FreeWord2 \in Word2
      BY <3>1 DEF Word2, Bit, k_l2_map_size
    <3>3. m_l1_map = {v \in Word2 : m_l2_map[v] = Bit}
      BY DEF L3Inv, SummaryExact, TypeOK, Word2, Bit, k_l2_map_size
    <3>4. FirstZeroBit(m_l2_map[FreeWord2]) \in Bit \ m_l2_map[FreeWord2]
      BY <3>2, FirstZeroBitLeast DEF L3Inv, TypeOK
    <3>5. /\ f \in Word3 /\ WordOf(f) = FreeWord2
          /\ BitOf(f) = FirstZeroBit(m_l2_map[FreeWord2])
      BY <3>2, <3>4, PlaceOfWord DEF FreeWord3, W
    <3>6. m_l3_map[f] # Bit
      BY <3>4, <3>5 DEF L3Inv, SummaryExact
    <3> QED BY <1>2, <3>6 DEF FindsFreeBit
  <2>5. FindFirst = k_capacity
    BY <2>4 DEF FindFirst
  <2> QED BY <2>3, <2>5
<1> SUFFICES ASSUME m_size # 0, FindsFreeBit
             PROVE  \/ FindFirst = k_capacity /\ Loop!Yielded(Allocated) = {}
                    \/ /\ FindFirst \in Loop!Yielded(Allocated)
                       /\ \A i \in Loop!Yielded(Allocated) : FindFirst <= i
  BY <1>1, <1>2
<1>3. /\ f \in Word3 /\ f \in Nat
      /\ FreeBit \in Bit /\ FreeBit \notin m_l3_map[f]
      /\ f * W + FreeBit \in Index \ Allocated
      /\ \A j \in Index \ Allocated : f * W + FreeBit <= j
  BY <1>0, Descent
<1>4. \A u \in Word3 : u \in F <=> \A b \in Bit : u * W + b \in Allocated
  BY LoopPlaces DEF Loop!FullWords, W
<1>5. F \subseteq Word3 /\ f \notin F
  BY <1>3, <1>4, LoopPlaces DEF Loop!FullWords
<1>6. ASSUME NEW v \in Word3, v \notin F PROVE f <= v
  <2>1. PICK b \in Bit : v * W + b \notin Allocated
    BY <1>4, <1>6
  <2>2. v * W + b \in Index /\ WordOf(v * W + b) = v /\ f * W + FreeBit <= v * W + b
    BY <1>3, <2>1, PlaceOfIndex
  <2>3. WordOf(f * W + FreeBit) = f /\ f * W + FreeBit \in Index
    BY <1>3, PlaceOfIndex
  <2>4. ~ (v * W + b < f * W + FreeBit)
    <3> DEFINE x == v * W + b
               y == f * W + FreeBit
    <3>1. x \in Nat /\ y \in Nat /\ y <= x
      BY <1>0, <2>2, <2>3
    <3> HIDE DEF x, y
    <3>2. ~ (x < y)
      BY <3>1
    <3> QED BY <3>2 DEF x, y
  <2>5. ~ (v < f)
    BY <2>2, <2>3, <2>4, IndexOrder
  <2> QED BY <1>0, <1>3, <2>5
<1>7. Loop!FirstOpen(Allocated) = f
  <2>1. \A v \in Word3 \ F : f <= v
    BY <1>6
  <2>2. ASSUME NEW g \in Word3 \ F, \A v \in Word3 \ F : g <= v PROVE g = f
    <3>1. g <= f /\ f <= g /\ g \in Nat
      BY <1>0, <1>3, <1>5, <2>1, <2>2
    <3> QED BY <1>3, <3>1
  <2>3. f \in Word3 \ F
    BY <1>3, <1>5
  <2> HIDE DEF f
  <2>4. Loop!FirstOpen(Allocated) = CHOOSE g \in Word3 \ F : \A v \in Word3 \ F : g <= v
    BY LoopPlaces DEF Loop!FirstOpen
  <2> HIDE DEF F
  <2> QED BY <2>1, <2>2, <2>3, <2>4
<1>8. F # Word3
  BY <1>3, <1>5
<1> HIDE DEF f
<1>9. Loop!InWord(Allocated, f) = {i \in Allocated : WordOf(i) = f}
  BY LoopPlaces DEF Loop!InWord
<1>10. Allocated \subseteq Index
  BY DEF Allocated
<1>11. CASE m_l3_map[f] = {}
  <2>1. FindFirst = k_capacity
    BY <1>11 DEF FindFirst, f
  <2>2. Loop!InWord(Allocated, f) = {}
    BY <1>9, <1>10, <1>11, WordHolds
  <2>3. Loop!Yielded(Allocated) = {}
    BY <1>7, <2>2 DEF Loop!Yielded
  <2> QED BY <2>1, <2>3
<1>12. CASE m_l3_map[f] # {}
  <2> DEFINE b == FirstSetBit(m_l3_map[f])
             q == FindFirst
  <2>1. b \in m_l3_map[f] /\ b \in Bit /\ \A c \in m_l3_map[f] : b <= c
    BY <1>0, <1>3, <1>12, FirstSetBitLeast
  <2>2. q = f * W + b
    BY <1>12 DEF FindFirst, FindsFreeBit, f, W
  <2> HIDE DEF b, q
  <2>3. q \in Allocated /\ WordOf(q) = f /\ BitOf(q) = b
    BY <1>3, <2>1, <2>2, PlaceOfIndex, WordHolds
  <2>4. Loop!Yielded(Allocated) = {i \in Allocated : Fine(i)}
    <3>1. Loop!InWord(Allocated, f) # {}
      BY <1>9, <2>3
    <3> QED BY <1>7, <1>8, <3>1, LoopPlaces DEF Loop!Yielded
  <2>5. Fine(q)
    BY <1>5, <2>3
  <2>6. ASSUME NEW i \in Allocated, Fine(i) PROVE q <= i
    <3>1. /\ i \in Index /\ i \in Nat /\ q \in Nat /\ q \in Index
          /\ WordOf(i) \in Word3 /\ WordOf(i) \in Nat /\ BitOf(i) \in Nat /\ b \in Nat
      BY <1>0, <1>10, <2>1, <2>3, PlaceOfIndex
    <3>2. f <= WordOf(i)
      <4>1. CASE WordOf(i) \notin F
        BY <1>6, <3>1, <4>1
      <4>2. CASE WordOf(i) \in F
        <5>1. PICK v \in 1 .. WordOf(i) : v .. WordOf(i) \subseteq F /\ v - 1 \notin F
          BY <2>6, <4>2 DEF Loop!RunInto
        <5>2. v - 1 \in Nat /\ v - 1 < WordOf(i)
          BY <3>1, <5>1
        <5>3. v - 1 \in Word3
          <6>1. WordOf(i) < k_l3_map_size /\ k_l3_map_size \in Nat
            BY <3>1 DEF Word3, k_l3_map_size
          <6> QED BY <3>1, <5>2, <6>1 DEF Word3
        <5>4. f <= v - 1
          BY <1>6, <5>1, <5>3
        <5> QED BY <1>3, <3>1, <5>2, <5>4
      <4> QED BY <4>1, <4>2
    <3>3. WordOf(i) = f => b <= BitOf(i)
      BY <2>1, <3>1, WordHolds
    <3>4. ~ (i < q)
      BY <1>3, <2>3, <3>1, <3>2, <3>3, IndexOrder
    <3> QED BY <3>1, <3>4
  <2>7. q \in Loop!Yielded(Allocated) /\ \A i \in Loop!Yielded(Allocated) : q <= i
    <3> HIDE DEF Fine
    <3> QED BY <2>3, <2>4, <2>5, <2>6
  <2> QED BY <2>7 DEF q
<1> QED BY <1>11, <1>12

\* The loop has been given what it yields up to its position, and its body has deallocated
\* nothing ahead of it.
ItInv ==
    /\ cursor \in 0 .. NoLoop /\ before \in SUBSET Index
    /\ cursor = NoLoop => visited = {}
    /\ cursor # NoLoop =>
          /\ Allocated \subseteq before
          /\ \A i \in before : i > cursor => i \in Allocated
          /\ cursor \in Loop!Yielded(before) \cup {k_capacity}
          /\ visited = {i \in Loop!Yielded(before) : i < cursor}

\* The inductive invariant of the pool: the clients hold the slots of the allocated indices.
FpInv == L3Inv /\ ItInv /\ blocks = {SlotPtr(i) : i \in Allocated}

\* A loop begins before all it yields.
LEMMA ItBegin ==
    ASSUME L3Inv, ItInv, Begin
    PROVE  L3Inv' /\ ItInv' /\ Allocated' = Allocated
<1>0. /\ cursor' = FindFirst /\ before' = Allocated /\ visited' = {}
      /\ UNCHANGED vars
  BY DEF Begin, ItInv
<1>1. L3Inv' /\ Allocated' = Allocated
  BY <1>0, L3Unchanged DEF vars, L3Inv, TypeOK
<1>2. Allocated \subseteq Index /\ Index \subseteq Nat /\ k_capacity \in Nat
  BY CapacityNat DEF Allocated, Index
<1>3. NoLoop' = NoLoop /\ Loop!Yielded(Allocated)' = Loop!Yielded(Allocated')
  OBVIOUS
<1>4. /\ FindFirst \in Loop!Yielded(Allocated) \cup {k_capacity}
      /\ \A i \in Loop!Yielded(Allocated) : ~ (i < FindFirst)
  <2>1. Loop!Yielded(Allocated) \subseteq Nat
    BY <1>2, YieldedWithin
  <2>2. CASE FindFirst = k_capacity /\ Loop!Yielded(Allocated) = {}
    BY <2>2
  <2>3. CASE /\ FindFirst \in Loop!Yielded(Allocated)
             /\ \A i \in Loop!Yielded(Allocated) : FindFirst <= i
    <3>1. \A i \in Loop!Yielded(Allocated) : i \in Nat /\ FindFirst \in Nat
      BY <2>1, <2>3
    <3>2. \A i \in Loop!Yielded(Allocated) : ~ (i < FindFirst)
      BY <2>3, <3>1
    <3> QED BY <2>3, <3>2
  <2> QED BY <2>2, <2>3, FirstYielded
<1>5. FindFirst \in 0 .. NoLoop /\ FindFirst # NoLoop
  <2>1. FindFirst \in Index \cup {k_capacity}
    BY <1>2, <1>4, YieldedWithin
  <2> QED BY <2>1, <1>2, CapacityNat DEF NoLoop, Index
<1>6. {i \in Loop!Yielded(Allocated) : i < FindFirst} = {}
  BY <1>4
<1> QED BY <1>0, <1>1, <1>2, <1>4, <1>5, <1>6 DEF ItInv

\* A step of the loop.
LEMMA ItAdvance ==
    ASSUME L3Inv, ItInv, Advance
    PROVE  L3Inv' /\ ItInv' /\ Allocated' = Allocated
<1> DEFINE Y == Loop!Yielded(before)
<1>0. /\ cursor \in Index /\ cursor' = NextAfter(cursor) /\ visited' = visited \cup {cursor}
      /\ before' = before /\ UNCHANGED vars
  BY DEF Advance
<1>1. L3Inv' /\ Allocated' = Allocated
  BY <1>0, L3Unchanged DEF vars, L3Inv, TypeOK
<1>2. Index \subseteq Nat /\ k_capacity \in Nat /\ Y \subseteq Index
  <2>1. Y \subseteq before /\ before \subseteq Index
    BY YieldedWithin DEF ItInv
  <2>2. Index \subseteq Nat /\ k_capacity \in Nat
    BY CapacityNat DEF Index
  <2> HIDE DEF Y
  <2> QED BY <2>1, <2>2
<1>3. /\ cursor # NoLoop /\ cursor # k_capacity
      /\ cursor \in Y /\ Allocated \subseteq before
      /\ \A i \in before : i > cursor => i \in Allocated
      /\ visited = {i \in Y : i < cursor}
  BY <1>0, <1>2, CapacityNat DEF ItInv, NoLoop
<1>4. \/ /\ cursor' = k_capacity
         /\ \A i \in Y : ~ (i > cursor)
      \/ /\ cursor' \in Y
         /\ cursor' > cursor
         /\ \A i \in Y : i > cursor => cursor' <= i
  <2>1. before \in SUBSET Index
    BY DEF ItInv
  <2>2. cursor \in Loop!Yielded(before)
    BY <1>3
  <2> QED BY <1>0, <1>3, <2>1, <2>2, NextYielded
<1> HIDE DEF Y
<1>5. cursor' \in Nat /\ cursor' > cursor /\ cursor' # NoLoop /\ cursor' \in 0 .. NoLoop
  <2>1. cursor' \in Index \cup {k_capacity}
    BY <1>2, <1>4
  <2>2. cursor \in Nat /\ cursor < k_capacity
    BY <1>0, <1>2, CapacityNat
  <2> QED BY <2>1, <2>2, <1>2, <1>4, CapacityNat DEF NoLoop, Index
<1>6. visited' = {i \in Y : i < cursor'}
  <2>1. ASSUME NEW i \in Y PROVE i < cursor' <=> i < cursor \/ i = cursor
    <3>1. i \in Nat /\ cursor \in Nat /\ i < k_capacity
      BY <1>0, <1>2, CapacityNat
    <3>2. i > cursor => ~ (i < cursor')
      BY <1>4, <1>5, <3>1
    <3> QED BY <1>5, <3>1, <3>2
  <2> QED BY <1>0, <1>3, <2>1
<1>7. \A i \in before : i > cursor' => i > cursor
  <2>1. before \subseteq Nat /\ cursor \in Nat
    BY <1>0, <1>2 DEF ItInv
  <2> QED BY <1>5, <2>1
<1> QED BY <1>0, <1>1, <1>3, <1>4, <1>5, <1>6, <1>7 DEF ItInv, Y

\* The body deallocates the index the loop is at: nothing ahead of the loop changes.
LEMMA ItErase ==
    ASSUME L3Inv, ItInv, EraseCurrent
    PROVE  L3Inv' /\ ItInv' /\ Allocated' = Allocated \ {cursor}
<1>0. cursor \in Index /\ Deallocate(cursor) /\ UNCHANGED iterVars
  BY DEF EraseCurrent
<1>1. L3Inv' /\ Allocated' = Allocated \ {cursor}
  BY <1>0, L3Deallocate DEF Argument
<1>2. cursor # NoLoop /\ cursor \in Nat /\ before \subseteq Nat
  BY <1>0, CapacityNat DEF NoLoop, Index, ItInv
<1>3. \A i \in before : i > cursor => i # cursor
  BY <1>2
<1> QED BY <1>0, <1>1, <1>2, <1>3 DEF ItInv, iterVars

\* The end of a loop.
LEMMA ItEnd ==
    ASSUME L3Inv, ItInv, End
    PROVE  L3Inv' /\ ItInv' /\ Allocated' = Allocated
<1>0. cursor' = NoLoop /\ visited' = {} /\ before' = {} /\ UNCHANGED vars
  BY DEF End
<1>1. L3Inv' /\ Allocated' = Allocated
  BY <1>0, L3Unchanged DEF vars, L3Inv, TypeOK
<1> QED BY <1>0, <1>1, CapacityNat DEF ItInv, NoLoop

\* Nothing that modifies the allocator otherwise happens while a loop runs.
LEMMA ItIdle ==
    ASSUME ItInv, cursor = NoLoop, UNCHANGED iterVars
    PROVE  ItInv'
  BY DEF ItInv, iterVars

\* The address of a slot and its index determine each other.
LEMMA SlotOfIndex ==
    /\ \A i \in Nat : SlotPtr(i) \in Nat /\ IndexOf(SlotPtr(i)) = i /\ SlotPtr(i) % SlotSize = 0
    /\ \A p \in Nat : p % SlotSize = 0 => IndexOf(p) \in Nat /\ SlotPtr(IndexOf(p)) = p
<1> USE FixedPoolAssumption
<1>1. ASSUME NEW i \in Nat
      PROVE  SlotPtr(i) \in Nat /\ IndexOf(SlotPtr(i)) = i /\ SlotPtr(i) % SlotSize = 0
  <2>1. 0 \in 0 .. SlotSize - 1
    OBVIOUS
  <2>2. /\ i * SlotSize + 0 \in Nat
        /\ (i * SlotSize + 0) \div SlotSize = i
        /\ (i * SlotSize + 0) % SlotSize = 0
    BY <2>1, DivMod
  <2>3. i * SlotSize + 0 = i * SlotSize
    OBVIOUS
  <2> QED BY <2>2, <2>3 DEF SlotPtr, IndexOf
<1>2. ASSUME NEW p \in Nat, p % SlotSize = 0
      PROVE  IndexOf(p) \in Nat /\ SlotPtr(IndexOf(p)) = p
  <2>1. p \div SlotSize \in Nat /\ p = (p \div SlotSize) * SlotSize + (p % SlotSize)
    BY DivModOf
  <2>2. (p \div SlotSize) * SlotSize \in Nat
    BY <2>1
  <2> QED BY <1>2, <2>1, <2>2 DEF SlotPtr, IndexOf
<1> QED BY <1>1, <1>2

\* Any address behind the start of the array lies in some slot.
LEMMA SlotAround == \A p \in Nat : IndexOf(p) \in Nat
  BY FixedPoolAssumption, DivModOf DEF IndexOf

\* A new pool.
LEMMA FpInitInv == FpInit => FpInv /\ Allocated = {}
<1> SUFFICES ASSUME FpInit PROVE FpInv /\ Allocated = {}
  OBVIOUS
<1>1. L3Inv /\ Allocated = {}
  BY L3Init DEF FpInit, ItInit
<1>2. ItInv
  BY CapacityNat DEF FpInit, ItInit, ItInv, NoLoop
<1> QED BY <1>1, <1>2 DEF FpInit, FpInv

\* Each step of a client keeps the invariant, and is a step of the bitmap.
LEMMA FpStep == FpInv /\ [FpNext]_fpVars => FpInv' /\ [Next]_vars
<1> SUFFICES ASSUME FpInv, [FpNext]_fpVars PROVE FpInv' /\ [Next]_vars
  OBVIOUS
<1>0. L3Inv /\ ItInv /\ Index \subseteq Nat /\ Index \subseteq Argument /\ Allocated \subseteq Index
  BY CapacityNat DEF FpInv, Index, Argument, Allocated
<1>1. CASE FpAllocate
  <2>1. Allocate /\ UNCHANGED iterVars /\ cursor = NoLoop /\ blocks' = blocks \cup {SlotPtr(ret')}
    BY <1>1 DEF FpAllocate
  <2>2. L3Inv' /\ Allocated' = Allocated \cup {ret'}
    BY <1>0, <2>1, L3Allocate
  <2>3. blocks' = {SlotPtr(i) : i \in Allocated'}
    BY <2>1, <2>2 DEF FpInv
  <2> QED BY <1>0, <2>1, <2>2, <2>3, ItIdle DEF FpInv, Next
<1>2. CASE FpAllocateFull
  <2>1. AllocateFull /\ UNCHANGED <<iterVars, blocks>> /\ cursor = NoLoop
    BY <1>2 DEF FpAllocateFull
  <2>2. L3Inv' /\ Allocated' = Allocated
    BY <1>0, <2>1, L3Unchanged DEF AllocateFull
  <2> QED BY <1>0, <2>1, <2>2, ItIdle DEF FpInv, Next
<1>3. CASE \E p \in Freed : FpDeallocate(p)
  <2>1. PICK p \in Freed : FpDeallocate(p)
    BY <1>3
  <2>2. PICK i \in Nat : i = IndexOf(p)
    BY SlotAround DEF Freed, AnyAddress
  <2>3. Deallocate(i) /\ UNCHANGED iterVars /\ cursor = NoLoop /\ blocks' = blocks \ {SlotPtr(i)}
    BY <2>1, <2>2 DEF FpDeallocate
  <2>4. i \in Index
    BY <2>2, <2>3, CapacityNat DEF Deallocate, Contains, Index
  <2>5. L3Inv' /\ Allocated' = Allocated \ {i}
    BY <1>0, <2>3, <2>4, L3Deallocate
  <2>6. \A j \in Allocated : SlotPtr(j) = SlotPtr(i) => j = i
    BY <1>0, <2>4, SlotOfIndex
  <2>7. blocks' = {SlotPtr(j) : j \in Allocated'}
    BY <2>3, <2>5, <2>6 DEF FpInv
  <2> QED BY <1>0, <2>3, <2>4, <2>5, <2>7, ItIdle DEF FpInv, Next
<1>4. CASE \E p \in Freed : FpDeallocateRefused(p)
  <2>1. PICK p \in Freed : FpDeallocateRefused(p)
    BY <1>4
  <2>2. UNCHANGED <<vars, iterVars, blocks>> /\ cursor = NoLoop
    BY <2>1 DEF FpDeallocateRefused, DeallocateRefused
  <2>3. L3Inv' /\ Allocated' = Allocated
    BY <1>0, <2>2, L3Unchanged DEF vars, L3Inv, TypeOK
  <2> QED BY <1>0, <2>2, <2>3, ItIdle DEF FpInv
<1>5. CASE FpReset
  <2>1. Reset /\ UNCHANGED iterVars /\ cursor = NoLoop /\ blocks' = {}
    BY <1>5 DEF FpReset
  <2>2. L3Inv' /\ Allocated' = {}
    BY <1>0, <2>1, L3Reset
  <2> QED BY <1>0, <2>1, <2>2, ItIdle DEF FpInv, Next
<1>6. CASE Begin /\ UNCHANGED blocks
  <2>1. UNCHANGED vars
    BY <1>6 DEF Begin
  <2> QED BY <1>0, <1>6, <2>1, ItBegin DEF FpInv
<1>7. CASE EraseCurrent /\ blocks' = blocks \ {SlotPtr(cursor)}
  <2>1. L3Inv' /\ ItInv' /\ Allocated' = Allocated \ {cursor} /\ cursor \in Index /\ Deallocate(cursor)
    BY <1>0, <1>7, ItErase DEF EraseCurrent
  <2>2. \A j \in Allocated : SlotPtr(j) = SlotPtr(cursor) => j = cursor
    BY <1>0, <2>1, SlotOfIndex
  <2>3. blocks' = {SlotPtr(j) : j \in Allocated'}
    BY <1>7, <2>1, <2>2 DEF FpInv
  <2> QED BY <1>0, <2>1, <2>3 DEF FpInv, Next
<1>8. CASE Advance /\ UNCHANGED blocks
  <2>1. UNCHANGED vars
    BY <1>8 DEF Advance
  <2> QED BY <1>0, <1>8, <2>1, ItAdvance DEF FpInv
<1>9. CASE End /\ UNCHANGED blocks
  <2>1. UNCHANGED vars
    BY <1>9 DEF End
  <2> QED BY <1>0, <1>9, <2>1, ItEnd DEF FpInv
<1>10. CASE UNCHANGED fpVars
  <2>1. UNCHANGED vars /\ UNCHANGED iterVars /\ UNCHANGED blocks
    BY <1>10 DEF fpVars
  <2>2. L3Inv' /\ Allocated' = Allocated
    BY <1>0, <2>1, L3Unchanged DEF vars, L3Inv, TypeOK
  <2>3. ItInv'
    BY <1>0, <2>1, <2>2 DEF ItInv, iterVars
  <2> QED BY <2>1, <2>2, <2>3 DEF FpInv
<1> QED BY <1>1, <1>2, <1>3, <1>4, <1>5, <1>6, <1>7, <1>8, <1>9, <1>10 DEF FpNext

\* The invariant holds in every state of a pool.
THEOREM FpInvariant == FpSpec => []FpInv
<1>1. FpInit => FpInv
  BY FpInitInv
<1>2. FpInv /\ [FpNext]_fpVars => FpInv'
  BY FpStep
<1> QED BY <1>1, <1>2, PTL DEF FpSpec

\* A loop over the pool that has run to the end was given exactly what IterationYield says
\* of the indices allocated when it began, whatever its body deallocated: the iterators are
\* right outside full words, for words of any width.
THEOREM LoopYieldsExactly == FpSpec => []LoopYields
<1>1. FpInv => LoopYields
  <2> SUFFICES ASSUME FpInv, cursor = k_capacity PROVE visited = Loop!Yielded(before)
    BY DEF LoopYields
  <2>1. cursor # NoLoop
    BY CapacityNat DEF NoLoop
  <2>2. visited = {i \in Loop!Yielded(before) : i < cursor}
    BY <2>1 DEF FpInv, ItInv
  <2>3. \A i \in Loop!Yielded(before) : i < cursor
    BY CapacityNat, YieldedWithin DEF FpInv, ItInv
  <2> QED BY <2>2, <2>3
<1> QED BY <1>1, FpInvariant, PTL

\* Of all addresses, contains accepts those of the live blocks that lie in the array.
LEMMA ContainsBlock ==
    ASSUME FpInv, NEW p \in Int
    PROVE  PoolContains(p) <=> p \in blocks /\ p < PoolCapacity * SlotSize
<1>0. blocks = {SlotPtr(i) : i \in Allocated}
  BY DEF FpInv
<1>1. ASSUME PoolContains(p) PROVE p \in blocks /\ p < PoolCapacity * SlotSize
  <2>1. p \in Nat /\ p % SlotSize = 0 /\ p < PoolCapacity * SlotSize
    BY <1>1 DEF PoolContains, InRange
  <2>2. IndexOf(p) \in Nat /\ SlotPtr(IndexOf(p)) = p
    BY <2>1, SlotOfIndex
  <2>3. IndexOf(p) \in Allocated
    BY <1>1, <2>2, CapacityNat DEF PoolContains, Contains, Allocated, Index
  <2> QED BY <1>0, <2>1, <2>2, <2>3
<1>2. ASSUME p \in blocks, p < PoolCapacity * SlotSize PROVE PoolContains(p)
  <2>1. PICK i \in Allocated : p = SlotPtr(i)
    BY <1>0, <1>2
  <2>2. i \in Nat /\ Contains(i)
    BY CapacityNat DEF Allocated, Index
  <2>3. p \in Nat /\ IndexOf(p) = i /\ p % SlotSize = 0
    BY <2>1, <2>2, SlotOfIndex
  <2> QED BY <1>2, <2>2, <2>3 DEF PoolContains, InRange
<1> QED BY <1>1, <1>2

\* contains answers for exactly the live blocks in the array, for a pool of any size over an
\* allocator of any size, whatever addresses it was told to free.
THEOREM ContainsBlocksInStorage == FpSpec => []ContainsLiveBlocks
<1>1. FpInv => ContainsLiveBlocks
  <2> SUFFICES ASSUME FpInv PROVE ContainsLiveBlocks
    OBVIOUS
  <2> USE FixedPoolAssumption
  <2>0. AnyAddress \subseteq Int
    BY CapacityNat DEF AnyAddress
  <2>1. ASSUME NEW p \in blocks PROVE p \in AnyAddress
    <3>1. PICK i \in Allocated : p = SlotPtr(i)
      BY DEF FpInv
    <3>2. i \in Nat /\ i < k_capacity /\ k_capacity \in Nat /\ p \in Nat
      BY <3>1, CapacityNat, SlotOfIndex DEF Allocated, Index
    <3>3. 0 \in 0 .. SlotSize - 1
      OBVIOUS
    <3>4. i * SlotSize + 0 < k_capacity * SlotSize
      BY <3>2, <3>3, MulBound
    <3>5. i * SlotSize \in Nat /\ k_capacity * SlotSize \in Nat /\ p = i * SlotSize
      BY <3>1, <3>2 DEF SlotPtr
    <3>6. (k_capacity + 1) * SlotSize = k_capacity * SlotSize + SlotSize
      BY <3>2
    <3> QED BY <3>2, <3>4, <3>5, <3>6 DEF AnyAddress
  <2> QED BY <2>0, <2>1, ContainsBlock DEF ContainsLiveBlocks
<1> QED BY <1>1, FpInvariant, PTL

\* The bitmap of a pool keeps its types, its exact upper levels and its exact size while
\* loops run over it and deallocate what they are given.
THEOREM FpKeepsBitmap == FpSpec => [](TypeOK /\ SummaryExact /\ SizeExact)
<1>1. FpInv => TypeOK /\ SummaryExact /\ SizeExact
  BY DEF FpInv, L3Inv
<1> QED BY <1>1, FpInvariant, PTL

\* With loops running over it the bitmap remains the set of indices it was.
THEOREM FpImplementsIndexSet == FpSpec => IsIndexSet
<1>1. FpInit => Indices!Init
  BY FpInitInv DEF FpInit, ItInit, Init, Indices!Init
<1>2. FpInv /\ [FpNext]_fpVars => [Indices!Next]_(Indices!vars)
  BY FpStep, L3Step DEF FpInv
<1> QED BY <1>1, <1>2, FpInvariant, PTL DEF FpSpec, IsIndexSet, Indices!Spec
=============================================================================
