-------------------------- MODULE ObjectPoolProofs --------------------------
(***************************************************************************)
(* For any number of indices and of generations: a live handle is always   *)
(* accepted, and a stale copy is refused until the generation of its index *)
(* has come round.  For pools of any capacity and words of any width: a live *)
(* handle finds the object constructed for it, only constructed objects are *)
(* destroyed, and a pool that never held a word's worth of objects destroys *)
(* them all.                                                               *)
(***************************************************************************)
EXTENDS ObjectPool, ArithmeticLemmas, FiniteSetTheorems

\* How far the generation of an index has moved since token t was issued, as long as it
\* has not come round: it is the generation of t plus the releases since, wrapped once.
Distance(t) ==
    /\ t.age <= releases[t.handle.index]
    /\ t.handle.index \notin allocated => t.age < releases[t.handle.index]
    /\ releases[t.handle.index] < t.age + Generations =>
         \/ m_gen[t.handle.index] = t.handle.generation + (releases[t.handle.index] - t.age)
         \/ m_gen[t.handle.index] = t.handle.generation + (releases[t.handle.index] - t.age) - Generations

\* The inductive invariant.
HandleInv == /\ TypeOK
             /\ \A t \in issued : /\ t.era <= resets
                                  /\ t.era = resets => Distance(t)

\* Incrementing a generation modulo their number.
LEMMA NextGeneration ==
    ASSUME NEW G \in Nat \ {0}, NEW g \in 0 .. G - 1
    PROVE  (g + 1) % G = IF g + 1 = G THEN 0 ELSE g + 1
  OBVIOUS

\* A new allocator has issued nothing.
LEMMA HandleInit == Init => HandleInv
  BY HandleAssumption DEF Init, m_index_alloc!Init, HandleInv, TypeOK, Index, Generation

\* A new token starts at distance 0; an old one of the same index is a release behind.
LEMMA HandleAllocate == HandleInv /\ Allocate => HandleInv'
<1> SUFFICES ASSUME HandleInv, Allocate PROVE HandleInv'
  OBVIOUS
<1> USE HandleAssumption
<1>1. PICK i \in Index :
         /\ m_index_alloc!Allocate(i)
         /\ issued' = issued \cup {[handle |-> HandleFor(i), age |-> releases[i], era |-> resets]}
         /\ UNCHANGED <<m_gen, releases, resets>>
  BY DEF Allocate
<1> DEFINE new == [handle |-> HandleFor(i), age |-> releases[i], era |-> resets]
<1>2. /\ i \notin allocated
      /\ allocated' = allocated \cup {i}
      /\ ret' = i
  BY <1>1 DEF m_index_alloc!Allocate, m_index_alloc!Free, m_index_alloc!Index, Index
<1>3. new \in Token
  BY DEF HandleInv, TypeOK, HandleFor, Token, Handle, Index, Generation
<1>4. TypeOK'
  BY <1>1, <1>2, <1>3 DEF HandleInv, TypeOK, Index
<1>5. ASSUME NEW t \in issued' PROVE t.era <= resets' /\ (t.era = resets' => Distance(t)')
  <2>1. CASE t = new
    BY <1>1, <1>2, <2>1 DEF Distance, HandleInv, TypeOK, HandleFor, Index, Generation
  <2>2. CASE t \in issued
    BY <1>1, <1>2, <1>5, <2>2 DEF Distance, HandleInv, TypeOK, Token, Handle
  <2> QED BY <1>1, <2>1, <2>2
<1> QED BY <1>4, <1>5 DEF HandleInv

\* deallocate moves the tokens of its index one further, and wraps with the generation.
LEMMA HandleDeallocate ==
    ASSUME HandleInv, NEW h \in Held, Deallocate(h)
    PROVE  HandleInv'
<1> USE HandleAssumption
<1> DEFINE i == h.index
<1>1. /\ i \in allocated
      /\ i \in Index
      /\ allocated' = allocated \ {i}
      /\ ret' = ret
  BY DEF Deallocate, Contains, m_index_alloc!Deallocate, HandleInv, TypeOK
<1>2. /\ m_gen' = [m_gen EXCEPT ![i] = (@ + 1) % Generations]
      /\ releases' = [releases EXCEPT ![i] = @ + 1]
      /\ releases[i] < MaxReleases
      /\ resets' = resets
      /\ issued' = issued
  BY DEF Deallocate
<1>3. /\ m_gen[i] \in 0 .. Generations - 1
      /\ (m_gen[i] + 1) % Generations = IF m_gen[i] + 1 = Generations THEN 0 ELSE m_gen[i] + 1
  BY <1>1, NextGeneration DEF HandleInv, TypeOK, Generation
<1>4. TypeOK'
  <2>1. m_gen' \in [Index -> Generation]
    BY <1>1, <1>2, <1>3 DEF HandleInv, TypeOK, Generation
  <2>2. releases' \in [Index -> 0 .. MaxReleases]
    BY <1>1, <1>2 DEF HandleInv, TypeOK
  <2> QED BY <1>1, <1>2, <2>1, <2>2 DEF HandleInv, TypeOK
<1>0. \A t \in issued' : t.era <= resets'
  BY <1>2 DEF HandleInv
<1>5. ASSUME NEW t \in issued', t.era = resets' PROVE Distance(t)'
  <2>1. /\ t \in issued /\ Distance(t)
        /\ t.age \in Nat
        /\ t.handle.generation \in 0 .. Generations - 1
        /\ t.handle.index \in Index
    BY <1>2, <1>5 DEF HandleInv, TypeOK, Token, Handle, Generation
  <2>2. /\ m_gen[t.handle.index] \in 0 .. Generations - 1
        /\ releases[t.handle.index] \in Nat
    BY <2>1 DEF HandleInv, TypeOK, Generation
  <2>3. CASE t.handle.index # i
    BY <1>1, <1>2, <2>1, <2>3 DEF Distance, HandleInv, TypeOK
  <2>4. CASE t.handle.index = i
    <3>1. /\ m_gen'[i] = IF m_gen[i] + 1 = Generations THEN 0 ELSE m_gen[i] + 1
          /\ releases'[i] = releases[i] + 1
      BY <1>1, <1>2, <1>3 DEF HandleInv, TypeOK
    <3> QED BY <1>1, <2>1, <2>2, <2>4, <3>1 DEF Distance
  <2> QED BY <2>3, <2>4
<1> QED BY <1>0, <1>4, <1>5 DEF HandleInv

\* After a reset every token belongs to an earlier era.
LEMMA HandleReset == HandleInv /\ Reset => HandleInv'
<1> SUFFICES ASSUME HandleInv, Reset PROVE HandleInv'
  OBVIOUS
<1>1. TypeOK'
  BY HandleAssumption DEF HandleInv, TypeOK, Reset, m_index_alloc!Reset, Generation, Index
<1>2. ASSUME NEW t \in issued' PROVE t.era < resets'
  BY HandleAssumption DEF HandleInv, TypeOK, Reset, Token
<1>3. ASSUME NEW t \in issued' PROVE t.era <= resets' /\ t.era # resets'
  BY <1>2, HandleAssumption DEF HandleInv, TypeOK, Reset, Token
<1> QED BY <1>1, <1>3 DEF HandleInv

\* A call that is refused, or finds the allocator full, changes nothing of the above.
LEMMA HandleStutter ==
    ASSUME HandleInv, UNCHANGED <<allocated, m_gen, releases, resets, issued>>,
           ret' \in Index \cup {invalid_index}
    PROVE  HandleInv'
  BY DEF HandleInv, TypeOK, Distance

\* Each step keeps the invariant.
LEMMA HandleStep == HandleInv /\ [Next]_vars => HandleInv'
<1> SUFFICES ASSUME HandleInv, [Next]_vars PROVE HandleInv'
  OBVIOUS
<1>1. CASE Allocate
  BY <1>1, HandleAllocate
<1>2. CASE AllocateFull
  BY <1>2, HandleStutter DEF AllocateFull, m_index_alloc!AllocateFull
<1>3. CASE \E h \in Held : Deallocate(h)
  BY <1>3, HandleDeallocate
<1>4. CASE \E h \in Held : DeallocateRefused(h)
  BY <1>4, HandleStutter DEF DeallocateRefused, vars, HandleInv, TypeOK
<1>5. CASE Reset
  BY <1>5, HandleReset
<1>6. CASE UNCHANGED vars
  BY <1>6, HandleStutter DEF vars, HandleInv, TypeOK
<1> QED BY <1>1, <1>2, <1>3, <1>4, <1>5, <1>6 DEF Next

\* Every state of the allocator satisfies the inductive invariant, and with it the
\* types of its state.
THEOREM HandleInvariant == Spec => []HandleInv
  BY HandleInit, HandleStep, PTL DEF Spec

\* Indices, generations and tokens keep their types: no generation leaves handle_gen_t.
THEOREM HandleTypeOK == Spec => []TypeOK
<1>1. HandleInv => TypeOK
  BY DEF HandleInv
<1> QED BY <1>1, HandleInvariant, PTL

\* A live token is at distance 0, and the generations agree.
LEMMA InvAccepts == HandleInv => LiveHandleAccepted
<1> SUFFICES ASSUME HandleInv, NEW t \in issued, Live(t) PROVE Contains(t.handle)
  BY DEF LiveHandleAccepted
<1>1. /\ Distance(t)
      /\ t.age \in Nat /\ t.age = releases[t.handle.index]
      /\ t.handle.generation \in 0 .. Generations - 1
      /\ m_gen[t.handle.index] \in 0 .. Generations - 1
      /\ t.handle.index \in allocated
  BY DEF HandleInv, TypeOK, Token, Handle, Generation, Live
<1> QED BY <1>1, HandleAssumption DEF Distance, Contains

\* A stale token is at a distance between 0 and Generations, and the generations differ.
LEMMA InvRefuses == HandleInv => StaleHandleRefused
<1> SUFFICES ASSUME HandleInv, NEW t \in issued, t.era = resets,
                    releases[t.handle.index] < t.age + Generations, ~ Live(t),
                    Contains(t.handle)
             PROVE  FALSE
  BY DEF StaleHandleRefused
<1>1. /\ Distance(t)
      /\ t.age \in Nat /\ releases[t.handle.index] \in Nat
      /\ t.handle.generation \in 0 .. Generations - 1
      /\ t.handle.index \in allocated
      /\ m_gen[t.handle.index] = t.handle.generation
      /\ t.age # releases[t.handle.index]
  BY DEF HandleInv, TypeOK, Token, Handle, Generation, Live, Contains
<1> QED BY <1>1, HandleAssumption DEF Distance

\* handle_allocator::contains accepts a handle from its allocation until its own
\* deallocation or a reset, whatever else is allocated and freed.
THEOREM LiveAccepted == Spec => []LiveHandleAccepted
BY InvAccepts, HandleInvariant, PTL

\* handle_allocator::contains refuses a stale copy of a handle while its index has been
\* deallocated fewer than Generations times since, in the absence of a reset.
THEOREM StaleRefused == Spec => []StaleHandleRefused
BY InvRefuses, HandleInvariant, PTL
-----------------------------------------------------------------------------
Slot == Object \cup {Raw}

\* What is constructed in the slot of an index that is allocated.
Current(i) == [age |-> releases[i], era |-> resets]

Storage == \E n \in StorageSizes : m_storage \in [0 .. n - 1 -> Slot]

\* An index is below the largest number of objects there has been, because allocate hands
\* out the smallest: this is what keeps the objects of a small pool in one word.
Slots == /\ peak \in 0 .. Capacity
         /\ allocated \subseteq 0 .. peak - 1
         /\ \A i \in allocated : i \in DOMAIN m_storage /\ m_storage[i] = Current(i)
         /\ peak < BitsPerWord => Constructed \subseteq allocated

\* The inductive invariant.
PoolInv == HandleInv /\ Storage /\ Slots

\* Indices are natural numbers below the capacity.
LEMMA CapacityInIndex == Capacity \in Nat /\ \A i \in Index : i \in Nat /\ i < Capacity
BY HandleAssumption DEF Index

\* The loop over an allocator whose indices leave the first word room yields all of them.
LEMMA SmallYieldsAll ==
    ASSUME NEW S, NEW k \in Nat, k < BitsPerWord, k <= Capacity, S \subseteq 0 .. k - 1
    PROVE  Loop!Yielded(S) = S
<1> USE PoolAssumption
<1>1. Loop!FullWords(S) = {}
  <2> SUFFICES ASSUME NEW w \in 0 .. Words - 1, \A b \in 0 .. BitsPerWord - 1 : w * BitsPerWord + b \in S
               PROVE  FALSE
    BY DEF Loop!FullWords, Loop!Word, Loop!Bit
  <2>1. w * BitsPerWord \in Nat
    OBVIOUS
  <2>2. w * BitsPerWord + (BitsPerWord - 1) \in S
    OBVIOUS
  <2> QED BY <2>1, <2>2
<1>2. CASE S = {}
  BY <1>2 DEF Loop!Yielded
<1>3. CASE S # {}
  <2>1. Words # 0
    <3>1. Capacity # 0
      <4>1. PICK i \in S : i \in 0 .. k - 1
        BY <1>3
      <4>2. k >= 1
        BY <4>1
      <4> QED BY <4>2
    <3>2. 0 * BitsPerWord = 0
      OBVIOUS
    <3> QED BY <3>1, <3>2
  <2>2. 0 \in Loop!Word /\ \A w \in Loop!Word : 0 <= w
    BY <2>1 DEF Loop!Word
  <2>3. Loop!FirstOpen(S) = 0
    BY <1>1, <2>2 DEF Loop!FirstOpen, Loop!Word
  <2>4. \A i \in S : i \div BitsPerWord = 0
    OBVIOUS
  <2>5. Loop!InWord(S, 0) = S
    BY <2>4 DEF Loop!InWord, Loop!WordOf
  <2> QED BY <1>1, <1>3, <2>2, <2>3, <2>5 DEF Loop!Yielded
<1> QED BY <1>2, <1>3

\* There is a power of two from n on.
LEMMA CeilPowerIsEnough ==
    ASSUME NEW n \in 1 .. Capacity
    PROVE  CeilPowerOfTwo(n) \in Nat /\ CeilPowerOfTwo(n) >= n
<1> USE PoolAssumption, HandleAssumption
<1>1. \E p \in PowersOfTwo : p >= Capacity
  <2> SUFFICES ASSUME \A p \in PowersOfTwo : p < Capacity PROVE FALSE
    OBVIOUS
  <2> DEFINE Left == {Capacity - p : p \in PowersOfTwo}
  <2>1. Left \in SUBSET Nat /\ Left # {}
    OBVIOUS
  <2>2. PICK x \in Left : \A y \in Left : x <= y
    BY <2>1, LeastElement
  <2>3. PICK p \in PowersOfTwo : x = Capacity - p
    OBVIOUS
  <2>4. 2 * p \in PowersOfTwo /\ Capacity - 2 * p \in Left
    OBVIOUS
  <2>5. x <= Capacity - 2 * p
    BY <2>2, <2>4
  <2> QED BY <2>3, <2>5
<1> DEFINE Reaching == {q \in PowersOfTwo : q >= n}
<1>2. Reaching \in SUBSET Nat /\ Reaching # {}
  <2>1. PICK p \in PowersOfTwo : p >= Capacity
    BY <1>1
  <2>2. p \in Nat /\ p >= n
    BY <2>1
  <2> QED BY <2>2
<1>3. \E p \in Reaching : \A q \in Reaching : p <= q
  BY <1>2, LeastElement
<1>4. \E p \in PowersOfTwo : p >= n /\ \A q \in PowersOfTwo : q >= n => p <= q
  BY <1>3
<1> QED BY <1>4 DEF CeilPowerOfTwo

\* The storage grows to a size it is allowed to have, past the index it is asked for, and
\* what is in it stays.
LEMMA Grows ==
    ASSUME Storage, NEW idx \in Index
    PROVE  /\ \E m \in StorageSizes : Ensured(idx) \in [0 .. m - 1 -> Slot]
           /\ idx \in DOMAIN Ensured(idx)
           /\ \A i \in DOMAIN m_storage : i \in DOMAIN Ensured(idx) /\ Ensured(idx)[i] = m_storage[i]
           /\ \A i \in DOMAIN Ensured(idx) \ DOMAIN m_storage : Ensured(idx)[i] = Raw
<1> USE CapacityInIndex
<1>1. PICK n \in StorageSizes : m_storage \in [0 .. n - 1 -> Slot]
  BY DEF Storage
<1>2. n \in Nat /\ Size = n
  <2>1. n \in Nat
    BY DEF StorageSizes
  <2> QED BY <1>1, <2>1, FS_Interval DEF Size
<1>3. PICK size : size = IF idx < n THEN n
                         ELSE IF idx + 1 <= 2 THEN 2
                         ELSE Smaller(CeilPowerOfTwo(idx + 1), Capacity)
  OBVIOUS
<1>4. Ensured(idx) = [i \in 0 .. size - 1 |-> IF i < n THEN m_storage[i] ELSE Raw]
  BY <1>2, <1>3 DEF Ensured
<1>5. size \in StorageSizes /\ size \in Nat /\ idx < size /\ n <= size
  <2>1. CASE idx < n
    BY <1>2, <1>3, <2>1
  <2>2. CASE idx >= n /\ idx + 1 <= 2
    BY <1>2, <1>3, <2>2 DEF StorageSizes
  <2>3. CASE idx >= n /\ idx + 1 > 2
    <3>1. idx + 1 \in 1 .. Capacity
      OBVIOUS
    <3>2. size \in Nat /\ size >= idx + 1 /\ size <= Capacity
      BY <1>2, <1>3, <2>3, <3>1, CeilPowerIsEnough DEF Smaller
    <3> QED BY <1>2, <2>3, <3>2 DEF StorageSizes
  <2> QED BY <1>2, <2>1, <2>2, <2>3
<1>6. Ensured(idx) \in [0 .. size - 1 -> Slot]
  BY <1>1, <1>2, <1>4, <1>5 DEF Slot
<1> QED BY <1>1, <1>2, <1>4, <1>5, <1>6

\* More indices from 0 on contain fewer.
LEMMA Longer ==
    ASSUME NEW a \in Nat, NEW b \in Nat, a <= b
    PROVE  0 .. a - 1 \subseteq 0 .. b - 1
<1> SUFFICES ASSUME NEW x \in 0 .. a - 1 PROVE x \in 0 .. b - 1
  OBVIOUS
<1>1. x \in Int /\ 0 <= x /\ x <= a - 1
  OBVIOUS
<1> QED BY <1>1

\* Indices handed out start from the smallest: their number is at least the last one's place.
LEMMA SmallestFree ==
    ASSUME NEW S \in SUBSET Index, NEW i \in Index \ S, \A j \in Index \ S : i <= j
    PROVE  /\ IsFiniteSet(S \cup {i})
           /\ Cardinality(S \cup {i}) \in Nat
           /\ i < Cardinality(S \cup {i}) /\ Cardinality(S \cup {i}) <= Capacity
<1> USE CapacityInIndex
<1>1. IsFiniteSet(Index) /\ Cardinality(Index) = Capacity
  BY FS_Interval DEF Index
<1>2. S \cup {i} \in SUBSET Index
  OBVIOUS
<1>3. IsFiniteSet(S \cup {i}) /\ Cardinality(S \cup {i}) <= Capacity
  BY <1>1, <1>2, FS_Subset
<1>4. 0 .. i \in SUBSET (S \cup {i})
  BY DEF Index
<1>5. Cardinality(0 .. i) = i + 1
  BY FS_Interval
<1>6. Cardinality(0 .. i) <= Cardinality(S \cup {i}) /\ Cardinality(S \cup {i}) \in Nat
  BY <1>3, <1>4, FS_Subset, FS_CardinalityType
<1> QED BY <1>3, <1>5, <1>6

\* A new pool is empty.
LEMMA PoolInitInv == PoolInit => PoolInv
<1> SUFFICES ASSUME PoolInit PROVE PoolInv
  OBVIOUS
<1>1. HandleInv /\ allocated = {}
  BY HandleInit DEF PoolInit, Init, m_index_alloc!Init
<1>2. m_storage = [i \in {} |-> Raw] /\ peak = 0
  BY DEF PoolInit
<1>3. m_storage \in [0 .. 0 - 1 -> Slot] /\ 0 \in StorageSizes
  BY <1>2 DEF StorageSizes
<1>4. Slots
  BY <1>1, <1>2, CapacityInIndex DEF Slots, Constructed
<1> QED BY <1>1, <1>3, <1>4 DEF PoolInv, Storage

\* A slot that holds an object can be told from a raw one.
LEMMA CurrentIsObject ==
    ASSUME HandleInv, NEW i \in Index
    PROVE  Current(i) \in Object /\ Current(i) # Raw
BY HandleAssumption, PoolAssumption DEF HandleInv, TypeOK, Current, Object

\* emplace constructs in the slot of the index it was given, and disturbs no other slot.
LEMMA PoolEmplace == PoolInv /\ Emplace => PoolInv'
<1> SUFFICES ASSUME PoolInv, Emplace PROVE PoolInv'
  OBVIOUS
<1>1. HandleInv' /\ allocated \in SUBSET Index
  BY HandleAllocate DEF PoolInv, Emplace, HandleInv, TypeOK
<1>2. PICK i \in Index \ allocated :
          /\ \A j \in Index \ allocated : i <= j
          /\ allocated' = allocated \cup {i} /\ ret' = i
          /\ UNCHANGED <<releases, resets>>
  BY DEF Emplace, Allocate, m_index_alloc!Allocate, m_index_alloc!Free, m_index_alloc!Index, Index
<1>3. PICK grown : /\ grown = Ensured(i)
                   /\ m_storage' = [grown EXCEPT ![i] = Current(i)]
  BY <1>2 DEF Emplace, Current
<1>4. /\ \E m \in StorageSizes : grown \in [0 .. m - 1 -> Slot]
      /\ i \in DOMAIN grown
      /\ \A k \in DOMAIN m_storage : k \in DOMAIN grown /\ grown[k] = m_storage[k]
      /\ \A k \in DOMAIN grown \ DOMAIN m_storage : grown[k] = Raw
  BY <1>3, Grows DEF PoolInv
<1>5. Current(i) \in Slot /\ Current(i) # Raw
  BY CurrentIsObject DEF PoolInv, Slot
<1>6. Storage'
  BY <1>3, <1>4, <1>5 DEF Storage
<1>7. PICK number \in Nat :
          /\ number = Cardinality(allocated') /\ i < number /\ number <= Capacity
          /\ peak' = IF number > peak THEN number ELSE peak
  BY <1>1, <1>2, SmallestFree DEF Emplace
<1>8. peak \in 0 .. Capacity /\ allocated \subseteq 0 .. peak - 1
  BY DEF PoolInv, Slots
<1>9. peak' \in 0 .. Capacity /\ peak <= peak' /\ allocated' \subseteq 0 .. peak' - 1
  <2>1. PICK before \in Nat, after \in Nat :
            /\ before = peak /\ after = peak'
            /\ before <= after /\ after <= Capacity /\ number <= after
    BY <1>7, <1>8, CapacityInIndex
  <2>2. i \in 0 .. after - 1
    BY <1>7, <2>1, CapacityInIndex
  <2>3. 0 .. before - 1 \subseteq 0 .. after - 1
    BY <2>1, Longer
  <2>4. allocated' \subseteq 0 .. after - 1
    BY <1>2, <1>8, <2>1, <2>2, <2>3
  <2>5. after \in 0 .. Capacity
    BY <2>1, CapacityInIndex
  <2> QED BY <2>1, <2>4, <2>5
<1>10. \A k \in allocated' : k \in DOMAIN m_storage' /\ m_storage'[k] = Current(k)'
  <2>1. \A k \in allocated : k \in DOMAIN m_storage /\ m_storage[k] = Current(k) /\ k # i
    BY <1>2 DEF PoolInv, Slots
  <2> QED BY <1>2, <1>3, <1>4, <2>1 DEF Current
<1>11. peak' < BitsPerWord => Constructed' \subseteq allocated'
  <2> SUFFICES ASSUME peak' < BitsPerWord, NEW k \in DOMAIN m_storage', m_storage'[k] # Raw, k # i
               PROVE  k \in allocated
    BY <1>2 DEF Constructed
  <2>1. k \in DOMAIN m_storage /\ m_storage[k] # Raw
    BY <1>3, <1>4
  <2>2. peak < BitsPerWord
    BY <1>8, <1>9, PoolAssumption
  <2> QED BY <2>1, <2>2 DEF PoolInv, Slots, Constructed
<1> QED BY <1>1, <1>6, <1>9, <1>10, <1>11 DEF PoolInv, Slots

\* An allocation that is taken back is a deallocation of an index that no token is alive for.
LEMMA PoolEmplaceThrows ==
    ASSUME PoolInv, NEW grows \in BOOLEAN, EmplaceThrows(grows)
    PROVE  PoolInv'
<1> USE HandleAssumption
<1>1. PICK i \in Index \ allocated : i = NextIndex
  <2>1. Index \ allocated # {} /\ Index \ allocated \in SUBSET Nat
    BY CapacityInIndex DEF EmplaceThrows, PoolInv, HandleInv, TypeOK
  <2>2. \E i \in Index \ allocated : \A j \in Index \ allocated : i <= j
    BY <2>1, LeastElement
  <2> QED BY <2>2 DEF NextIndex
<1>2. /\ ret' = i /\ releases[i] < MaxReleases
      /\ m_gen' = [m_gen EXCEPT ![i] = (@ + 1) % Generations]
      /\ releases' = [releases EXCEPT ![i] = @ + 1]
      /\ m_storage' = (IF grows THEN Ensured(i) ELSE m_storage)
      /\ UNCHANGED <<allocated, resets, issued, peak>>
  BY <1>1 DEF EmplaceThrows
<1>3. /\ m_gen[i] \in 0 .. Generations - 1
      /\ (m_gen[i] + 1) % Generations = IF m_gen[i] + 1 = Generations THEN 0 ELSE m_gen[i] + 1
  BY <1>1, NextGeneration DEF PoolInv, HandleInv, TypeOK, Generation
<1>4. TypeOK'
  <2>1. m_gen' \in [Index -> Generation]
    BY <1>1, <1>2, <1>3 DEF PoolInv, HandleInv, TypeOK, Generation
  <2>2. releases' \in [Index -> 0 .. MaxReleases]
    BY <1>1, <1>2 DEF PoolInv, HandleInv, TypeOK
  <2> QED BY <1>1, <1>2, <2>1, <2>2 DEF PoolInv, HandleInv, TypeOK
<1>5. ASSUME NEW t \in issued', t.era = resets' PROVE Distance(t)'
  <2>1. /\ t \in issued /\ Distance(t)
        /\ t.age \in Nat
        /\ t.handle.generation \in 0 .. Generations - 1
        /\ t.handle.index \in Index
    BY <1>2, <1>5 DEF PoolInv, HandleInv, TypeOK, Token, Handle, Generation
  <2>2. /\ m_gen[t.handle.index] \in 0 .. Generations - 1
        /\ releases[t.handle.index] \in Nat
    BY <2>1 DEF PoolInv, HandleInv, TypeOK, Generation
  <2>3. CASE t.handle.index # i
    BY <1>1, <1>2, <2>1, <2>3 DEF Distance, PoolInv, HandleInv, TypeOK
  <2>4. CASE t.handle.index = i
    <3>1. /\ m_gen'[i] = IF m_gen[i] + 1 = Generations THEN 0 ELSE m_gen[i] + 1
          /\ releases'[i] = releases[i] + 1
      BY <1>1, <1>2, <1>3 DEF PoolInv, HandleInv, TypeOK
    <3> QED BY <1>1, <1>2, <2>1, <2>2, <2>4, <3>1 DEF Distance
  <2> QED BY <2>3, <2>4
<1>6. HandleInv'
  BY <1>2, <1>4, <1>5 DEF PoolInv, HandleInv
<1>7. /\ Storage'
      /\ \A k \in DOMAIN m_storage : k \in DOMAIN m_storage' /\ m_storage'[k] = m_storage[k]
      /\ \A k \in DOMAIN m_storage' \ DOMAIN m_storage : m_storage'[k] = Raw
  BY <1>1, <1>2, Grows DEF PoolInv, Storage
<1>8. \A k \in allocated : Current(k)' = Current(k)
  BY <1>1, <1>2 DEF Current, PoolInv, HandleInv, TypeOK
<1>9. Slots'
  BY <1>2, <1>7, <1>8 DEF PoolInv, Slots, Constructed
<1> QED BY <1>6, <1>7, <1>9 DEF PoolInv

\* Growing ahead of time disturbs no slot.
LEMMA PoolReserve ==
    ASSUME PoolInv, NEW count \in 0 .. Capacity, Reserve(count)
    PROVE  PoolInv'
<1>1. UNCHANGED <<vars, peak>> /\ m_storage' = (IF count > 0 THEN Ensured(count - 1) ELSE m_storage)
  BY DEF Reserve
<1>2. HandleInv'
  BY <1>1, HandleStep DEF PoolInv
<1>3. count > 0 => count - 1 \in Index
  BY CapacityInIndex DEF Index
<1>4. /\ Storage'
      /\ \A k \in DOMAIN m_storage : k \in DOMAIN m_storage' /\ m_storage'[k] = m_storage[k]
      /\ \A k \in DOMAIN m_storage' \ DOMAIN m_storage : m_storage'[k] = Raw
  <2>1. CASE count > 0
    BY <1>1, <1>3, <2>1, Grows DEF PoolInv, Storage
  <2>2. CASE ~ count > 0
    BY <1>1, <2>2 DEF PoolInv, Storage
  <2> QED BY <2>1, <2>2
<1>5. Slots'
  BY <1>1, <1>4 DEF PoolInv, Slots, Constructed, Current, vars
<1> QED BY <1>2, <1>4, <1>5 DEF PoolInv

\* erase leaves the slots of the other indices as they are.
LEMMA PoolErase ==
    ASSUME PoolInv, NEW h \in Held, Erase(h)
    PROVE  PoolInv'
<1>1. HandleInv'
  BY HandleDeallocate DEF PoolInv, Erase
<1>2. PICK i \in allocated :
          /\ allocated' = allocated \ {i}
          /\ releases' = [releases EXCEPT ![i] = @ + 1]
          /\ m_storage' = [m_storage EXCEPT ![i] = Raw]
          /\ UNCHANGED <<resets, peak>>
  BY DEF Erase, Deallocate, Contains, m_index_alloc!Deallocate
<1>3. Storage'
  BY <1>2 DEF PoolInv, Storage, Slot
<1>4. \A k \in allocated' : Current(k)' = Current(k)
  BY <1>2 DEF Current, PoolInv, HandleInv, TypeOK
<1>5. \A k \in allocated' : k \in DOMAIN m_storage' /\ m_storage'[k] = m_storage[k]
  BY <1>2 DEF PoolInv, Slots
<1>6. Constructed' \subseteq Constructed \ {i}
  BY <1>2 DEF Constructed
<1>7. Slots'
  BY <1>2, <1>4, <1>5, <1>6 DEF PoolInv, Slots
<1> QED BY <1>1, <1>3, <1>7 DEF PoolInv

\* Nothing is allocated after clear; in a small pool nothing is constructed either.
LEMMA PoolClear == PoolInv /\ Clear => PoolInv'
<1> SUFFICES ASSUME PoolInv, Clear PROVE PoolInv'
  OBVIOUS
<1>1. HandleInv'
  BY HandleReset DEF PoolInv, Clear
<1>2. /\ allocated' = {} /\ peak' = peak
      /\ m_storage' = [i \in DOMAIN m_storage |->
                          IF i \in Loop!Yielded(allocated) THEN Raw ELSE m_storage[i]]
  BY DEF Clear, Reset, m_index_alloc!Reset
<1>3. Storage'
  BY <1>2 DEF PoolInv, Storage, Slot
<1>4. peak < BitsPerWord => Constructed' \subseteq {}
  <2> SUFFICES ASSUME peak < BitsPerWord, NEW i \in DOMAIN m_storage, m_storage'[i] # Raw
               PROVE  FALSE
    BY <1>2 DEF Constructed
  <2>1. peak \in Nat /\ peak <= Capacity /\ allocated \subseteq 0 .. peak - 1
    BY CapacityInIndex DEF PoolInv, Slots
  <2>2. Loop!Yielded(allocated) = allocated
    BY <2>1, SmallYieldsAll
  <2>3. m_storage[i] # Raw /\ i \notin allocated
    BY <1>2, <2>2
  <2> QED BY <2>3 DEF PoolInv, Slots, Constructed
<1>5. Slots'
  BY <1>2, <1>4 DEF PoolInv, Slots
<1> QED BY <1>1, <1>3, <1>5 DEF PoolInv

\* A call that is refused changes nothing.
LEMMA PoolUnchanged ==
    ASSUME PoolInv, UNCHANGED <<m_storage, peak, allocated, m_gen, releases, resets, issued>>,
           ret' \in Index \cup {invalid_index}
    PROVE  PoolInv'
<1>1. HandleInv'
  BY HandleStutter DEF PoolInv
<1> QED BY <1>1 DEF PoolInv, Storage, Slots, Constructed, Current

\* Each step keeps the invariant.
LEMMA PoolStep == PoolInv /\ [PoolNext]_poolVars => PoolInv'
<1> SUFFICES ASSUME PoolInv, [PoolNext]_poolVars PROVE PoolInv'
  OBVIOUS
<1>1. CASE EmplaceFull
  BY <1>1, PoolUnchanged DEF EmplaceFull, AllocateFull, m_index_alloc!AllocateFull
<1>2. CASE \E h \in Held : EraseRefused(h)
  BY <1>2, PoolUnchanged DEF EraseRefused, DeallocateRefused, vars, PoolInv, HandleInv, TypeOK
<1>3. CASE UNCHANGED poolVars
  BY <1>3, PoolUnchanged DEF poolVars, vars, PoolInv, HandleInv, TypeOK
<1> QED BY <1>1, <1>2, <1>3, PoolEmplace, PoolEmplaceThrows, PoolReserve, PoolErase, PoolClear
        DEF PoolNext

\* Every state of the pool satisfies the inductive invariant.
THEOREM PoolInvariant == PoolSpec => []PoolInv
BY PoolInitInv, PoolStep, PTL DEF PoolSpec

\* The storage has one of the sizes its growth goes through, and no slot has another type.
THEOREM PoolTypes == PoolSpec => []PoolTypeOK
<1>1. PoolInv => PoolTypeOK
  BY DEF PoolInv, HandleInv, Storage, Slots, Slot, PoolTypeOK
<1> QED BY <1>1, PoolInvariant, PTL

\* object_pool::find: a live handle leads to the object that emplace constructed for it,
\* through every growth of the storage, failed emplace, erase and clear.
THEOREM LiveFindsItsObject == PoolSpec => []LiveHandleFindsItsObject
<1>1. PoolInv => LiveHandleFindsItsObject
  BY DEF PoolInv, Slots, Current, LiveHandleFindsItsObject, Live
<1> QED BY <1>1, PoolInvariant, PTL

\* A destructor runs on a constructed object, never on a raw slot.
THEOREM DestroysObjects == PoolSpec => []AllocatedAreConstructed
<1>1. PoolInv => AllocatedAreConstructed
  <2> SUFFICES ASSUME PoolInv, NEW i \in allocated PROVE i \in Constructed
    BY DEF AllocatedAreConstructed
  <2>1. i \in DOMAIN m_storage /\ m_storage[i] = Current(i) /\ i \in Index
    BY DEF PoolInv, Slots, HandleInv, TypeOK
  <2> QED BY <2>1, CurrentIsObject DEF PoolInv, Constructed
<1> QED BY <1>1, PoolInvariant, PTL

\* Whatever the width of a word: a pool that never held a word's worth of objects at once
\* destroys every object it has constructed.
THEOREM SmallLeaksNothing == PoolSpec => []SmallPoolLeaksNothing
<1>1. PoolInv => SmallPoolLeaksNothing
  BY DEF PoolInv, Slots, SmallPoolLeaksNothing
<1> QED BY <1>1, PoolInvariant, PTL

\* Failed emplaces, which deallocate what they allocated, leave live handles accepted.
THEOREM PoolLiveAccepted == PoolSpec => []LiveHandleAccepted
<1>1. PoolInv => LiveHandleAccepted
  BY InvAccepts DEF PoolInv
<1> QED BY <1>1, PoolInvariant, PTL

\* They bring a stale copy nearer to being taken for the live handle, but not before the
\* generation of its index has come round.
THEOREM PoolStaleRefused == PoolSpec => []StaleHandleRefused
<1>1. PoolInv => StaleHandleRefused
  BY InvRefuses DEF PoolInv
<1> QED BY <1>1, PoolInvariant, PTL
=============================================================================
