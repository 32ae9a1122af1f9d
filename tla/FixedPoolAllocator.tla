------------------------- MODULE FixedPoolAllocator -------------------------
(***************************************************************************)
(* core/memory/fixed_pool_allocator: the indices of a bitmap allocator     *)
(* stand for slots of an array that is part of the pool.  The allocator is *)
(* the smallest of the library whose capacity is enough: it may have more  *)
(* indices than the pool has slots.                                        *)
(*                                                                         *)
(* An address is a byte offset from the start of the array, negative ones  *)
(* lie before it.                                                          *)
(***************************************************************************)
EXTENDS BitmapIteration, Integers

CONSTANTS PoolCapacity,  \* Capacity of the pool
          SlotSize       \* sizeof(slot_t)

ASSUME FixedPoolAssumption == /\ PoolCapacity \in 1 .. k_capacity
                              /\ SlotSize \in Nat \ {0}

VARIABLE blocks  \* addresses of the slots handed out by allocate and not freed since

fpVars == <<vars, iterVars, blocks>>

SlotPtr(i) == i * SlotSize
IndexOf(p) == p \div SlotSize

\* Mutant: an address inside a slot is taken for the slot.
InRangeUnaligned(p) == p >= 0 /\ p < PoolCapacity * SlotSize

InRange(p) == /\ p >= 0
              /\ p < PoolCapacity * SlotSize
              /\ p % SlotSize = 0

PoolContains(p) == InRange(p) /\ Contains(IndexOf(p))

FpInit == ItInit /\ blocks = {}

FpAllocate == /\ cursor = NoLoop
              /\ Allocate
              /\ blocks' = blocks \cup {SlotPtr(ret')}
              /\ UNCHANGED iterVars

\* nullptr is returned.
FpAllocateFull == cursor = NoLoop /\ AllocateFull /\ UNCHANGED <<iterVars, blocks>>

\* Addresses a client may pass, or ask about: in and around the array, on a slot or inside one.
AnyAddress == -1 .. (k_capacity + 1) * SlotSize

\* An address before the array is not given to deallocate: index_of would wrap it.
Freed == {p \in AnyAddress : p >= 0}

\* deallocate divides and checks nothing in a release build (a debug build stops at the
\* assertion that the pool contains the block): the slot around the address is freed, for an
\* address inside a block too, and for a block that lies behind the storage.
FpDeallocate(p) == /\ cursor = NoLoop
                   /\ Deallocate(IndexOf(p))
                   /\ blocks' = blocks \ {SlotPtr(IndexOf(p))}
                   /\ UNCHANGED iterVars

\* The slot around the address is free, or there is none: the index is refused.
FpDeallocateRefused(p) == /\ cursor = NoLoop
                          /\ DeallocateRefused(IndexOf(p))
                          /\ UNCHANGED <<iterVars, blocks>>

FpReset == cursor = NoLoop /\ Reset /\ blocks' = {} /\ UNCHANGED iterVars

\* A client that loops over the pool, and otherwise uses it.
FpNext == \/ FpAllocate
          \/ FpAllocateFull
          \/ \E p \in Freed : FpDeallocate(p)
          \/ \E p \in Freed : FpDeallocateRefused(p)
          \/ FpReset
          \/ Begin /\ UNCHANGED blocks
          \/ EraseCurrent /\ blocks' = blocks \ {SlotPtr(cursor)}
          \/ Advance /\ UNCHANGED blocks
          \/ End /\ UNCHANGED blocks

FpSpec == FpInit /\ [][FpNext]_fpVars /\ WF_fpVars(Advance /\ UNCHANGED blocks)
-----------------------------------------------------------------------------
\* contains answers for exactly the live blocks that lie in the array: a freed block, an
\* address inside a block, one outside the array, and a block that was handed out behind the
\* array are refused, whatever has been allocated and freed, by whatever address.
ContainsLiveBlocks ==
    {p \in AnyAddress : PoolContains(p)} = {p \in blocks : p < PoolCapacity * SlotSize}

\* workspace.hpp:31, "Number of nodes the internal pool can hold": every block handed out
\* lies in the array.
BlocksInStorage == \A p \in blocks : p + SlotSize <= PoolCapacity * SlotSize

=============================================================================
