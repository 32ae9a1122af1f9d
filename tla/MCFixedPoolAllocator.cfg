SPECIFICATION FpSpec
CONSTANTS
    k_bits_per_word = 2
    invalid_index = 99
    PoolCapacity = 5
    SlotSize = 2
INVARIANTS
    TypeOK
    SummaryExact
    SizeExact
    LoopYields
    ContainsLiveBlocks
PROPERTIES
    IsIndexSet
    LoopEnds
