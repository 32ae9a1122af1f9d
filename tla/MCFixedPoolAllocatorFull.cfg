SPECIFICATION FpSpec
CONSTANTS
    k_bits_per_word = 2
    invalid_index = 99
    PoolCapacity = 3
    SlotSize = 2
INVARIANT
    BlocksInStorage
