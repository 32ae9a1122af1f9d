SPECIFICATION ItSpec
CONSTANTS
    k_bits_per_word = 2
    invalid_index = 99
INVARIANT
    LoopVisitsAllAllocated
