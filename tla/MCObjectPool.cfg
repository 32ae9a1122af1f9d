SPECIFICATION PoolSpec
CONSTANTS
    Capacity = 3
    invalid_index = 99
    Generations = 2
    MaxReleases = 2
    MaxResets = 1
    BitsPerWord = 3
    Words = 1
    PowersOfTwo = {1, 2, 4}
    Raw = Raw
INVARIANTS
    PoolTypeOK
    LiveHandleFindsItsObject
    LiveHandleAccepted
    StaleHandleRefused
    AllocatedAreConstructed
    SmallPoolLeaksNothing
