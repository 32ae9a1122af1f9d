SPECIFICATION Spec
CONSTANTS
    Capacity = 2
    invalid_index = 99
    Generations = 2
    MaxReleases = 3
    MaxResets = 1
INVARIANT
    NullHandleRefused
