SPECIFICATION Spec
CONSTANTS
    Name = {n1, n2}
    Address = {a1, a2}
    Nowhere = Nowhere
    Freed = Freed
    MaxHolders = 2
    MaxPending = 3
INVARIANTS
    RefCountExact
    HeldEntriesAlive
    SyncReadsLiveEntries
PROPERTIES
    ReadyStays
    PublishedBecomesReady
    UnheldIsErased
