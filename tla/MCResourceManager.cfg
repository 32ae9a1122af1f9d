SPECIFICATION MgrSpec
CONSTANTS
    Align = 2
    k_stage_buffer_size = 6
    Size = {1, 5, 7}
    MaxUploads = 3
    Name = {n1, n2}
    Address = {a1, a2}
    Nowhere = Nowhere
    Freed = Freed
    MaxHolders = 2
    MaxPending = 2
    MaxLevels = 2
INVARIANTS
    MgrTypeOK
    StagedUntilExecuted
    ReadyIsUploaded
PROPERTIES
    IsUploadStream
    
CHECK_DEADLOCK FALSE
