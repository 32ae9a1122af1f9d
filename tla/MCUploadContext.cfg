SPECIFICATION UpSpec
CONSTANTS
    Align = 2
    k_stage_buffer_size = 6
    Size = {1, 2, 3, 7}
    MaxUploads = 4
INVARIANT
    SliceAssertion
CHECK_DEADLOCK FALSE
