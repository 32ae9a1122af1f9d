SPECIFICATION Spec
CONSTANTS
    a = a
    b = b
    c = c
    File <- MCFile
    Root = a
    Path <- MCPath
    Texts <- MCTexts
    k_max_proto_depth = 3
    Null = Null
INVARIANTS
    BasesFirst
    PrototypesAcyclic
    RefusedForCause
CHECK_DEADLOCK FALSE
