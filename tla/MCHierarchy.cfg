SPECIFICATION FSpec
CONSTANTS
    Node = {n1, n2, n3, n4, n5}
    Null = Null
INVARIANTS
    LinksAgree
    FreesWholeTree
PROPERTIES
    IsOrderedForest
    WalkEnds
CHECK_DEADLOCK FALSE
