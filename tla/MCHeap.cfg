CONSTANTS
    Orders = 3
    MaxBlocks = 2
    FnCount = 4
    AnCount = 2
    Tasks = {t1}
    NoOwner = NoOwner
    MaxStray = 1
SPECIFICATION FairSpec
INVARIANTS
    Tiled
    NodesAccounted
PROPERTIES
    HandedOverEmpty
    CallsReturn
