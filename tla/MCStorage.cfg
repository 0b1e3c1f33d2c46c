SPECIFICATION Spec
CONSTANTS
    Handles = {h1, h2}
    Paths = {p, q}
    NoPath = NoPath
    Data = {a, b}
    Lens = {1, 3}
    Offsets = {3}
    Junk = {1}
    ClusSize = 4
    ByteMod = 2
    WBuf = 1
    LastCluster = 3
    DirSlots = 3
    Streams = 2
    MaxInfos = 3
    MaxFiles = 2
SYMMETRY StorageSymmetry
CONSTRAINT BeforeLapse
INVARIANTS FilesAsWritten ReadersSeeTheirFile
