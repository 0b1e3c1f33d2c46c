CONSTANTS
    t1 = t1
    t2 = t2
    SecSize = 2
    PhyPages = 4
    PhyBits = 6
    VirPages = 6
    VirBits = 8
    Reserved = 1
    Sizes = {1, 4}
    MaxAlloc = 3
    NsSecs = {2, 3, 4}
    Coarse = {4}
    Tasks = {t1, t2}
    Layouts <- MCLayouts
    MaxLeak = 2
SPECIFICATION Spec
CONSTRAINTS
    ReferencesFound
    CodeStays
SYMMETRY TaskSymmetry
INVARIANTS
    HeldMapped
    RefsExact
    OwnPages
