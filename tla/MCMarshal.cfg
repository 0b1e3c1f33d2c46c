CONSTANTS
    Word = 2
    BufSize = 12
    MaxReq = 3
    MaxRes = 3
    Mod = 32
    Lens = {5, 7, 28}
SPECIFICATION Spec
CHECK_DEADLOCK FALSE
INVARIANTS
    RequestDecoded
    ResponseLands
    InBuffer
