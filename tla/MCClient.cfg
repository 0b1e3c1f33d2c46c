CONSTANTS
    t1 = t1
    t2 = t2
    t3 = t3
    f1 = f1
    f2 = f2
    f3 = f3
    None = None
    Threads = {t1, t2, t3}
    Files = {f1, f2, f3}
    FileOf <- MCFileOf
    TeecFiles = {f2}
    MaxSession = 3
    Ctxs = {c1, c2}
    Blocks = {b1, b2}
    Addrs = {a1}
SPECIFICATION Spec
CONSTRAINT BeforeSignal
SYMMETRY ClientSymmetry
INVARIANTS
    SendExclusive
    WaiterReachable
    ResumedWhenReady
    SessionRefMapped
