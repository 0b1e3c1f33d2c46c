CONSTANTS
    t1 = t1
    t2 = t2
    t3 = t3
    f1 = f1
    f2 = f2
    f3 = f3
    None = None
    Threads = {t3}
    Files = {f2}
    FileOf <- MCTeecFileOf
    TeecFiles = {f2}
    MaxSession = 1
    Ctxs = {c1}
    Blocks = {b1, b2}
    Addrs = {a1}
SPECIFICATION Spec
INVARIANT TeecRefMapped
