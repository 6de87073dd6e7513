CONSTANTS
    Threads = {t1, t2}
    Sessions = {s1, s2}
    Ctxs = {c1, c2}
    Uuids = {SI}
    Pseudo = {}
    Callers = {SI}
    Flags <- MCFlags
    MaxRecursion = 2
    ConcurrentSI = FALSE
    None = None
    SI = SI
    SS = SS
    MI = MI
    PTA = PTA
SPECIFICATION Spec
SYMMETRY Symmetry
INVARIANTS
    BusyOpenFails
