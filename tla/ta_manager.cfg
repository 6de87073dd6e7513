CONSTANTS
    Threads = {t1, t2, t3}
    Sessions = {s1, s2, s3}
    Ctxs = {c1, c2}
    Uuids = {SI}
    Pseudo = {}
    Callers = {}
    Flags <- MCFlags
    MaxRecursion = 1
    ConcurrentSI = TRUE
    None = None
    SI = SI
    SS = SS
    MI = MI
    PTA = PTA
SPECIFICATION Spec
SYMMETRY Symmetry
INVARIANTS
    TypeOK
    BusyExclusion
    SessionRefs
    NoLostWakeup
    ReleasedNeverRuns
