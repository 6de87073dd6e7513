CONSTANTS
    Threads = {t1, t2}
    Sessions = {s1, s2, s3}
    Ctxs = {c1, c2}
    Uuids = {SI, SS, MI, PTA}
    Pseudo = {PTA}
    Callers = {SI, SS, MI}
    Flags <- MCFlags
    MaxRecursion = 2
    ConcurrentSI = FALSE
    None = None
    SI = SI
    SS = SS
    MI = MI
    PTA = PTA
SPECIFICATION Spec
SYMMETRY Symmetry
INVARIANTS
    BusyExclusion
    SingleInstanceLock
    SessionRefs
    ContextRefs
    ListedIsUsable
    NoLostWakeup
    NoWaitCycle
    PanicOnlyOnReentry
