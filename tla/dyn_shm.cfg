CONSTANTS
    Threads = {t1, t2, t3}
    Cookies = {k1, k2}
    None = None
SPECIFICATION FairSpec
INVARIANTS
    TypeOK
    
    CountersExact
    MappedWhileUsed
    NoLostWakeup

    
