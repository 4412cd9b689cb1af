CONSTANTS
    Threads = {b, t}
    Boot = b
    None = None
    MaxLen = 2
    MaxName = 2
    NFuncs = 2
    NClasses = 2
    Global = {2}
    Excs = {d, u}
    Atmi = {d}
    Diag = d
SPECIFICATION FairProcess
INVARIANTS
    ProcessTypeOK
    
    NoNullCall
    CacheWhole
    ThrowsRequested
    MidsResolved
CHECK_DEADLOCK FALSE
PROPERTIES
    KeepsContract
    FindEnds
