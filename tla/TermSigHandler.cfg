CONSTANTS
    Installers = {i1, i2}
    Monitors = {m1, m2, m3}
    Refs = {r1, r2}
    NoRef = NoRef
    NoThread = NoThread
    MaxSignals = 3
SPECIFICATION FairSpec
INVARIANTS
    RunnerAlive
    RefsExact
    OneRun
 
