CONSTANTS
    Threads = {t1, t2}
    Finalizer = Finalizer
    Hook = Hook
    Objs = {o1, o2, w}
    Wrappers = {w}
    Ctxs = {c1, c2}
    Null = Null
    NoObj = NoObj
    NoThread = NoThread
SPECIFICATION Spec
SYMMETRY Symmetry
\* The JVM halts once its shutdown hook has run.
CHECK_DEADLOCK FALSE
INVARIANTS
    NoDoubleFree
    FreesOwnContext
    NoUseAfterFree
    MapExact
    MutexReleased
