CONSTANTS
    Threads = {t1}
    Finalizer = Finalizer
    Hook = Hook
    Objs = {o1, o2}
    Wrappers = {}
    Ctxs = {c1, c2}
    Null = Null
    NoObj = NoObj
    NoThread = NoThread
SPECIFICATION Spec
SYMMETRY Symmetry
\* The JVM halts once its shutdown hook has run.
CHECK_DEADLOCK FALSE
INVARIANT SkipsRemoved
