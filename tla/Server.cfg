CONSTANTS
    JThreads = {t1}
    CThreads = {k}
    Ctxs = {c1, c2}
    Ubfs = {u1}
    Null = Null
    MaxDepth = 2
    Svcs = {s}
    Objs = {o1, o2}
    Reqs = {r1, r2}
SPECIFICATION ServerSpec
SYMMETRY Symmetry
INVARIANTS
    RightContext
    CallbackReady
    AnsweredOnce
    ServedAsAdvertised
