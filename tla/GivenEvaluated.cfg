CONSTANTS
    JThreads = {t1}
    CThreads = {}
    Ctxs = {c1}
    Ubfs = {u1, u2}
    Null = Null
    MaxDepth = 2
SPECIFICATION Spec
SYMMETRY Symmetry
INVARIANT GivenEvaluated
