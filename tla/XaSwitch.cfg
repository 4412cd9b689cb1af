CONSTANTS
    Ctxs = {t1, t2}
    Xids = {x1, x2}
    Conns = {c1, c2, c3}
    Null = Null
    Count = 1
    MaxLost = 1
SPECIFICATION FairSpec
INVARIANTS
    Atomic
    Truthful
    ConnectionsHeld
 
