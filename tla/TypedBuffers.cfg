CONSTANTS
    Threads = {t1, t2}
    Objs = {o1, o2, o3}
    Ptrs = {p1, p2}
    Types = {UBF, STRING, FOREIGN}
    Supported = {UBF, STRING}
    Null = Null
    NoObj = NoObj
    NoThread = NoThread
    NoType = NoType
SPECIFICATION Spec
SYMMETRY Symmetry
INVARIANTS
    TypeOK
    SingleDestructor
    DestructorSafe
    NoDanglingUse
    NoLeak
