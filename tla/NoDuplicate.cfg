CONSTANTS
    Workers = {w1, w2}
    Jars = {j1, j2}
    c1 = c1
    c2 = c2
    c3 = c3
    r1 = r1
    e1 = e1
    e2 = e2
    e3 = e3
    Files = {c1, c2, r1}
    ClassFiles = {c1, c2}
    Includes = {e1, e2, e3}
    Name <- MCName
SPECIFICATION Spec
SYMMETRY Symmetry
INVARIANT NoDuplicate
