\* An object is marshalled after its prototype was.
CONSTANTS
    v1 = v1
    v2 = v2
    a1 = a1
    a2 = a2
    a3 = a3
    Handles = {h1, h2, h3}
    Values = {v1, v2}
    Addrs = {a1, a2}
    Index <- ExactIndex
    Proto <- Inherits
    None = None
SYMMETRY Symmetry
SPECIFICATION Spec
INVARIANT
    PoppedIsItself
CHECK_DEADLOCK FALSE
