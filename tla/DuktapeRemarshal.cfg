\* Script passes the same object to Java again before the drain.
CONSTANTS
    v1 = v1
    v2 = v2
    a1 = a1
    a2 = a2
    a3 = a3
    Handles = {h1, h2, h3}
    Values = {v1, v2}
    Addrs = {a1, a2}
    Index <- ExactIndex
    Proto <- NoPrototypes
    None = None
SYMMETRY Symmetry
SPECIFICATION Spec
INVARIANT
    HardReferenced
CHECK_DEADLOCK FALSE
