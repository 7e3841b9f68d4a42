\* Script passes objects to Java as it likes; one inherits from the other, and two of the
\* three addresses share a slot of the stash.
CONSTANTS
    v1 = v1
    v2 = v2
    a1 = a1
    a2 = a2
    a3 = a3
    Handles = {h1, h2, h3}
    Values = {v1, v2}
    Addrs = {a1, a2, a3}
    Index <- CutIndex
    Proto <- Inherits
    None = None
SYMMETRY Symmetry
SPECIFICATION Spec
INVARIANTS
    TypeOK
    HardReferencedUncrossed
    QueuedPointerLive
    SameProxyInstance
PROPERTY
    ImplementsHandleTable
CHECK_DEADLOCK FALSE
