\* Four JavaScriptObjects over two addresses: an address is reused while
\* finalizations of its former owner are still queued or being drained.
CONSTANTS
    Handles = {h1, h2, h3, h4}
    Values = {v1, v2}
    Addrs = {a1, a2}
    Calls = {c1, c2}
    None = None
    PinReceiver = TRUE
SYMMETRY Symmetry
SPECIFICATION Spec
INVARIANTS
    TypeOK
    HandleResolves
    ResolvedIsMade
    StashAccounted
    PendingExclusive
    IInv
PROPERTY
    ImplementsHandleTable
CHECK_DEADLOCK FALSE
