\* Three buffers over two hash codes, one of them written to; two ArrayBuffers.
CONSTANTS
    Keys = {k1, k2, k3}
    Vals = {k1, k2, k3}
    Hashes = {p, q}
    Mutable = {k1}
    Arrays = {a, b}
    Own = Own
    None = None
SYMMETRY Symmetry
SPECIFICATION BufferSpec
INVARIANTS
    TypeOK
    MappedStaysFound
    BoundInv
    GarbageBounded
    MemoryLive
    SameArrayBuffer
CHECK_DEADLOCK FALSE
