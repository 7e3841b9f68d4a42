\* A buffer is mapped, written to, and looked up.
CONSTANTS
    Keys = {k1}
    Vals = {x, y}
    Hashes = {p, q}
    Mutable = {k1}
    None = None
SYMMETRY Symmetry
SPECIFICATION Spec
INVARIANTS
    BufferStaysFound
