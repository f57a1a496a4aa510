\* Two stores, two states, two consumers: runs, whose agents share their store.
SPECIFICATION Spec
CONSTANTS
    Stores = {s1, s2}
    Ids = {i1, i2}
    Agents = {a1, a2}
    None = None
    OwnerOnly = TRUE
SYMMETRY MCSymmetry
INVARIANTS
    TypeOK
    LineageClosed
    PayloadBeforeRecord
    JournalTrails
PROPERTIES
    KnownBlobKept
    ImplementsRegistry
