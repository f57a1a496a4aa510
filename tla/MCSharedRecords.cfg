\* Two stores that both update a record, as an agent that was given no store does.
SPECIFICATION Spec
CONSTANTS
    Stores = {s1, s2}
    Ids = {i1}
    Agents = {a1, a2}
    None = None
    OwnerOnly = FALSE
SYMMETRY MCSymmetry
PROPERTIES
    LineageKept
