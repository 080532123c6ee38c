SPECIFICATION Spec
CONSTANTS
    Request = {r1, r2}
    Version = {v1, v2}
    None = None
    Ttl = 2
    ReadTicks = 1
    Horizon = 4
INVARIANTS
    TypeOK
PROPERTIES
    StatusShows
    SpecShows
SYMMETRY RequestSymmetry
