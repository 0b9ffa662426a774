SPECIFICATION Spec
CONSTANTS
    Builders = {b1, b2}
    Readers = {server}
    Contents = {old, new}
    Vectors = {v}
    Missing = Missing
    MaxEdits = 1
    MaxMishaps = 1
SYMMETRY BuilderSymmetry
INVARIANTS
    PointerLeadsToVersion
    BoundVersionsStay
PROPERTIES
    VersionsAreImmutable
CHECK_DEADLOCK FALSE
