\* Two media, two removals, one reader, on both drivers.
SPECIFICATION Spec
CONSTANTS
    m1 = m1  m2 = m2  v1 = v1  v2 = v2  d1 = d1
    Medium = {m1, m2}
    Remover = {v1, v2}
    Reader = {d1}
    Drivers = {"local", "s3"}
    None = None
    MaxFaults = 3
SYMMETRY Symmetry
INVARIANTS MediaInv OrphansExplained RowHasObject
PROPERTY RowOutlivesObject
CHECK_DEADLOCK FALSE
