\* Five entities, tables of no, four and eight slots, up to four ghosts.
CONSTANTS
    HashRange = 16
    Id <- Products
    Mark = {m1, m2}
    MinSlots = 4
    MaxSlots = 8
    None = None
SPECIFICATION FairSpec
INVARIANTS
    TableSound
PROPERTIES
    ImplementsGhosts
    OperationsEnd
