\* A client that leaves while its one entity is in transit.
CONSTANTS
    Client = {c1}
    Handle = {h1}
    Region = {r1, r2}
    None = None
    MaxKeys = 2
    MaxWords = 0
    MaxEvents = 0
    Commands = {"leave", "teleport"}
    Events = {}
SPECIFICATION Spec
CHECK_DEADLOCK FALSE
SYMMETRY Symmetry
INVARIANTS
    NeverPanics
