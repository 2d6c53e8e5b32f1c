\* A client that waits for nothing while answers are late or refused, its
\* view reaches the other region, regions despawn entities and shadows, and
\* the edge's game spawns and releases entities of its own.
CONSTANTS
    Client = {c1}
    Handle = {h1}
    Region = {r1, r2}
    None = None
    MaxKeys = 2
    MaxWords = 0
    MaxEvents = 2
    Commands = {"despawn", "teleport", "hasty"}
    Events = {"late", "refuse", "cross", "despawn", "view", "spawn", "release"}
SPECIFICATION Spec
CHECK_DEADLOCK FALSE
SYMMETRY Symmetry
INVARIANTS
    RecordsAgree
    ShadowsListed
