\* Two names of one client in one region: it spawns, despawns and leaves,
\* waiting for answers or not, and the region's game despawns one of its
\* own accord.  Three keys: one name is spawned again after it was given
\* back.
CONSTANTS
    Client = {c1}
    Handle = {h1, h2}
    Region = {r1}
    None = None
    MaxKeys = 3
    MaxWords = 0
    MaxEvents = 1
    Commands = {"despawn", "leave", "hasty"}
    Events = {"despawn"}
SPECIFICATION Spec
CHECK_DEADLOCK FALSE
INVARIANTS
    ClientsAgree
    NothingLeftBehind
