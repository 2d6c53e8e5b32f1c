\* One entity and its copy, two messages, a teleport or crossings by itself,
\* which the destination may refuse.  Regions are told apart: the liveness
\* property rules symmetry out.
CONSTANTS
    Client = {c1}
    Handle = {h1}
    Region = {r1, r2}
    None = None
    MaxKeys = 2
    MaxWords = 2
    MaxEvents = 2
    Commands = {"say", "teleport"}
    Events = {"refuse", "cross"}
SPECIFICATION FairSpec
CHECK_DEADLOCK FALSE
INVARIANTS
    EntitiesKept
    ClientsAgree
    HeldNotLost
    EdgeMatchesRegions
PROPERTIES
    AwaitedEnd
