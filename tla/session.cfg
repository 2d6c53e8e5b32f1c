\* Two edges and three admissions, so that a slot changes hands while commands
\* with its id are queued; the game despawns entities of earlier steps, before
\* apply and after it.
CONSTANTS
    EdgeName = {n1, n2}
    Entity = {0, 1}
    MaxSlots = 2
    MaxAccepted = 3
    None = None
    MaxEntities = 2
    MaxCommands = 2
    GameDespawns = "earlier"
SPECIFICATION FairSpec
INVARIANTS
    RegistryAgrees
    SessionAgrees
PROPERTIES
    ImplementsOwnership
    SilentDropped
    AnswersTrue
    OrphansLeave
