\* The loop, the edge that asks and the link share no state but the heartbeat:
\* they run alone with the bounds each needs, and together (MCSetups).
CONSTANTS
    IntMax = 63
    RegionIds = 8
    None = None
    Malformed = Malformed
    PayloadBytes = 40
    HeaderBytes = 16
    EventReserve = 8
    MaxFrame = 64
    MaxMessage = 36
    Period = 4
    Pacings <- MCPacings
    Oversleeps = {1, 5}
    Costs = {1, 9}
    Pauses = {0, 2}
    Viewers = {3}
    Intervals = {0, 1}
    MostNanos = 8
    Region = {1, 2}
    Edge = {e1, e2}
    Meter = 2
    OurVersion = 1
    MapVersion = 1
    Deployments <- MCDeployments
    Calls <- MCCalls
    Reports = {0, 1, 3}
    Failed = Failed
    MaxTrouble = 1
    Setups <- MCSetups
SYMMETRY Edges
SPECIFICATION Spec
CHECK_DEADLOCK FALSE
INVARIANTS TypeOK TicksAccounted WorldsAgree BatchesArrive
