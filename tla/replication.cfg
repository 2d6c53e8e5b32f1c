\* Three entities, one of them out of view at first; a ghost set of two, and
\* readings that wrap after two units.
CONSTANTS
    IntMax = 31
    RegionIds = 8
    None = None
    Malformed = Malformed
    PayloadBytes = 40
    HeaderBytes = 16
    EventReserve = 8
    MaxFrame = 64
    MaxMessage = 4096
    RegionSize = 16
    VerticalExtent = 8
    ViewRadius = 4
    MaxSpeed = 20
    TickHz = 20
    Entity = {0, 1, 2}
    ViewerAt = 1
    Places = {1, 2, 9}
    Start <- MCStart
    FirstReading = 62
    GhostCap = 2
    Grace = 1
    UnseenDrift = 4
    Refresh = 2
    NearBand = 0
    WeightBits = 2
    KHalves = 2
    DistShift = 0
    ScoreMax = 20
    ReadingMod = 64
    TickMod = 4
    SequenceMod = 4
    MaxTrouble = 3
    MaxFlight = 2
SPECIFICATION ReplicationSpec
INVARIANTS DriftBoundsError PacketFits
PROPERTY ErrorIsTemporary
