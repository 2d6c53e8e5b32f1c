\* Two entity ids, one viewer id, and four operations of the game, past the
\* corner of the region and within it.
CONSTANTS
    IntMax = 31
    RegionIds = 8
    None = None
    RegionSize = 16
    VerticalExtent = 8
    ViewRadius = 4
    MaxSpeed = 20
    TickHz = 20
    SubAxis = 2
    SubThreshold = 2
    Targets <- MCTargets
    Strides <- MCStrides
    Homes <- MCHomes
    Tags = {0, 1}
    Names = {k1}
    Region = r1
    Periods = {2}
    WalkCap = 1
    TagBump = 4
    ReadingMod = 1000
    TickMod = 2
    MaxSlots = 2
    MaxViewers = 1
    MaxOps = 4
SPECIFICATION Spec
INVARIANTS SnapshotGathers ViewKnown RegistrySound
PROPERTIES CellChangesReported
