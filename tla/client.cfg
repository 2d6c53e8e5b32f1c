\* Three calls of two threads, of eight kinds, read whole or cut after 23
\* bytes, or five packets of two regions and words of the edge, one packet lost
\* or overtaken, or some of both: a call costs a third of MaxWork, a packet a
\* fifth.
CONSTANTS
    IntMax = 31
    RegionIds = 8
    None = None
    Malformed = Malformed
    PayloadBytes = 40
    HeaderBytes = 16
    EventReserve = 8
    MaxFrame = 64
    MaxMessage = 4096
    Thread = {t1, t2}
    Calls = {1, 3, 7, 9, 10, 13, 14, 15}
    MaxHandle = 1
    MaxMoves = 2
    PerBatch = 1
    Body <- MCBody
    Chunks = {23, 100}
    Region = {1, 2}
    Name = {1}
    SquareOf <- MCSquareOf
    RegionSize = 16
    VerticalExtent = 8
    LocalAt <- MCLocalAt
    MaxWork = 15
    CallCost = 5
    PacketCost = 3
    MaxFaults = 1
SYMMETRY Threads
SPECIFICATION Spec
CHECK_DEADLOCK FALSE
INVARIANTS TypeOK StreamHeard HandlesSpentOnce ViewIsSent NothingLingers
