\* Two viewers and two payloads each: one stashed, one superseding it or lost
\* to a slot that is held.  All stops once the hand-off is dropped.
CONSTANTS
    Viewers = 2
    MaxFrames = 2
    NoPayload = NoPayload
SPECIFICATION FairSpec
CHECK_DEADLOCK FALSE
INVARIANTS
    SlotsAgree
    EndsEmpty
PROPERTIES
    ImplementsMailbox
    NothingWaits
