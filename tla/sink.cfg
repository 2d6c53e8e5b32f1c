\* The tick thread and one that sends share a table over one slot and three
\* admissions, so that it changes hands while a subject is looked up.
CONSTANTS
    EdgeName = {n1, n2}
    Entity = {e1}
    MaxSlots = 1
    MaxAccepted = 3
    None = None
    ViewerId = {v1}
    Sender = {s1}
SPECIFICATION SinkSpec
SYMMETRY Symmetry
INVARIANTS
    SubjectsCurrent
    SubjectMet
