SPECIFICATION Spec
CONSTANTS
    Publishers = {p1, p2}
    Payloads = {a, b}
    HistorySize = 2
    HistoryTtl = 1
    U64Max = 4
    MaxTime = 4
    MaxAccepted = 5
SYMMETRY Symmetry
INVARIANTS TypeOK HistoryIsLatest RingInOrder ReplayHasNoHole ReplayWithinTtl
