SPECIFICATION Spec
CONSTANTS
    Publishers = {p1, p2}
    Subscribers = {s1}
    None = None
    Publications = {0, 1, 2, 3}
    RingSize = 2
    MaxSenders = 5
    HistorySize = 2
    U64Max = 9
SYMMETRY Symmetry
INVARIANTS ResumeHasNoHole NoRepeatWithinPath AckCoversReplay
