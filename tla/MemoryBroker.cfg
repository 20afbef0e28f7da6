SPECIFICATION FairSpec
CONSTANTS
    Publishers = {p1, p2}
    Subscribers = {s1, s2}
    RingSize = 2
    Publications = {m1, m2, m3, m4}
    MaxSenders = 2
    None = None
INVARIANTS LossIsCounted
PROPERTIES ReapSparesOpenStreams ImplementsContract OrphanedStreamEnds
