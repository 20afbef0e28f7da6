SPECIFICATION FairSpec
CONSTANTS
    Channels = {c1}
    Tasks = {t1, t2}
    Forwarders = {f1, f2, f3}
    MaxSessions = 2
    Sequential = {0}
    None = None
INVARIANTS TypeOK NoOrphanForwarder IndexNamesSubscribers
PROPERTY ClosedSessionsDrain
