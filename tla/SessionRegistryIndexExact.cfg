SPECIFICATION Spec
CONSTANTS
    Channels = {c1}
    Tasks = {t1, t2}
    Forwarders = {f1, f2}
    MaxSessions = 2
    Sequential = {0, 1}
    None = None
SYMMETRY Symmetry
INVARIANT IndexIsExact
