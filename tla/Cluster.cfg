SPECIFICATION Spec
CONSTANTS
    None = None
    n1 = n1
    n2 = n2
    t1 = t1
    t2 = t2
    s1 = s1
    s2 = s2
    s3 = s3
    Nodes = {n1, n2}
    Tasks = {t1, t2}
    Streams = {s1, s2, s3}
    Droppable = {s2}
    Home <- MCHome
    Topic <- MCTopic
    Topics <- MCTopics
    Setups <- MCSetups
    Offers <- MCOffers
    Decodable = {"u", "", "w"}
    Updates = {"u", ""}
    Foreigns <- MCForeigns
    Garbage = Garbage
    Capacity = 1
    MaxAccepted = 2
    Faults = 1
INVARIANTS StreamsYieldWhatWasSent DocIsWhatWasAccepted
PROPERTIES ImplementsContract NothingOwedForever
