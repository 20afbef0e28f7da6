SPECIFICATION Spec
CONSTANTS
    None = None
    a1 = a1
    a2 = a2
    a3 = a3
    Addresses = {a1, a2, a3}
    Configs <- MCConfigs
    Clients = 2
INVARIANTS
    ListeningMeansServing
    ExitTellsWhy
PROPERTIES
    StopsWhenItShould
    StartSettles
