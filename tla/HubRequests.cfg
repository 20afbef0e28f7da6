SPECIFICATION Spec
CONSTANTS
    None = None
    s1 = s1
    s2 = s2
    Sessions = {s1, s2}
    Channels <- MCChannels
    Payloads = {"json", "update", ""}
    Updates = {"update"}
    Tokens <- MCTokens
    Requests <- MCRequests
    Configs <- MCConfigs
    MaxHistory = 1
INVARIANTS
    FramesSurviveTheWire AnswersAreTruthful SubscriptionsAuthorized
    NothingBypassesTheGates KindCountsSubscribers AclFirstMatch
