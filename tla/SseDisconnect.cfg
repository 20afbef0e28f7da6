CONSTANTS
    None = None
    NoInput = NoInput
    r1 = r1
    r2 = r2
    a1 = a1
    a2 = a2
    Requests = {r1}
    AdminCalls = {}
    Inputs <- MCInputs
    AdminInputs <- MCAdminInputs
    Configs <- MCConfigs
SPECIFICATION Spec
PROPERTIES DisconnectReleasesSession
