SPECIFICATION Spec
CONSTANTS
    None = None
    All = All
    Names <- PairNames
    HardwareMin = 30
    Resolution <- PairResolution
    Clients = {c1}
    Requests <- PairRequests
    Foreign <- PairForeign
    SocketActivated = FALSE
INVARIANTS
    SetLands NotFoundIsUnlisted
