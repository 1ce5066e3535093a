SPECIFICATION Spec
CONSTANTS
    None = None
    All = All
    Names <- OneNames
    HardwareMin = 50
    Resolution <- OneResolution
    Clients = {c1}
    Requests <- OneRequests
    Foreign <- OneForeign
    SocketActivated = FALSE
INVARIANTS
    TypeOK CacheHonest SetLands NoOvershoot NotFoundIsUnlisted
PROPERTIES
    ReconnectNeverDims RefreshNeverDims
