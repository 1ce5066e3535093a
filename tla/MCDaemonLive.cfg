SPECIFICATION Spec
CONSTANTS
    None = None
    All = All
    Names <- OneNames
    HardwareMin = 50
    Resolution <- LiveResolution
    Clients = {c1, c2}
    Requests <- LiveRequests
    Foreign <- LiveForeign
    SocketActivated = TRUE
PROPERTIES
    EveryRequestAnswered OverlaysComeBack
