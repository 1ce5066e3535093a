SPECIFICATION SystemSpec
CONSTANTS
    None = None
    Outputs = {1}
    Names = {"DP-1"}
    NameOf <- OneNameOf
    Offered = {0, 7}
    Levels = {40, 70}
    MaxOutgoing = 2
    MaxIncoming = 1
    MaxWire = 3
INVARIANTS
    OkIsOnItsWay
PROPERTIES
    PausesSuffice
