SPECIFICATION Spec
CONSTANTS
    None = None
    Outputs = {1}
    Names = {"DP-1", "DP-2"}
    NameOf <- MCNameOf
    Offered = {0, 7, 9}
    Levels = {40}
    MaxOutgoing = 1
    MaxIncoming = 2
    MaxWire = 3
INVARIANTS
    TypeOK
    ReportMatchesFrame
    FramesFollowAcks
    ClosedNeverSurvivesDispatch
