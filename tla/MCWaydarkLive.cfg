SPECIFICATION Spec
CONSTANTS
    None = None
    Outputs = {1, 2}
    Names = {"model"}
    NameOf <- SameNameOf
    Offered = {7}
    Levels = {40}
    MaxOutgoing = 2
    MaxIncoming = 1
    MaxWire = 2
PROPERTIES
    ImplementsSoftwareDimming
    EventuallyShown
    ClosedIsNoticed
