SPECIFICATION Spec
CONSTANTS
    None = None
    DrmEntries <- LaptopEntries
    BusOf <- LaptopBus
    Linked <- PanelLinked
    Backlights = {"acpi_video0", "intel_backlight"}
    Parent <- PanelParent
    Panels = {"laptop", "dell1", "dell2"}
    EdidOf <- Edid
    Monitors = {"dell1", "dell2"}
INVARIANTS
    TypeOK OutputsReachThemselves OrderDoesNotMatter
PROPERTIES
    NothingIsLost
