SPECIFICATION Spec
CONSTANTS
    None = None
    HardwareMins <- AllMins
    Texts <- MCTexts
INVARIANTS
    TypeOK
    ReportsWhatWasAsked
    FactorsMove
    SplitIsMonotone
