SPECIFICATION Spec
CONSTANTS
    None = None
    HardwareMins <- SomeMins
    Texts <- EdgeTexts
INVARIANT DeltasKeepTheirDirection
