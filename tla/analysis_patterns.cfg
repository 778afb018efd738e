\* An operator's own pattern instead of the sample configuration's; every message of up to two characters.
SPECIFICATION AnalysisSpec
CONSTANTS
    MaxChars = 2
    Contents <- MCContents
    TokenHits = {0}
    Patterns <- MCOtherPatterns
    SoftChars = 5  HardChars = 6  MaxRepetition = 4
    MemoryLimit = 14  ExtremeBytes = 12  MaxStamps = 3
    FuelLimit = 8  FittingStamps = 3
    ActionPolicy = "ReactOrSend"  MaxCountCap = 3  ReactionValid = TRUE
    TemplateRenders = TRUE  Sendable = {"SendPhrase", "SendTemplate"}
INVARIANT PatternsDecide
CHECK_DEADLOCK FALSE
