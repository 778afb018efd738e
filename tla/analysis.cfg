\* Every message of up to four characters, and some of five and six; the limits are low enough for each to be reached.
SPECIFICATION AnalysisSpec
CONSTANTS
    MaxChars = 4
    Contents <- MCContents
    TokenHits = {0, 1, 2}
    Patterns <- MCDefaultPatterns
    SoftChars = 5  HardChars = 6  MaxRepetition = 4
    MemoryLimit = 14  ExtremeBytes = 12  MaxStamps = 3
    FuelLimit = 8  FittingStamps = 3
    ActionPolicy = "ReactOrSend"  MaxCountCap = 3  ReactionValid = TRUE
    TemplateRenders = TRUE  Sendable = {"SendPhrase", "SendTemplate"}
INVARIANTS AnalysisTypeOK CountsWholeSequences DecidesLikePlainAnalysis TimeoutsAreLong
CHECK_DEADLOCK FALSE
