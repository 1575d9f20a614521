SPECIFICATION EvaluationSpec
CONSTANTS
    NONE = NONE
    None = None
    NoClient = NoClient
    SchemaInvalid = SchemaInvalid
    ApiUnavailable = ApiUnavailable
    Unexpected = Unexpected
    PolicyConfig <- MCConfig
    Horizons <- MCHorizons
    EodMinute = 3
    Frames <- MCFrames
    Situations <- MCSituations
    Answers <- MCAnswers
    Analyses <- MCAnalyses
    Healths = {"healthy", "degraded"}
    Tables <- MCTables
    Bars <- MCBars
    MaxBars = 3
INVARIANTS
    MirrorImage
    TradesOnlyAsFirstAdvised
    PolicyOnlyTightens
PROPERTIES
    VerdictStands
CHECK_DEADLOCK FALSE
