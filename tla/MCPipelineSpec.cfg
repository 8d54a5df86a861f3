CONSTANTS
    Stage <- MCStage
    NoExt = NoExt
    MaxStages = 5
SPECIFICATION LoopSpec
INVARIANTS VerdictIsRules
PROPERTIES GivesVerdict
CHECK_DEADLOCK FALSE
