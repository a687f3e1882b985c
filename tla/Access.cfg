SPECIFICATION FairSpec
CONSTANTS
    p1 = p1
    p2 = p2
    NULL = NULL
    EMPTY = EMPTY
    Runs <- TwoRuns
    Attempts <- TwoAttempts
    Overlapping = FALSE
    MaxFaulty = 2
INVARIANTS
    TypeOK
    ForgottenOnlyByFault
    ReadyCanBeClosed
PROPERTIES
    MigrationRuleGoes
    ScriptsEnd
CHECK_DEADLOCK FALSE
