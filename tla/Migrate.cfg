SPECIFICATION FairSpec
CONSTANTS
    p1 = p1
    p2 = p2
    NULL = NULL
    Runners <- TwoRunners
    Names <- MCNames
    Malformed = {"mis-named"}
    MaxVersion = 3
    Checkouts <- AllCheckouts
    Baseline = "initial_schema"
    MaxDowns = 1
INVARIANTS
    TypeOK
    LedgerMatchesSchema
    SuccessMeansSchema
PROPERTIES
    KeepsLedger
    RunsEnd
