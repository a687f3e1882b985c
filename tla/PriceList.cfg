SPECIFICATION Spec
CONSTANTS
    Spellings <- MCSpellings
    Trim <- MCTrim
    Lower <- MCLower
    BLANK = ""
    Prices <- MCPrices
    Lists <- MCLists
INVARIANTS
    TypeOK
    FinOpsAssumptions
    EveryRateIsFound
    RefusedForReason
CHECK_DEADLOCK FALSE
