SPECIFICATION FairSpec
CONSTANTS
    r1 = r1
    r2 = r2
    r3 = r3
    NULL = NULL
    Requests <- TwoRequests
    Inputs <- MainPaths
    CostCenters = {"cc1"}
    PolicyChoices <- ReviewOrDeny
    UsageReports <- FaultyUsages
    ModelNames <- MCModelNames
    Normalised <- MCNormalised
    Catalog <- MCCatalog
    Deployments <- Priced
    ConfiguredProviders = {"mock", "azure-openai"}
    MaxRetries = 1
    MaxInFlight = 2
    MaxMonth = 1
    MaxPolicyChanges = 0
    MaxRestarts = 0
    MaxFaults = 2
PROPERTIES
    RequestsEnd
    ShutdownEnds
CHECK_DEADLOCK FALSE
