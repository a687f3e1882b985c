SPECIFICATION Spec
CONSTANTS
    r1 = r1
    r2 = r2
    r3 = r3
    NULL = NULL
    Requests <- TwoRequests
    Inputs <- EveryPath
    CostCenters = {"cc1"}
    PolicyChoices <- TightLimits
    UsageReports <- FaultyUsages
    ModelNames <- MCModelNames
    Normalised <- MCNormalised
    Catalog <- MCCatalog
    Deployments <- Priced
    ConfiguredProviders = {"mock", "azure-openai"}
    MaxRetries = 2
    MaxInFlight = 2
    MaxMonth = 1
    MaxPolicyChanges = 0
    MaxRestarts = 1
    MaxFaults = 2
SYMMETRY Symmetry
INVARIANTS
    TypeOK
    AuditChain
    ExecutionsAuthorised
    RepliesMatchAudit
PROPERTY
    KeepsPromise
CHECK_DEADLOCK FALSE
