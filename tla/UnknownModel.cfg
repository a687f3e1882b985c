SPECIFICATION Spec
CONSTANTS
    r1 = r1
    r2 = r2
    r3 = r3
    NULL = NULL
    Requests <- TwoRequests
    Inputs <- UnknownModel
    CostCenters = {"cc1"}
    PolicyChoices <- OnePolicy
    UsageReports <- OneUsage
    ModelNames <- MCModelNames
    Normalised <- MCNormalised
    Catalog <- MCCatalog
    Deployments <- Priced
    ConfiguredProviders = {"mock", "azure-openai"}
    MaxRetries = 0
    MaxInFlight = 2
    MaxMonth = 1
    MaxPolicyChanges = 0
    MaxRestarts = 0
    MaxFaults = 0
SYMMETRY Symmetry
INVARIANTS
    AllowsAreUsed
CHECK_DEADLOCK FALSE
