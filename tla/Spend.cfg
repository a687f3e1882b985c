SPECIFICATION Spec
CONSTANTS
    r1 = r1
    r2 = r2
    r3 = r3
    NULL = NULL
    Requests <- ThreeRequests
    Inputs <- AllowedTwoCostCenters
    CostCenters = {"cc1", "cc2"}
    PolicyChoices <- OrDisabled
    UsageReports <- OneUsage
    ModelNames <- MCModelNames
    Normalised <- MCNormalised
    Catalog <- MCCatalog
    Deployments <- Priced
    ConfiguredProviders = {"mock", "azure-openai"}
    MaxRetries = 0
    MaxInFlight = 2
    MaxMonth = 2
    MaxPolicyChanges = 0
    MaxRestarts = 0
    MaxFaults = 0
SYMMETRY Symmetry
INVARIANTS
    DecisionsCountAnsweredCharges
    OvershootBounded
CHECK_DEADLOCK FALSE
