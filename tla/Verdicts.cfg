SPECIFICATION Spec
CONSTANTS
    r1 = r1
    r2 = r2
    r3 = r3
    NULL = NULL
    Requests <- ThreeRequests
    Inputs <- Allowed
    CostCenters = {"cc1"}
    PolicyChoices <- TwoPolicies
    UsageReports <- OneUsage
    ModelNames <- MCModelNames
    Normalised <- MCNormalised
    Catalog <- MCCatalog
    Deployments <- PricedAndUnpriced
    ConfiguredProviders = {"mock", "azure-openai"}
    MaxRetries = 0
    MaxInFlight = 2
    MaxMonth = 2
    MaxPolicyChanges = 2
    MaxRestarts = 1
    MaxFaults = 0
SYMMETRY Symmetry
INVARIANTS
    UnknownCostHoldsMonth
    VerdictsNeverRelax
CHECK_DEADLOCK FALSE
