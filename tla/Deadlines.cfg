SPECIFICATION Spec
CONSTANTS
    WriteTimeout <- Write
    AttemptTimeout <- Attempt
    MaxRetries = 2
    MaxPause <- Pause
    Horizon = 32
INVARIANTS
    TypeOK
    HandlerBounded
    LostOnlyIfSlow
CHECK_DEADLOCK FALSE
