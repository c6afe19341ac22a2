SPECIFICATION Spec
CONSTANTS
    MaxPolicies = 1
    MaxBudget = 2
    MaxClock = 3
    Steady = TRUE
    ConfigErrors = {"state_invalid"}
    KeyErrors = {"resource_limit"}
    CarrierErrors = {"credential_expired", "internal_error"}
INVARIANT DenialIsSilent
CHECK_DEADLOCK FALSE
