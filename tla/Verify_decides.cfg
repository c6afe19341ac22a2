SPECIFICATION Spec
CONSTANTS
    MaxPolicies = 2
    MaxBudget = 1
    MaxClock = 2
    Steady = FALSE
    ConfigErrors = {"state_invalid"}
    KeyErrors = {"resource_limit"}
    CarrierErrors = {"credential_expired", "internal_error"}
PROPERTY Decides
CHECK_DEADLOCK FALSE
