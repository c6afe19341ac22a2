SPECIFICATION FairSpec
CONSTANTS
    MaxPolicies = 3
    MaxBudget = 2
    MaxClock = 3
    Steady = TRUE
    ConfigErrors = {"state_invalid"}
    KeyErrors = {"resource_limit"}
    CarrierErrors = {"credential_expired", "internal_error"}
INVARIANTS TypeOK LineIsUnambiguous AuditIsTruthful SelectionMatchesVerdicts InterruptionIsReal StopsPromptly OneAuditEvent
PROPERTY Termination
CHECK_DEADLOCK FALSE
