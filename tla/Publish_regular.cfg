SPECIFICATION Spec
CONSTANTS
    p1 = p1
    p2 = p2
    Procs = {p1, p2}
    Pids = {1}
    MaxAttempts = 2
    Full = 2
    None = None
    MaxTampering = 1
    MaxCrashes = 1
PROPERTY OnlyRegularReplaced
CHECK_DEADLOCK FALSE
