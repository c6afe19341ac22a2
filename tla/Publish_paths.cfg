SPECIFICATION FairSpec
CONSTANTS
    p1 = p1
    p2 = p2
    Procs = {p1, p2}
    Pids = {1}
    MaxAttempts = 2
    Full = 2
    None = None
    MaxTampering = 1
    MaxCrashes = 1
INVARIANTS TypeOK TargetIsWhole OwnTemporary SuccessIsDurable NoLeftover
PROPERTIES PublishesAtomically NoClobber EveryCallReturns
CHECK_DEADLOCK FALSE
