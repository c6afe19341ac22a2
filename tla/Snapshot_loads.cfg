SPECIFICATION FairSpec
CONSTANTS
    MaxVersions = 2
    MaxBlocks = 3
    Fifos = {"jwks"}
INVARIANTS KeysCoverConfiguration
PROPERTIES SnapshotStood LoadReturns
CHECK_DEADLOCK FALSE
