SPECIFICATION FairSpec
CONSTANTS
    MaxVersions = 2
    MaxBlocks = 2
    Fifos = {"configuration"}
PROPERTY LoadReturns
CHECK_DEADLOCK FALSE
