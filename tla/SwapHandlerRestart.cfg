CONSTANTS
    MaxCrashes = 1
SPECIFICATION FairSpec
PROPERTIES LpClaimsItsLeg
CHECK_DEADLOCK FALSE
