CONSTANTS
    participate_ccr = TRUE
    Capacity = 1
    MaxGossip = 1
    MaxCrashes = 0
SPECIFICATION FairSpec
PROPERTY UnderpaidIsRefunded
CHECK_DEADLOCK FALSE
