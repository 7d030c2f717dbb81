CONSTANTS
    Swaps = {s1}
    participate_ccr = TRUE
    Emitters = {"driver"}
    MaxEmits = 1
    MaxCrashes = 1
SPECIFICATION FairSpec
PROPERTIES ScheduledIsSettled ClaimReachesDisk
CHECK_DEADLOCK FALSE
