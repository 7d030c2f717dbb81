CONSTANTS
    Swaps = {s1}
    participate_ccr = TRUE
    Emitters = {"driver", "peer"}
    MaxEmits = 1
    MaxCrashes = 1
    Actions <- MCActions
    Prices = {100, 110}
    MAX_GAS_PRICE = 130
    MAX_GAS_BUMPS = 1
    Scenarios <- MCScenarios
SPECIFICATION MCSpec
INVARIANTS OpenIsNotForgotten
           OneLiveTransaction BumpIsAccepted NoNonceGap
CHECK_DEADLOCK FALSE
