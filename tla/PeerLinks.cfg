CONSTANTS
    a = a
    b = b
    Node <- MCNode
    Bootstrap <- MCBootstrap
    Advertises <- MCAdvertises
    Told <- MCTold
    max_inbound = 1
    target_outbound = 2
    DialAttempts = 2
    MAX_INFLIGHT_DIALS = 2
    MaxConn = 2
    Budgets <- MCBudgets
SPECIFICATION FairSpec
INVARIANTS ListedIsRead BannedStaysOut
PROPERTIES Converges
CHECK_DEADLOCK FALSE
