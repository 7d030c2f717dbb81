SPECIFICATION MCSpec
CONSTANTS
    SOLVER_REWARD = 10000000
    NoHash = NoHash
    us = us
    other = other
    taker = taker
    deposit = deposit
    long = long
    counter = counter
    x1 = x1
    x2 = x2
    x3 = x3
    h1 = h1
    h2 = h2
    h3 = h3
    Commitments <- MCCommitments
    Secret <- MCSecret
    Sha256 <- MCSha256
    Wallet <- MCWallet
    Deposits <- MCDeposits
    FeeRates <- MCFeeRates
    Clock <- MCClock
    coinbase_maturity = 1
    Budgets <- MCBudgets
    participate_ccr = TRUE
    Capacity = 1
    MaxGossip = 2
    MaxCrashes = 1
INVARIANTS SpendsAreSeen OwnSpendsAreValid SettlerNeverStarves
           CursorPassesHanded StaysSettleable
PROPERTIES HtlcIsEscrow ScheduledIsSpent
CHECK_DEADLOCK FALSE
