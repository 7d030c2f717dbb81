SPECIFICATION MCSpec
CONSTANTS
    Channels <- MCChannels
    Symbols = {"KAS"}
    Symbol <- MCSymbol
    Unit <- MCUnit
    LockTime <- MCLockTime
    Faulty = {"mexc"}
    Market = {100, 160}
    FaultyPrices = {0, 120}
    Volumes <- MCVolumes
    MAX_AGE = 1
    FETCH_TIME = 1
    MIN_SOURCES = 2
    SpreadPercent = 2900
    spread_bps = 28
    MIN_USD = 700
    MAX_USD = 2000
    COMMIT_BUFFER = 1
    Requests <- MCRequests
    Balances = {0, 1000}
    Utxos <- MCUtxos
    Evm = {"igra"}
    Confirmations <- MCConfirmations
    MaxTime = 3
    Calls = {"c1", "c2"}
    Listeners = {"l1", "l2"}
    Pages <- MCPages
    MaxEvents = 2
    MaxPeers = 1
    default_commit_buffer_secs = 2
    Configs <- MCConfigs
    Ids = {"s1"}
    Bodies = {"b1", "b2"}
    Peers = {"p1"}
    MaxCursor = 1
    MaxBoots = 2
INVARIANTS PricedNearMarket LpKeepsItsSpread QuoteIsHonoured
           EarlyListenersMissNothing MemoryIsWhatWasStored RunningLpIsWhole
CHECK_DEADLOCK FALSE
