CONSTANTS
    Blocks = {a, b}
    minimum_block_confirmations = 2
    max_blocks_per_poll = 2
    MaxHeight = 6
    MaxReorgs = 1
    MaxCrashes = 1
    NoCursor = NoCursor
SPECIFICATION PollFairSpec
INVARIANTS TrackedIsFinal TrackedExactlyOnce
PROPERTIES ConfirmedIsHanded
