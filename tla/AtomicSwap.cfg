CONSTANTS
    lock_time_secs = 8
    max_age = 1
    Skew = 1
    Reaction = 1
    DepositLocks = {15, 16, 17}
    MaxTime = 20
    is_evm <- Igra
    uses_synthetic_clock <- Igra
SPECIFICATION Spec
INVARIANTS SwapIsAtomic
PROPERTIES LegsAreEscrows
CHECK_DEADLOCK FALSE
