CONSTANTS
    t = t
    l = l
    o = o
    Node <- MCNode
    Taker = t
    Lp <- MCLp
    Links <- MCLinks
    cap = 3
    MaxAsk = 2
    MaxCut = 1
SPECIFICATION FairSpec
INVARIANTS HandledOnce SecretNeedsCounter
PROPERTIES FloodEnds RevealSpreads DirectIsAnswered
CHECK_DEADLOCK FALSE
