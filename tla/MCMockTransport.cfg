SPECIFICATION FairSpec
CONSTANTS
    Threads = {t1, t2}
    NoThread = NoThread
    Cap = 1
    MaxListens = 2
    MaxDials = 2
    MaxMsgs = 3
    Limits <- MCLimits
INVARIANTS
    TypeOK
    OnlyPeekReorders
    DialedAreDelivered
PROPERTIES
    ReleasedByClose
    OnlyPeekBlocksClose
\* A panic ends the program, and PeekMessage may wait for ever.
CHECK_DEADLOCK FALSE
