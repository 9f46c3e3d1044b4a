SPECIFICATION FairSpec
CONSTANTS
    Threads = {t1, t2}
    NoThread = NoThread
    Addrs = {a1, a2}
    Cap = 1
    MaxDials = 3
INVARIANTS
    DialedOnceInOrder
    CloseIsFinal
    NilOnlyWhenDrained
PROPERTY CallsReturn
