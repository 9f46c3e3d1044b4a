SPECIFICATION FairSpec
CONSTANTS
    Threads = {t1, t2}
    Addrs = {a1, a2}
    MaxDials = 2
    MaxAccepts = 2
INVARIANTS
    TypeOK
    OneLossPerCancel
    CloseLeavesOnly
PROPERTY CloseEndsAccepts
