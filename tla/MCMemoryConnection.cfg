SPECIFICATION FairSpec
CONSTANTS
    Threads = {t1, t2}
    NoThread = NoThread
    MaxMsgs = 2
INVARIANTS
    NoLostWakeup
    DrainedBeforeClosed
    AckedNotLost
PROPERTIES
    ImplementsChannel
    SendAndCloseReturn
    RecvReturns
