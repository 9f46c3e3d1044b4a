SPECIFICATION Spec
CONSTANTS
    Threads = {t1, t2}
    NoThread = NoThread
    MaxMsgs = 1
INVARIANT SendNeverPanics
