SPECIFICATION Spec
CONSTANTS
    Threads = {t1, t2}
    NoThread = NoThread
    Addrs = {a1}
    Cap = 1
    MaxDials = 1
SYMMETRY ThreadSymmetry
INVARIANT DialReturnsError
