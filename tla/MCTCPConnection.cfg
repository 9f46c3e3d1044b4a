SPECIFICATION FairSpec
CONSTANTS
    Threads = {"s1", "s2", "t"}
    NoThread = NoThread
    Messages <- MCMessages
    Invalid = Invalid
    OutOfRange = OutOfRange
    ByteSize = 4
    MaxMessageSize <- MCMaxMessageSize
    Uses <- MCUses
    Window = 3
    MaxSends = 2
INVARIANTS
    TypeOK
    ReceivedAsSent
    SentCanBeRead
PROPERTIES
    NothingAfterTorn
    ClosedEndsEveryCall
    FlagClosesSocket
