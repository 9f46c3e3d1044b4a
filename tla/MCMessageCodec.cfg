SPECIFICATION CodecSpec
CONSTANTS
    NodeID = {n1, n2, n3}
    NilClock = NilClock
    NilMessage = NilMessage
    MaxInt64 = 1
    MaxMessageSize = 16
    MaxPayloadSize = 15
    MaxMapPairs = 2
    EntrySize = 1
    MetadataKeys = {k1, k2, k3}
    Payloads <- MCPayloads
    AdjustValues <- MCAdjustValues
SYMMETRY Symmetry
INVARIANTS
    CodecTypeOK
    RoundTripKeepsMeaning
    MarshalledIsReadable
