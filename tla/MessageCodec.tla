---------------------------- MODULE MessageCodec ----------------------------
(***************************************************************************)
(* Messages that carry a clock, and their two serializers (package         *)
(* message).  A sender keeps a clock and builds messages from it, one at a *)
(* time; Marshal and Unmarshal are functions of a message and of bytes.    *)
(*                                                                         *)
(* Bytes are the record of the fields written.  Sizes are counted in       *)
(* units: those of the payload, which JSON writes in base 64 (four for     *)
(* three), and EntrySize for every entry of the clock and every pair of    *)
(* the metadata.  Of a sender ID and of a pair only their validity         *)
(* matters.  Every string is valid UTF-8: Validate accepts others, which   *)
(* JSON rewrites and the CBOR decoder refuses.  Timestamps are left out.   *)
(***************************************************************************)
EXTENDS ClockCodec

CONSTANTS MaxMessageSize, \* 16 MB in the program
          MaxPayloadSize, \* 15 MB in the program
          MaxMapPairs,    \* the CBOR decoder's limit on a map, 1000
          EntrySize,      \* encoded size of an entry of a map
          MetadataKeys,   \* the keys callers pass to WithMetadata
          Payloads,       \* the payload sizes callers pass
          AdjustValues,   \* the values callers pass to Clock.Set
          NilMessage

ASSUME SizesAssumption ==
    {MaxMessageSize, MaxPayloadSize, MaxMapPairs, EntrySize} \cup Payloads \subseteq Nat

ASSUME AdjustValuesAssumption == AdjustValues \subseteq Int64

CurrentVersion == 1

\* "bad" stands for an empty ID, a long one, or one with control characters.
SenderIDs == {"ok", "bad"}

\* A pair is "large" when its key or its value is longer than Validate allows.
PairKinds == {"ok", "large"}
Metadata == UNION {[keys -> PairKinds] : keys \in SUBSET MetadataKeys}
NoMetadata == [k \in {} |-> "ok"]

Message == [version : 0 .. CurrentVersion + 1, sender : SenderIDs,
            clock : ClockPtrs, payload : Payloads, metadata : Metadata]

Codec == {"json", "cbor"}

VARIABLES clk, \* the sender's *Clock
          msg  \* the sender's *Message

codecVars == <<clk, msg>>

CodecTypeOK == clk \in ClockPtrs /\ msg \in Message \cup {NilMessage}

CodecInit == clk = NilClock /\ msg = NilMessage

-----------------------------------------------------------------------------
(* Building a message.                                                     *)

\* The nodes are an argument list.
Start(nodes) == /\ clk = NilClock
                /\ IsFiniteSet(nodes)
                /\ clk' = NewClock(nodes)
                /\ UNCHANGED msg

Tick(node) == clk # NilClock /\ clk' = Increment(clk, node) /\ UNCHANGED msg

Adjust(node, value) == /\ clk # NilClock
                       /\ clk' = Set(clk, node, value)
                       /\ UNCHANGED msg

\* An invalid sender ID, a nil clock and an oversized payload are refused.
CallNewMessage(sender, payload) ==
    /\ sender = "ok"
    /\ clk # NilClock
    /\ payload <= MaxPayloadSize
    /\ msg' = [version |-> CurrentVersion, sender |-> sender, clock |-> Copy(clk),
               payload |-> payload, metadata |-> NoMetadata]
    /\ UNCHANGED clk

\* The fields are exported: a caller may set them without NewMessage, the
\* clock to a copy of the sender's or to nil.
SetFields(v, s, c, p) ==
    /\ msg # NilMessage
    /\ msg' = [msg EXCEPT !.version = v, !.sender = s, !.clock = c, !.payload = p]
    /\ UNCHANGED clk

\* A pair is added or replaced; no limit is checked, nor is there one on the
\* number of pairs.
WithMetadata(key, kind) ==
    /\ msg # NilMessage
    /\ msg' = [msg EXCEPT !.metadata =
                  [k \in DOMAIN msg.metadata \cup {key} |->
                      IF k = key THEN kind ELSE msg.metadata[k]]]
    /\ UNCHANGED clk

CodecNext == \/ \E nodes \in SUBSET NodeID : Start(nodes)
             \/ \E node \in NodeID : Tick(node)
             \/ \E node \in NodeID, value \in AdjustValues : Adjust(node, value)
             \/ \E s \in SenderIDs, p \in Payloads : CallNewMessage(s, p)
             \/ \E v \in 0 .. CurrentVersion + 1, s \in SenderIDs,
                   c \in {clk, NilClock}, p \in Payloads : SetFields(v, s, c, p)
             \/ \E key \in MetadataKeys, kind \in PairKinds : WithMetadata(key, kind)

CodecSpec == CodecInit /\ [][CodecNext]_codecVars

-----------------------------------------------------------------------------
(* The serializers.                                                        *)

Error == [error |-> TRUE]

Failed(r) == r = Error

Valid(m) == /\ m.version \in 1 .. CurrentVersion
            /\ m.sender = "ok"
            /\ m.clock # NilClock
            /\ m.payload <= MaxPayloadSize
            /\ \A k \in DOMAIN m.metadata : m.metadata[k] = "ok"

\* Four characters for three bytes, padded.
Base64(n) == 4 * ((n + 2) \div 3)

Size(codec, m) ==
    EntrySize * (ClockLen(m.clock) + Cardinality(DOMAIN m.metadata))
        + (IF codec = "json" THEN Base64(m.payload) ELSE m.payload)

\* What both codecs write.
Encoded(codec, m) ==
    [size |-> Size(codec, m), version |-> m.version, sender |-> m.sender,
     clock |-> ClockData(m.clock), payload |-> m.payload, metadata |-> m.metadata]

\* Mutant of JSONMarshal: the message is not validated first.
JSONMarshalUnvalidated(m) ==
    IF m = NilMessage \/ Size("json", m) > MaxMessageSize
    THEN Error
    ELSE Encoded("json", m)

JSONMarshal(m) ==
    IF m = NilMessage \/ ~Valid(m) \/ Size("json", m) > MaxMessageSize
    THEN Error
    ELSE Encoded("json", m)

CBORMarshal(m) ==
    IF m = NilMessage \/ ~Valid(m) \/ Size("cbor", m) > MaxMessageSize
    THEN Error
    ELSE Encoded("cbor", m)

\* The message read from the fields; a negative clock value is an error.
Decoded(d) ==
    IF \E n \in DOMAIN d.clock : d.clock[n] < 0
    THEN Error
    ELSE [version |-> d.version, sender |-> d.sender, clock |-> RebuildClock(d.clock),
          payload |-> d.payload, metadata |-> d.metadata]

Validated(r) == IF Failed(r) \/ ~Valid(r) THEN Error ELSE r

JSONUnmarshal(d) ==
    IF d.size > MaxMessageSize THEN Error ELSE Validated(Decoded(d))

\* The CBOR library refuses a map with too many pairs, whichever field it is.
CBORUnmarshal(d) ==
    IF \/ d.size > MaxMessageSize
       \/ Cardinality(DOMAIN d.clock) > MaxMapPairs
       \/ Cardinality(DOMAIN d.metadata) > MaxMapPairs
    THEN Error
    ELSE Validated(Decoded(d))

\* The Serializer of each name.
Marshal(codec, m) == IF codec = "json" THEN JSONMarshal(m) ELSE CBORMarshal(m)
Unmarshal(codec, d) == IF codec = "json" THEN JSONUnmarshal(d) ELSE CBORUnmarshal(d)

\* msg sent through a serializer.
RoundTrip(codec) ==
    LET d == Marshal(codec, msg) IN IF Failed(d) THEN Error ELSE Unmarshal(codec, d)

-----------------------------------------------------------------------------
\* A message that arrives means what was sent, although entries of value zero
\* are lost on the way: its clock compares with every clock a receiver may
\* have as the original does, a Merge of it answers the same for every node,
\* and the other fields are unchanged.
RoundTripKeepsMeaning ==
    \A codec \in Codec :
        ~Failed(RoundTrip(codec)) =>
            LET r == RoundTrip(codec)
            IN  /\ \A c \in Clocks :
                      NonNegative(c) =>
                          /\ Compare(r.clock, c) = Compare(msg.clock, c)
                          /\ \A n \in NodeID :
                                Get(Merge(c, r.clock), n) = Get(Merge(c, msg.clock), n)
                /\ Equal(r.clock, msg.clock)
                /\ [r EXCEPT !.clock = NilClock] = [msg EXCEPT !.clock = NilClock]

\* A map of msg is beyond the limit of the CBOR decoder, which Validate and
\* Marshal do not know of.
TooManyPairs(codec) ==
    /\ codec = "cbor"
    /\ \/ ClockLen(msg.clock) > MaxMapPairs
       \/ Cardinality(DOMAIN msg.metadata) > MaxMapPairs

\* The two sides agree on the limits but for two: of what Marshal writes,
\* Unmarshal refuses a clock with a negative entry and, in CBOR, a clock or
\* metadata with more pairs than a map may have, and nothing else.
MarshalledIsReadable ==
    \A codec \in Codec :
        LET d == Marshal(codec, msg)
        IN  ~Failed(d) =>
                (Failed(Unmarshal(codec, d)) <=>
                     ~NonNegative(msg.clock) \/ TooManyPairs(codec))
=============================================================================
