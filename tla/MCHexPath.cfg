SPECIFICATION Spec
CONSTANTS
    Bytes <- MCBytes
    MaxLen = 5
INVARIANTS
    TypeOK
    PathRoundTrip
    MatchesHexPrefix
    WireNormalised
CHECK_DEADLOCK FALSE
