SPECIFICATION Spec
CONSTANTS
    UintLen = 2
    HashLen = 3
    AddressLen = 2
    BloomLen = 2
    NonCid = NonCid
    h1 = h1
    short = short
    v1 = v1
    bad = bad
    fatal = fatal
    Radix = 2
    Values <- MCValues
    Broken <- MCBroken
    Fatal <- MCFatal
    Digests <- MCDigests
    Multicodecs = {"header"}
    Encode <- EncodeAs
    Decode <- DecodeAs
    WellFormed <- WellFormedAs
    Normal <- NormalAs
    Lenient <- ValueCodecs
    Readable <- ReadableAs
    OwnForm <- OwnFormAs
    Nodes <- NoNodes
    Blocks <- MCWithdrawalBlocks
INVARIANTS
    LoadedBlocksSurvive
