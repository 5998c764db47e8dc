SPECIFICATION Spec
CONSTANTS
    ParentCID = ParentCID
    Number = Number
    BaseFee = BaseFee
    v1 = v1
    v2 = v2
    Null = Null
    Zero = Zero
    NoField = NoField
    UnknownKey = UnknownKey
    Level = "type"
    KeepStale = TRUE
    Fields <- MCFields
    Composite = {}
    Nullable <- MCNullable
    Values <- MCValues
INVARIANTS
    TypeOK
    BuiltNodeComplete
PROPERTIES
    FinishedIsImmutable
    OwnHandleOnly
    FailedCallKeepsContent
    ImplementsNodeBuilder
