SPECIFICATION ListSpec
CONSTANTS
    Address = Address
    Status = Status
    v1 = v1
    v2 = v2
    Null = Null
    Zero = Zero
    NoField = NoField
    UnknownKey = UnknownKey
    Level = "type"
    KeepStale = FALSE
    Fields <- MCFields
    Composite <- MCFields
    Nullable <- MCNullable
    Values <- MCValues
    MaxRows = 2
    IteratorFails = FALSE
INVARIANTS
    ListTypeOK
    BuiltRowsComplete
PROPERTIES
    ElementsStartFresh
    ImplementsListBuilder
