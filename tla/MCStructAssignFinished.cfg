SPECIFICATION AssignSpec
CONSTANTS
    Number = Number
    BaseFee = BaseFee
    v1 = v1
    Null = Null
    Zero = Zero
    Bad = Bad
    NoField = NoField
    UnknownKey = UnknownKey
    Level = "type"
    KeepStale = TRUE
    Fields <- MCFields
    Composite = {}
    Nullable <- MCNullable
    Values <- MCValues
    MaxEntries = 2
    ReuseCopied = TRUE
PROPERTY
    FinishedRefusesAssign
