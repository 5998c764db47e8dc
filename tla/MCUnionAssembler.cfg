SPECIFICATION Spec
CONSTANTS
    Cases <- MCWorking
INVARIANTS
    TypeOK
    HoldsOneMember
    ReadsBack
    AcceptsEveryMember
PROPERTIES
    FinishedIsImmutable
