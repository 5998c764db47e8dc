SPECIFICATION Spec
CONSTANTS
    Cases <- MCNotWorking
INVARIANTS
    AcceptsEveryMember
