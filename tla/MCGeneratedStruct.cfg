SPECIFICATION Spec
CONSTANTS
    Assemblers <- MCAssemblers
    Wanted <- MCWanted
INVARIANTS
    ReadsBack
    AcceptsWhatTheSchemaSays
PROPERTIES
    ImplementsStructAssembler
