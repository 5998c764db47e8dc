SPECIFICATION Spec
CONSTANTS
    Packages <- MCPackages
PROPERTIES
    LogRootLeadsToTheTrie
