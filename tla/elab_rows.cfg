CONSTANTS
    A = A
    B = B
    a = a
    R = R
    S = S
    string = string
    int = int
    Canon <- MCCanon
    Started = 3
    Equations <- MCEquations
    Apart <- MCApart
    Assumptions <- MCAssumptions
    Folders <- MCFolders
    MaxDemands = 4
    MaxPasses = 8
SPECIFICATION Spec
INVARIANTS WellFormed DemandsMet ReportsJustified
PROPERTY SolvingEnds
CHECK_DEADLOCK FALSE
