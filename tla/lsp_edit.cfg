CONSTANTS
    d1 = d1
    d2 = d2
    Uris <- MCUris
    FileUris <- MCFileUris
    Crashing <- MCCrashing
    MaxEdits = 3
    MaxOpens = 2
    GenMax = 4
    MaxDrain = 1
SPECIFICATION LiveSpec
INVARIANTS ClosedShowsNothing NoResultLost
PROPERTIES StaleDiscardedFirst DiagnosticsArrive
CHECK_DEADLOCK FALSE
