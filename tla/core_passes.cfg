CONSTANTS
    Fns <- MCFns
    N = 3
    Bodies <- MCBodies
    Files <- MCFiles
    Safe <- MCSafe
    Groups <- MCGroups
    Programs <- MCPrograms
    Types <- MCTypes
    Others <- MCOthers
SPECIFICATION PassesSpec
INVARIANTS GroupsSplit UsedExact NothingDangles NothingMissed StampsTrue
PROPERTY PassesEnd
CHECK_DEADLOCK FALSE
