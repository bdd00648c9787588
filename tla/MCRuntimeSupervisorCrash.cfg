SPECIFICATION FairSpec
CONSTANTS
    Proc = {p1, p2, p3}
    Recoveries = {r1}
    Full = TRUE
    StartDuringQuit = FALSE
    MaxRestarts = 1
    MaxFaults = 1
    MaxLate = 0
    MaxSetups = 1
    MaxCrashes = 1
    MaxLaunches = 1
    ForcedQuit = FALSE
    None = None
INVARIANTS
    OrphansAreMarked
PROPERTIES
    NoTurnIsCut
    StopsOnlyIdle
    QuitLeavesNoDaemon
    
