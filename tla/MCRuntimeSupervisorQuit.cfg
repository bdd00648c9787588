SPECIFICATION ForcedSpec
CONSTANTS
    Proc = {p1, p2, p3}
    Recoveries = {r1}
    Full = FALSE
    StartDuringQuit = TRUE
    MaxRestarts = 2
    MaxFaults = 0
    MaxLate = 3
    MaxSetups = 0
    MaxCrashes = 0
    MaxLaunches = 0
    ForcedQuit = TRUE
    None = None
PROPERTIES
    QuitEnds
