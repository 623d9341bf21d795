SPECIFICATION MpiFairSpec
CONSTANTS
    N = 3
    MaxRuns = 2
    Settings <- SomeSettings
INVARIANTS
    CollectsThisRun
    AllShotsCollected
PROPERTIES
    EveryRunEnds
