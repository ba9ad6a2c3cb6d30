SPECIFICATION SpecPart
CONSTANTS
    EditWait = 3
    Hold = 2
    RetryWaits <- Growing
    LongestWait = 4
    Failures = {"received", "limited", "unreachable", "failed"}
    MaxEdits = 2
    MaxAsks = 1
    MaxFaults = 3
    MaxFlips = 1
    MaxRuns = 2
    d1 = d1
    d2 = d2
    Device = {d1, d2}
    Stores = 2
    SettingStores = {2}
    Id = {1}
    Content = {2}
    MarkerLifetime = 9
    MaxPasses = 1
    SyncTakesTime = FALSE
    MaxTime = 1
    MaxChanges = 2
    MaxLost = 1
    MaxLapses = 1
INVARIANTS NoEditForgotten
PROPERTIES QuitTriesToSend EditsReachServer DevicesConverge
CHECK_DEADLOCK FALSE
