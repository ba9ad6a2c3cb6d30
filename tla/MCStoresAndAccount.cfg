SPECIFICATION SpecPart
CONSTANTS
    d1 = d1
    d2 = d2
    Device = {d1, d2}
    Stores = 2
    SettingStores = {}
    Id = {1, 2}
    Content = {1}
    MarkerLifetime = 1
    MaxPasses = 2
    SyncTakesTime = TRUE
    MaxTime = 1
    MaxEdits = 2
    MaxFaults = 0
    MaxLapses = 0
    Skew <- NoSkew
    SyncedStart <- NoStart
    a1 = a1
    a2 = a2
    s1 = s1
    s2 = s2
    None = None
    Account = {a1, a2}
    Session = {s1, s2}
    Owner <- TwoOwners
    Key = {k1, k2}
    MaxAtOnce = 2
    MaxFails = 1
SYMMETRY Alike
INVARIANTS SealedForItsAccount DataStaysReadable
PROPERTIES LastSyncMeansSaved
CHECK_DEADLOCK FALSE
