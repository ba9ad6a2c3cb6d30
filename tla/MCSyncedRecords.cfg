SPECIFICATION SpecPart
CONSTANTS
    d1 = d1
    d2 = d2
    Device = {d1, d2}
    Stores = 1
    SettingStores = {}
    Id = {1}
    Content = {1}
    MarkerLifetime = 1
    MaxPasses = 1
    SyncTakesTime = FALSE
    MaxTime = 3
    MaxEdits = 2
    MaxFaults = 1
    MaxLapses = 1
    Skew <- NoSkew
    SyncedStart <- RecordsAtZero
    Folder = {f}
    Secret = {x}
    Thread = {t}
    None = none
    Unknown = unknown
    Uncached = uncached
    Sync = the_sync
    LastTime = 2
INVARIANTS KeptCopyMatchesServer DeletedStaysDeleted DeletedKeepsNoSecrets TypedSecretLastsUnlessTorn
PROPERTIES SyncNeverUndoesAnEdit
CHECK_DEADLOCK FALSE
