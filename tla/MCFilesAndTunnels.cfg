SPECIFICATION SpecPart
CONSTANTS
    Kind = {"query", "sql", "shell", "row", "collection", "error", "keyed"}
    Key = {k1, k2}
    Text = {x, y}
    Size = {0, 2, 3}
    MaxEntries = 1
    MaxImage = 2
    MaxTotal = 3
    Thread = {t1, t2}
    Nobody = nobody
    MaxFaults = 2
    MaxUpdates = 2
    Task = {t1, t2}
    Database = {db1, db2}
    NoHandle = NoHandle
    MaxTunnels = 2
    MaxChanges = 2
    Handshakes = {h1, h2}
    Hosts = {s1, s2}
    Keys = {k1, k2}
PROPERTIES ChangesAreWhole CommandsGetLiveHandles ConnectsEnd OnlyTrustedKeys
CHECK_DEADLOCK FALSE
