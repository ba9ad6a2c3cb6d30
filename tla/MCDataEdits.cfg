SPECIFICATION SpecPart
CONSTANTS
    Tab = {t1, t2}
    Free = free
    Key = {1, 2}
    Value = {"x", "y"}
    NoRow = "none"
    MaxJobs = 2
    MaxOthers = 1
    Conn = {c1}
    Server = {s1, s2}
    Id = {1}
    Document = {"x", "big"}
    Big = {"big"}
    None = None
    Slot = {k1, k2}
    MaxCommands = 2
    MaxRestores = 1
    MaxChanges = 1
SYMMETRY Same
INVARIANTS HistoryIsOfCommits
PROPERTIES SavesAreWhole UndoOverwritesNothing OthersKeepReadOnly UndoIsExact ListedFilesKeepTheirChunks
CHECK_DEADLOCK FALSE
