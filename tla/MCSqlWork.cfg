SPECIFICATION SpecPart
CONSTANTS
    Tab = {t1, t2}
    Session = {s1, s2}
    NoSession = NoSession
    MaxRuns = 2
    Null = Null
    Missing = Missing
    Cell <- Cells
    Mapping <- Mappings
    Width = 2
    MaxRows = 3
    MaxText = 3
    BatchSize = 2
    Column = {"k", "c"}
    Kind <- Kinds
    Key = "k"
    Value <- Values
    Less <- Lesses
    Table = {"t", "u"}
    Browsed = "t"
    BoxText <- Texts
    MaxSettings = 2
    Query <- Queries
    Edited <- Edits
    ColumnsOf <- TableColumns
    KeyOf <- TableKeys
    Contents <- Worlds
    Rank <- Ranks
    View <- Views
    Limit = {3, 4}
    RowCap = 3
    Fallback = 3
    MaxLoads = 4
    MaxInFlight = 2
    Field = {"x", "y", "skip"}
    DocValue <- DocValues
    DocLess <- DocLesses
    DocQuery <- DocQueries
INVARIANTS
    CommitTellsTheTruth
    NothingLeftOpen
    ExportsReadBack
    ModesAgree
    PagesAddUp
    FindsWhatItSays
PROPERTIES
    CancelStopsItsOwnRun
    ImportIsWhole
CHECK_DEADLOCK FALSE
