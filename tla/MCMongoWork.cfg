SPECIFICATION SpecPart
CONSTANTS
    Job = {i, j}
    Conn = {c}
    Coll = {a, b}
    Server <- OneServer
    Type <- OneKind
    File <- Files
    Missing = missing
    Bad = bad
    BatchSize = 2
    MaxId = 2
    MaxEvents = 1
    Op = {o1, o2}
    MaxOperations = 1
    MaxClears = 1
INVARIANTS NothingSkipped
PROPERTIES
    AnswersAreTrue
    TransfersEnd
    PaneHearsOfEnds
CHECK_DEADLOCK FALSE
