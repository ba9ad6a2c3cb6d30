SPECIFICATION Spec
CONSTANTS
    Job = {j}
    Conn = {c, d}
    Coll = {a}
    Server <- OneServer
    Type <- OneKind
    File <- Files
    Missing = missing
    Bad = bad
    BatchSize = 2
    MaxId = 2
    MaxEvents = 0
PROPERTIES CopyKeepsItsSource
CHECK_DEADLOCK FALSE
