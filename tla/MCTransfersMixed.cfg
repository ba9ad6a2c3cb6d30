SPECIFICATION Spec
CONSTANTS
    Job = {j}
    Conn = {c}
    Coll = {a}
    Server <- OneServer
    Type <- TwoKinds
    File <- Files
    Missing = missing
    Bad = bad
    BatchSize = 2
    MaxId = 2
    MaxEvents = 1
PROPERTIES FirstExportTakesAll
CHECK_DEADLOCK FALSE
