SPECIFICATION Spec
CONSTANTS
    Conn = {c1}
    Server = {s1, s2}
    Id = {1}
    Value = {"x", "big"}
    Big = {"big"}
    None = None
    Slot = {k1, k2}
    MaxCommands = 2
    MaxRestores = 1
    MaxChanges = 1
SYMMETRY Same
PROPERTIES ReadOnlyIsKept
CHECK_DEADLOCK FALSE
