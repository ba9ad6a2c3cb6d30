SPECIFICATION SpecPart
CONSTANTS
    Tab = {t1, t2}
    PoolSize = 1
    MaxRuns = 2
    MaxStatements = 2
    s1 = s1
    s2 = s2
    Sessions = {s1, s2}
    Patient = {s1}
    Servers = {"a", "b"}
    Doc = {1}
    MaxSubmissions <- Submissions
    MaxCalls = 1
INVARIANTS ReportedWritesAreKept
PROPERTIES KillStopsItsOwnRun OnlyCommitsKeep WritesAreAllowed SlowTabsHoldNobodyUp
CHECK_DEADLOCK FALSE
