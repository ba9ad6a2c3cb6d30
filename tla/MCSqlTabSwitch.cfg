SPECIFICATION Spec
CONSTANTS
  Tab = {t1}
  Session = {s1, s2}
  NoSession = NoSession
  MaxRuns = 2
INVARIANTS
  OpenTransactionsCanBeEnded
CHECK_DEADLOCK FALSE
