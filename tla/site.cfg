SPECIFICATION SiteSpec
CONSTANTS
  Requests = {r1}
  Truncated = {}
  Unreadable = {}
  Junk = {}
  None = None
  Workers = {w1, w2}
  Faults = {"s3", "engine", "wipe", "backendCrash"}
  Null = Null
  Files = {f1}
  Loads = {n1}
  HistoryLimit = 1
SYMMETRY Symmetry
INVARIANTS PagesTellTheTruth
PROPERTIES TerminalIsFinal KeepsPages
CHECK_DEADLOCK FALSE
