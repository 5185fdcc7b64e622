SPECIFICATION FairSpec
CONSTANTS
    Requests = {r1, r2}
    Unreadable = {}
    Truncated = {}
    Null = Null
    Told = {"undecodable"}
    HistoryLimit = 1
    Loads = {n1, n2}
CHECK_DEADLOCK FALSE
INVARIANTS
    HistoryInv
PROPERTIES
    ListOnlyMovesOn
    HistorySettles
