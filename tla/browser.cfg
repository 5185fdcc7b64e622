SPECIFICATION FairSpec
CONSTANTS
    Requests = {r1, r2}
    Unreadable = {}
    Truncated = {}
    Null = Null
    Told = {"undecodable"}
    Files = {f1, f2}
CHECK_DEADLOCK FALSE
INVARIANTS
    BrowserTypeOK
    ShownJobIsCurrent
    OneEffectAlive
    SettledSaysSomething
    PreviewIsLive
PROPERTIES
    OutcomeStands
    PollingEnds
