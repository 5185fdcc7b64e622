SPECIFICATION FairSpec
CONSTANTS
    Callers = {p1, p2, p3}
    Channels = {c1, c2, c3}
    Null = Null
INVARIANTS
    ChannelInv
PROPERTIES
    CallsEnd
    Heals
