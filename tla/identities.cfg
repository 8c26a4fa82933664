SPECIFICATION Spec
CONSTANTS
    StaticSlots = {s1, s2}
    HostSlots = {h1}
    StaticCreds = {c1, c2}
    NamedCreds = {n1}
    UnnamedCreds = {}
    Keys = {k1}
    Discoverers = {d1}
    MaxIds = 2
    NoCred = NoCred
    NoKey = NoKey
    NoPat = NoPat
    NoId = NoId
INVARIANTS Independent EnteredStays
PROPERTIES IdKept PatsMove HistoryFollowsPat
CHECK_DEADLOCK FALSE
