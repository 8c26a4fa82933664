SPECIFICATION Spec
CONSTANTS
    Pages = {p1, p2}
    Accounts = {a1}
    Alerts = {"alert"}
    Paths = {"prefs"}
    NoPath = NoPath
    Keys = {"k1"}
    NoKey = NoKey
    Settings = {"auto", "off"}
    Default = "auto"
    Secrets = {"s1"}
    NoPat = NoPat
    Levels = {1, 2}
    NoThr = NoThr
    Nobody = Nobody
    Nothing = Nothing
    Edits = {"providers"}
    Chores = {}
    MaxRev = 3
INVARIANT NoSilentOverwrite
SYMMETRY PageSymmetry
