SPECIFICATION Spec
CONSTANTS
    Pages = {p1}
    Accounts = {a1}
    Alerts = {"alert"}
    Paths = {prefs, other}
    NoPath = NoPath
    Keys = {k1, k2}
    NoKey = NoKey
    Settings = {"auto", "off"}
    Default = "auto"
    Secrets = {"s1"}
    NoPat = NoPat
    Levels = {1}
    NoThr = NoThr
    Nobody = Nobody
    Nothing = Nothing
    Edits = {"pat", "providers"}
    Chores = {"invalidate"}
    MaxRev = 1
INVARIANTS QueryRevisionIdentifiesConfig PatsOpen PublishedDurable
PROPERTY Register
SYMMETRY KeyAndPathSymmetry
