SPECIFICATION FairSpec
CONSTANTS
    Accounts = {a1}
    HostAccounts = {a1}
    Requests = {q1}
    Background = bg
    Editors = {}
    Visitors = {}
    Volatile = {a1}
    Creds = {c1, c2}
    Adapters = {auto}
    Pats = {nopat}
    NoPat = nopat
    MaxParallel = 1
    MaxRev = 1
    Absent = absent
    Unreadable = unreadable
    NoData = nodata
    NoEntry = noentry
INVARIANTS OwnCandidate FollowersServed
PROPERTIES RunsFinish
CHECK_DEADLOCK FALSE
