SPECIFICATION FairSpec
CONSTANTS
    Accounts = {a1, a2}
    HostAccounts = {a2}
    Requests = {}
    Background = bg
    Editors = {}
    Visitors = {v1}
    Volatile = {}
    Creds = {c1}
    Adapters = {auto}
    Pats = {nopat}
    NoPat = nopat
    MaxParallel = 1
    MaxRev = 0
    Absent = absent
    Unreadable = unreadable
    NoData = nodata
    NoEntry = noentry
INVARIANTS ResultsComplete
PROPERTIES RunsFinish
CHECK_DEADLOCK FALSE
