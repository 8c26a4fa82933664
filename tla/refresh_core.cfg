SPECIFICATION Spec
CONSTANTS
    Accounts = {a1}
    HostAccounts = {}
    Requests = {q1}
    Background = bg
    Editors = {e1}
    Visitors = {v1}
    Volatile = {}
    Creds = {c1}
    Adapters = {auto, relay}
    Pats = {nopat, pat}
    NoPat = nopat
    MaxParallel = 4
    MaxRev = 1
    Absent = absent
    Unreadable = unreadable
    NoData = nodata
    NoEntry = noentry
INVARIANTS FreshMeansCurrent CancelledNeverFresh RevivedNeverFresh
PROPERTIES HistoryKept Reported
CHECK_DEADLOCK FALSE
