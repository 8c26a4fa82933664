SPECIFICATION Spec
CONSTANTS
    None = None
    acct = acct
    Accounts <- MCAccounts
    Figures <- MCFigures
    Blank <- MCBlank
    Thresholds <- MCThresholds
    Pages = {p1}
    Reports = {r1}
    MaxDismissed = 1
    Dismissable = {"quota_low"}
INVARIANT ErrorsKept
CHECK_DEADLOCK FALSE
