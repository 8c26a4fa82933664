SPECIFICATION Spec
CONSTANTS
    Browsers = {b1, b2}
    Handlers = {h1, h2}
    Tokens = {t1, t2}
    Duration = 2
    MaxTime = 3
    NoToken = NoToken
INVARIANTS ServedInSession KeptUntilOver
CHECK_DEADLOCK FALSE
