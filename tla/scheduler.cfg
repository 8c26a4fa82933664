SPECIFICATION FairSpec
CONSTANTS
    Hosts = {h1, h2}
    Pages = {p1}
    Jobs = {j1}
    MaxLoops = 2
    Nobody = Nobody
INVARIANTS OneLoop RefreshingIsTrue
PROPERTIES StopAwaits StopReturns WakeServed
CHECK_DEADLOCK FALSE
