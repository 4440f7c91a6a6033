CONSTANTS
    JobId = {j1}
    Loop = {l1, l2, l3}
    Caller = {c1, c2}
    Owner = {}
    Admin = Admin
    NoJob = NoJob
    NoLoop = NoLoop
    Torn = Torn
    Home = Home
    Away = Away
    Follows = Follows
    Unset = Unset
    Zone = {Home}
    FirstZone = Home
    Late <- HomeOnly
    Offer <- Mixed
    Founding <- Systems
    MaxTime = 1
    MaxCalls = 3
    MaxCrashes = 0
    MaxMoves = 0
SPECIFICATION Spec
INVARIANTS OneTaskPerJob JobsHaveTasks
PROPERTIES FiresRegistered
SYMMETRY Symmetry
VIEW RequestView
CHECK_DEADLOCK FALSE
