CONSTANTS
    JobId = {j1}
    Loop = {l1, l2}
    Caller = {c1}
    Owner = {h1}
    Admin = Admin
    NoJob = NoJob
    NoLoop = NoLoop
    Torn = Torn
    Home = Home
    Away = Away
    Follows = Follows
    Unset = Unset
    Zone = {Home, Away}
    FirstZone = Home
    Late <- TwoZones
    Offer <- Every
    Founding <- None
    MaxTime = 2
    MaxCalls = 2
    MaxCrashes = 1
    MaxMoves = 1
SPECIFICATION LiveSpec
INVARIANTS OnceFiresOnce OneShotRetired
PROPERTIES JobTableSpec OnceJobRuns
VIEW RequestView
CHECK_DEADLOCK FALSE
