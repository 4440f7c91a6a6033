CONSTANTS
    Watch = {w1, w2}
    Caller = {boot, r1, r2}
    Boot = boot
    NoWatch = NoWatch
    Modes <- Venues
    Founding <- Empty
    MaxStarts = 3
    MaxDrops = 2
    MaxRefusals = 2
    MaxRejects = 2
    MaxCalls = 2
    MaxCrashes = 1
SPECIFICATION Spec
INVARIANTS OneSocket ServedIsRegistered LiveIsAsked ListIsSaved StartsAreAnswered
SYMMETRY Symmetry
CHECK_DEADLOCK FALSE
