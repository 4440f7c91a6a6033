CONSTANTS
    File = {f1}
    Static = {}
    Content = {{daily}, {hourly}, {bad}}
    Sound = {{daily}, {hourly}}
    NoJob = NoJob
    NoScreen = NoScreen
    Request = {r1}
    Boot = Boot
    Founding <- Nothing
    MaxRequests = 2
    MaxChanges = 0
    MaxFailures = 0
SPECIFICATION Spec
VIEW View
INVARIANTS DeletedStaysDeleted
CHECK_DEADLOCK FALSE
