CONSTANTS
    File = {f1, f2}
    Static = {f2}
    Content = {{daily}, {daily, until}, {bad}}
    Sound = {{daily}, {daily, until}}
    NoJob = NoJob
    NoScreen = NoScreen
    Request = {r1}
    Boot = Boot
    Founding <- Nothing
    MaxRequests = 1
    MaxChanges = 1
    MaxFailures = 1
SPECIFICATION Spec
VIEW View
INVARIANTS ClockFollowsDeclarations NewSchedulesArePickedUp OffMeansOff RecordedStaysDeleted
CHECK_DEADLOCK FALSE
