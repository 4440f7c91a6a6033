CONSTANTS
    Conv = {a}
    Hub = {h}
    NoConv = NoConv
    NoSession = NoSession
    Modes = {"modify"}
    MAX_SIZE = 2
    MaxSessions = 3
    Turn = {t1, t2}
    MaxTurns = 3
    MaxCalls = 3
    MaxCrashes = 1
SPECIFICATION Spec
SYMMETRY TurnSymmetry
VIEW View
INVARIANTS UserDecidesEachStep SessionsOnDisk SeenIsKept AnswerIsTaken HubApart
CHECK_DEADLOCK FALSE
