CONSTANTS
    Search = {"search"}
    Schema = {"schema"}
    Reader = {}
    Render = {"render"}
    Plan = {"plan"}
    Action = {"order", "delete"}
    Unknown = {}
    Call <- Calls
    Guarded <- Destructive
    Order <- Orders
    Limit <- Limits
    Replays <- Compiled
    Modes = {"chat", "cron", "sub"}
    MaxRounds = 4
    FailCap = 1
    StallRounds = 2
    MaxCalls = 1
SPECIFICATION LiveSpec
INVARIANTS LastRoundIsFinal PersonDecides OneCardPerOrder CapHolds StallHolds UngroundedIsStamped
PROPERTIES TurnEnds
CHECK_DEADLOCK FALSE
