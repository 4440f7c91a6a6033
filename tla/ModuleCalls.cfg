CONSTANTS
    Call = {c1, c2}
    None = None
    Foreign = Foreign
    Policies <- Issuers
    MaxTokens = 3
    MaxLosses = 1
    MaxCalls = 3
    MaxAges = 1
    MaxLogins = 1
SPECIFICATION LiveSpec
INVARIANTS SlotIsNewest OneFetchPerExpiry RetryIsNewer RefreshTokenKept
PROPERTIES CallsEnd
CHECK_DEADLOCK FALSE
