CONSTANTS
    Card = {c1}
    Client = {p1}
    Hub = {h1, h2}
    Conv = {k1}
    Admin = Admin
    NoConv = NoConv
    NoCard = NoCard
    Free = Free
    Turn = Turn
    Kinds = {"run_module", "edit", "job"}
    Origins = {"turn"}
    MAX_SIZE = 1
    OrderTTL = 0
    EditTTL = 1
    MaxTime = 2
    MaxClicks = 3
    MaxCrashes = 2
SPECIFICATION LiveSpec
VIEW RequestView
INVARIANTS HubOwnCards
PROPERTIES CardsSpec ClickAnswered
