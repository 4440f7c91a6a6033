CONSTANTS
    Card = {c1}
    Client = {p1, p2}
    Hub = {}
    Conv = {}
    Admin = Admin
    NoConv = NoConv
    NoCard = NoCard
    Free = Free
    Turn = Turn
    Kinds = {"run_module"}
    Origins = {"external"}
    MAX_SIZE = 2
    OrderTTL = 0
    EditTTL = 1
    MaxTime = 1
    MaxClicks = 2
    MaxCrashes = 0
SPECIFICATION Spec
INVARIANTS OneOrderPerCard
