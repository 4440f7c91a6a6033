CONSTANTS
    Card = {c1, c2}
    Client = {p1, p2}
    Hub = {}
    Conv = {}
    Admin = Admin
    NoConv = NoConv
    NoCard = NoCard
    Free = Free
    Turn = Turn
    Kinds = {"run_module", "edit"}
    Origins = {"external"}
    MAX_SIZE = 1
    OrderTTL = 0
    EditTTL = 1
    MaxTime = 1
    MaxClicks = 3
    MaxCrashes = 1
SPECIFICATION Spec
SYMMETRY ClientSymmetry
VIEW RequestView
INVARIANTS NoStaleOrder ApprovedAsMinted SettledNotResent MemoryOnDisk
