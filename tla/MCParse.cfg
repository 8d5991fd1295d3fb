SPECIFICATION ParseSpec
CONSTANTS
    Bools = {"A", "B", "MODULES", "X", "Y", "C"}
    Tristates = {"T"}
    Ints = {"I", "J"}
    ChoiceSyms = {"C"}
    Modules = "MODULES"
    ParentDeps <- MCParentDeps
    OwnDeps <- MCOwnDeps
    Owners = {"A"}
    OwnerDeps <- MCOwnerDeps
    Nodes <- AllSymbols
    NoLoop <- NoSymbol
    LoopKconfigs <- MCLoopKconfigs
    Users <- MCUsers
    Orders <- MCOrders
INVARIANTS
    ValueKept
    BoolKept
    NoRedundancy
    SubmenuBelowOwner
    LoopsReported
    OrderIndependent
CHECK_DEADLOCK FALSE
