SPECIFICATION ConfSpec
CONSTANTS
    Bools = {"MODULES", "A", "B", "X", "Y", "C"}
    Tristates = {"T", "U", "D"}
    Ints = {"I"}
    ChoiceSyms = {"C", "D"}
    Modules = "MODULES"
    SymbolOrder <- MCOrder
    Kconfigs <- MCKconfigs
    Configs <- MCConfigs
    Names = {".config"}
    MaxEdits = 0
    MaxSaves = 0
    MaxRuns = 2
    Modes = {"oldaskconfig", "oldconfig", "syncconfig", "listnewconfig", "olddefconfig",
             "defconfig", "savedefconfig", "allnoconfig", "allyesconfig", "allmodconfig",
             "alldefconfig", "randconfig"}
INVARIANTS
    AskedAll
    RoundTrip
    MinimalIsEnough
    NothingStale
PROPERTIES
    QuestionsEnd
    ReplacesInOrder
CHECK_DEADLOCK FALSE
