SPECIFICATION TreeSpec
CONSTANTS
    Bools = {"MODULES", "A", "B", "X", "Y", "C"}
    Tristates = {"T", "U", "D"}
    Ints = {"I"}
    ChoiceSyms = {"C", "D"}
    Modules = "MODULES"
    SymbolOrder <- MCOrder
    Kconfigs <- MCKconfigs
    Configs <- MCConfigs
    Names = {".config"}
    MaxEdits = 2
    MaxSaves = 1
    MaxLooks = 4
INVARIANTS
    RowsCurrent
    ListsCurrent
    UnchangedIsSaved
CHECK_DEADLOCK FALSE
