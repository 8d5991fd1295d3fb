SPECIFICATION TermSpec
CONSTANTS
    Bools = {"MODULES", "A", "B", "X", "Y", "C"}
    Tristates = {"T", "U", "D"}
    Ints = {"I"}
    ChoiceSyms = {"C", "D"}
    Modules = "MODULES"
    SymbolOrder <- MCOrder
    Kconfigs <- RefusedKconfigs
    Configs <- RefusedConfigs
    Names = {".config", "alt"}
    Patterns = {"I", "U"}
    SingleMenus = {}
    MaxScreens = 2
    MaxEdits = 2
    MaxSaves = 1
INVARIANT SaveOffered
CHECK_DEADLOCK FALSE
