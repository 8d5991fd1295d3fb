SPECIFICATION TermSpec
CONSTANTS
    Bools = {"MODULES", "A", "B", "X", "Y", "C"}
    Tristates = {"T", "U", "D"}
    Ints = {"I"}
    ChoiceSyms = {"C", "D"}
    Modules = "MODULES"
    SymbolOrder <- MCOrder
    Kconfigs <- MCKconfigs
    Configs <- MCConfigs
    Names = {".config", "alt"}
    Patterns = {"I", "U"}
    SingleMenus = {4}
    MaxScreens = 2
    MaxEdits = 2
    MaxSaves = 1
INVARIANTS
    MenuCurrent
    OneMember
    EditTaken
    UnchangedIsSaved
PROPERTIES
    OldTextKept
CHECK_DEADLOCK FALSE
