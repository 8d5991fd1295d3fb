SPECIFICATION BuildSpec
CONSTANTS
    lib = lib
    web = web
    Packages <- LibWeb
    Rank <- MCRank
    Deps <- MCDeps
    Override <- OnlyLib
    Staged <- OnlyLib
    BadArch <- OnlyWeb
    Global = Global
    NoPackage = NoPackage
    Partial = Partial
    Goals <- AllAndRebuild
    MaxVersion = 2
    MaxSessions = 2
    MaxFaults = 0
INVARIANT InstallsOnlyTargetBinaries
CHECK_DEADLOCK FALSE
