SPECIFICATION BuildSpec
CONSTANTS
    lib = lib
    web = web
    Packages <- LibWeb
    Rank <- MCRank
    Deps <- MCDeps
    Override <- OnlyLib
    Staged <- OnlyLib
    BadArch <- None
    Global = Global
    NoPackage = NoPackage
    Partial = Partial
    Goals <- AllAndRebuild
    MaxVersion = 2
    MaxSessions = 4
    MaxFaults = 0
INVARIANT RebuildReachesImage
CHECK_DEADLOCK FALSE
