SPECIFICATION BuildSpec
CONSTANTS
    lib = lib
    web = web
    Packages <- LibWeb
    Rank <- MCRank
    Deps <- MCDeps
    Override <- OnlyLib
    Staged <- OnlyLib
    BadArch <- OnlyWeb
    Global = Global
    NoPackage = NoPackage
    Partial = Partial
    Goals <- MCGoals
    MaxVersion = 2
    MaxSessions = 3
    MaxFaults = 1
INVARIANT StampsTruth
INVARIANT DependenciesReady
INVARIANT Isolation
INVARIANT ConfiguresPatched
INVARIANT ShipsRebuilds
PROPERTY ImplementsBuild
CHECK_DEADLOCK FALSE
