SPECIFICATION DlFairSpec
CONSTANTS
    Absent = Absent
    Truncated = Truncated
    Free = Free
    good = good
    bad = bad
    raw = raw
    Builds = {b1, b2}
    Contents <- MCContents
    NUris = 2
    Served <- MCServed
    Repack <- MCRepack
    LegacyFiles <- MCLegacy
    Policies <- MCPolicies
    Faults = {"hash", "ln", "cp", "rm", "mktemp", "chmod", "cat", "mv", "kill"}
    MaxRuns = 2
INVARIANT SuccessIsVerified
INVARIANT ExtractsVerified
INVARIANT AtomicSave
PROPERTY DeletesOnlyMismatch
PROPERTY ImplementsCache
PROPERTY EveryRequestEnds
CHECK_DEADLOCK FALSE
