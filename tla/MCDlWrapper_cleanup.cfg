SPECIFICATION DlSpec
CONSTANTS
    Absent = Absent
    Truncated = Truncated
    Free = Free
    good = good
    bad = bad
    raw = raw
    Builds = {b1}
    Contents <- MCContents
    NUris = 2
    Served <- MCServed
    Repack <- MCRepack
    LegacyFiles <- MCLegacy
    Policies <- OnlyHashOfGood
    Faults = {"mktemp"}
    MaxRuns = 2
INVARIANT FailureLeavesNothing
CHECK_DEADLOCK FALSE
