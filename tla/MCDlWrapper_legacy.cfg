SPECIFICATION DlSpec
CONSTANTS
    Absent = Absent
    Truncated = Truncated
    Free = Free
    good = good
    bad = bad
    raw = raw
    Builds = {b1}
    Contents <- MCContents
    NUris = 2
    Served <- MCServed
    Repack <- MCRepack
    LegacyFiles <- MCLegacy
    Policies <- OnlyNoHashFile
    Faults = {"ln", "cp"}
    MaxRuns = 2
INVARIANT NeverAcceptsTruncated
CHECK_DEADLOCK FALSE
