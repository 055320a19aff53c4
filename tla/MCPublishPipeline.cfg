SPECIFICATION FairSpec
\* All runs may end.
CHECK_DEADLOCK FALSE
CONSTANTS
    Crates <- MCCrates
    Tiers <- MCTiers
    Deps <- MCDeps
    Runs <- MCRuns
    Commit <- MCCommit
    OnMain = {"push", "dry run", "other"}
    Dry = {"dry run"}
    None = "none"
    MaxFaults = 1
INVARIANTS
    NeverTooEarly
    OneCommitPerVersion
PROPERTIES
    ReleaseCompletes
