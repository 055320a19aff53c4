SPECIFICATION FairSpec
\* Nothing is left to do once cargo sees nothing to do.
CHECK_DEADLOCK FALSE
CONSTANTS
    v1 = v1
    v2 = v2
    None = None
    Hosts <- MCHosts
    Versions <- MCVersions
    MaxEdits = 3
    MaxFaults = 1
INVARIANTS
    LinkedIsCurrent
    LinkMatchesLibrary
    SystemLibsNamed
    RunsWhereBuilt
PROPERTIES
    Recovers
