SPECIFICATION FairSpec
CONSTANTS
    p1 = p1
    p2 = p2
    checkout = checkout
    tarball = tarball
    Missing = Missing
    Garbage = Garbage
    None = None
    Torn = Torn
    Pins <- MCPins
    Directories = {checkout}
    Archives = {tarball}
    Attempts = 3
    MaxFaults = 4
INVARIANTS
    StampNamesOrigin
    RightSource
    FreshIsWhole
PROPERTIES
    Recovers
