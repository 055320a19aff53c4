\* Four callers and a queue of two: full queues, and jobs still queued when the
\* worker unwinds.
SPECIFICATION FairSpec
CONSTANTS
    c1 = c1
    c2 = c2
    c3 = c3
    c4 = c4
    None = None
    Callers <- FourCallers
    QueueCapacity = 2
INVARIANTS
    NoOrphan
PROPERTIES
    ImplementsPort
    CallsReturn
