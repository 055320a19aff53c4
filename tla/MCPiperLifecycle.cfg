SPECIFICATION Spec
CONSTANTS
    t1 = t1
    english = english
    french = french
    narrow = narrow
    wide = wide
    None = None
    Missing = Missing
    Malformed = Malformed
    Threads <- MCThreads
    Releases <- MCReleases
    Speakers = {1}
INVARIANTS
    MatedPipersFit
PROPERTIES
    SwapKeepsTheOldVoice
    ImplementsService
