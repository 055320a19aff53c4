SPECIFICATION Spec
CONSTANTS
    t1 = t1
    t2 = t2
    english = english
    french = french
    narrow = narrow
    wide = wide
    plain = plain
    climbing = climbing
    None = None
    Missing = Missing
    Unreadable = Unreadable
    Malformed = Malformed
    Threads <- MCThreads
    VoiceIds = {plain, climbing}
    UnsafeIds = {climbing}
    Configs <- MCConfigs
    Speakers = {1}
    Inputs = {3, 4}
INVARIANTS
    CheckedVoicesFit
PROPERTIES
    FailureIsFinal
    ImplementsService
SYMMETRY Symmetry
