SPECIFICATION FairSpec
CONSTANTS
    t1 = t1
    t2 = t2
    en = en
    de = de
    unknown = unknown
    nul = nul
    None = None
    Threads <- MCThreads
    Languages <- MCLanguages
    Installed <- MCInstalled
    Malformed <- MCMalformed
    Texts <- MCTexts
    Separators = {"none", "wide"}
    MaxPieces = 2
    Timeout = 1
INVARIANTS
    MutualExclusion
    VoiceCacheCoherent
    OkInOwnVoice
    NoClauseLost
    SentenceWithinLine
    NoRedundantSwitch
    InitializedOnce
PROPERTIES
    PoisonIsFinal
    HolderReleases
