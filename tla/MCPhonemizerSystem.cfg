\* Two callers, and another thread of the process, in two languages.
SPECIFICATION FairSpec
CONSTANTS
    c1 = c1
    c2 = c2
    direct = direct
    en = en
    de = de
    None = None
    Worker = Worker
    Callers <- TwoCallers
    QueueCapacity = 1
    Direct <- OneDirect
    DirectLanguages = {en}
    Languages <- TwoLanguages
    Installed <- TwoLanguages
    Malformed = {}
    Texts <- OneText
    MaxPieces = 1
    Timeout = 0
INVARIANTS
    AnswerIsOwn
    WorkerOutlivesPoison
    PoisonReachesCallers
PROPERTIES
    PhonemizeReturns
