SPECIFICATION BlockingSpec
CONSTANTS
    t1 = t1
    t2 = t2
    en = en
    de = de
    unknown = unknown
    nul = nul
    None = None
    Threads <- MCThreads
    Languages <- LiveLanguages
    Installed = {en}
    Malformed = {}
    Texts <- LiveTexts
    Separators = {"none", "wide"}
    MaxPieces = 1
    Timeout = 1
PROPERTIES
    HungCallSurfaces
