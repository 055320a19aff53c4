SPECIFICATION MCSpec
\* An encoding, and an extraction, ends.
CHECK_DEADLOCK FALSE
CONSTANTS
    BOS = "^"
    EOS = "$"
    PAD = "_"
    Space = " "
    KnownVoices = {"en-US", "en-GB", "fr-FR"}
    Decomposition <- MCDecomposition
    CombiningClass <- MCClass
    Maps <- MCMaps
    Inputs <- MCInputs
    Names = {"a", "b"}
    Entries <- MCEntries
    MaxEntries = 3
    MaxWalk = 12
INVARIANTS
    TwinsAgree
    NothingDroppedSilently
    SentencesStayApart
    PhonemizersKeepText
    LinksStayInside
    EntriesLandWhereNamed
