CONSTANTS
    PatternSet <- MCPatterns
    Batches <- MCBatches
    Limits <- MCLimits
    StartOpts <- MCStartOpts
SPECIFICATION FairSpec
INVARIANTS
    PrefixOfReference
    CompleteWithoutError
    ErrorLosesLessThanAChunk
PROPERTIES
    CursorAdvances
    Terminates
