CONSTANTS
    Programs <- MCPrograms
    Calls <- MCCalls
    REQ_CU_MAX = 2
    fcc <- OtherCase
    NoCodeUnit <- NoUnit
    match <- Match
    PatternWays <- MatchWays
SPECIFICATION Spec
INVARIANTS
    CompiledLikePattern
    PossessifiedAlike
    BoundsAreSound
    StartsAreSound
    SearchKeepsPromise
PROPERTIES
    StartsAdvance
