CONSTANTS
    Programs <- Overlooked
    Calls <- MCCalls
    REQ_CU_MAX = 2
    fcc <- OtherCase
    NoCodeUnit <- NoUnit
    match <- Match
    PatternWays <- MatchWays
SPECIFICATION Spec
INVARIANTS
    PossessifiedAlike
