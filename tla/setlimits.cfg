CONSTANTS
    Reader = {g1}
    Writer = {w1, w2}
    Plans = 2
    MaxGen = 2
    Limit = {"matchlimit"}
SPECIFICATION FairSpec
INVARIANTS
    NoUseAfterFree
    FieldsAreOpen
    OnlyFailuresLeak
    ClosedOnlyByRace
PROPERTIES
    SetReturns
    MatchReturns
