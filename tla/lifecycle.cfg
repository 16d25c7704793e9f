CONSTANTS
    Caller = {g1, g2}
    GC = gc
    Scratch = {s1, s2, s3}
    None = none
SPECIFICATION FairSpec
INVARIANTS
    ScratchExclusive
    NoUseAfterFree
    FreesOnce
    NoLeak
    PoolBounded
PROPERTIES
    HandleSpec
    CloseReturns
    MatchReturns
