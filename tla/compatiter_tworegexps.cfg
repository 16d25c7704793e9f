CONSTANTS
    r1 = r1
    r2 = r2
    Regexp = {r1, r2}
    Lookbehind = {}
    Compiled <- TwoBatched
    Batch = 2
    MaxCalls = 5
    MaxLimits = 0
    Strings <- StringsOf
    Counts = {}
    MaxEvaluator = 0
SPECIFICATION ReplaceSpec
INVARIANTS
    IdenticalToUnbatched
\* The caller stops, at the latest after MaxCalls.
CHECK_DEADLOCK FALSE
