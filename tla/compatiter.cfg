CONSTANTS
    r1 = r1
    r2 = r2
    Regexp = {r1, r2}
    Lookbehind = {r2}
    Compiled <- MixedCompiled
    Batch = 2
    MaxCalls = 5
    MaxLimits = 1
    Strings <- StringsOf
    Counts <- SomeCounts
    MaxEvaluator = 3
SPECIFICATION ReplaceSpec
INVARIANTS
    IdenticalWithoutLimits
    AgreesOrFails
    IterInStep
    ReplacedLikeReference
PROPERTIES
    ErrorsDoNotStick
\* The caller stops, at the latest after MaxCalls.
CHECK_DEADLOCK FALSE
