SPECIFICATION Spec
CONSTANTS
    Sources <- Patterns
    MAX_NAME_SIZE = 8
    PARENS_NEST_LIMIT = 7
    MAX_NESTS = 5
    MAX_NAME_COUNT = 3
    MAX_MARK = 8
    ECLASS_NEST_LIMIT = 2
INVARIANTS
    ParsedLikePattern
    ParsedFits
    ParsedIsWellFormed
    SavesAreInStep
    NamesAreCounted
CHECK_DEADLOCK FALSE
