CONSTANTS
    Limit = {0, 1}
    CompileCode = {101, 199}
    MatchCode <- MCMatchCode
    Groups = 2
SPECIFICATION Spec
INVARIANTS
    OwnedExactly
    EngineIsProtected
    ErrorIsOfThisCall
