CONSTANTS
    Expressions <- MCExpressions
    Subjects <- MCSubjects
    Groups = {1, 2, 3}
SPECIFICATION Spec
INVARIANTS
    LikeECMAScript
    GroupNumbersKept
\* The caller stops after a search.
CHECK_DEADLOCK FALSE
