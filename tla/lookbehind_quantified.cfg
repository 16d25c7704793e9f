CONSTANTS
    Expressions <- QuantifiedExpressions
    Subjects <- MCSubjects
    Groups = {1, 2, 3}
SPECIFICATION Spec
INVARIANTS
    LikeECMAScript
\* The caller stops after a search.
CHECK_DEADLOCK FALSE
