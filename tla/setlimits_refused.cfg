CONSTANTS
    Reader = {g1}
    Writer = {w1}
    Plans = 1
    MaxGen = 1
    Limit = {"matchlimit"}
SPECIFICATION Spec
SYMMETRY Symmetry
INVARIANTS
    NeverRefused
