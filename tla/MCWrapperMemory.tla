--------------------------- MODULE MCWrapperMemory ---------------------------
(* The ends of the range of UTF-8 errors and their neighbours, every other   *)
(* named error, and two that are not named.                                 *)
EXTENDS WrapperMemory

MCMatchCode == {0, 1, 2, -1, -2, -3, -23, -28, -29, -36, -44, -47, -48, -53, -63}
==============================================================================
