---------------------------- MODULE MCGlobalMatch ----------------------------
(* Every pattern with up to two ways to match at each of the three          *)
(* boundaries of a subject of a one-byte and a two-byte character, with one *)
(* way for a third character, and some that move the match start with \K.   *)
EXTENDS GlobalMatch

TwoCharacters == {0, 1, 3}
ThreeCharacters == {0, 1, 3, 4}

\* a\K: an empty match behind the start; x\Ky: a shorter match.
MovedStarts ==
    {[try |-> f] : f \in [TwoCharacters ->
        {<<>>, <<Found(1, 1)>>, <<Found(3, 3)>>, <<Found(1, 3), Found(3, 3)>>}]}

MCPatterns ==
    Patterns(TwoCharacters, 2) \cup Patterns(ThreeCharacters, 1)
    \cup {p \in MovedStarts : \A s \in TwoCharacters :
                                 \A r \in ToSet(p.try[s]) : r.from >= s}
MCBatches == {1, 2, 3}
MCLimits == {-1, 0, 2, 3}
MCStartOpts == {{}, {"NOTEMPTY_ATSTART"}, {"ANCHORED"}}
==============================================================================
