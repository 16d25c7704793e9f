----------------------------- MODULE MCCompatIter -----------------------------
(* Subjects of two or three characters, one of them of two bytes.           *)
EXTENDS Replace, TLC

CONSTANTS r1, r2

TwoCharacters == {0, 1, 3}
ThreeCharacters == {0, 1, 4, 5}

Unlimited(patterns) ==
    {p \in patterns : \A s \in DOMAIN p.try : HitLimit \notin ToSet(p.try[s])}

\* a\K and x\Ky: matches that start behind the start of the search.
MovedStarts ==
    {p \in {[try |-> f] : f \in [TwoCharacters ->
               {<<>>, <<Found(1, 1)>>, <<Found(3, 3)>>, <<Found(1, 3), Found(3, 3)>>}]} :
        \A s \in TwoCharacters : \A m \in ToSet(p.try[s]) : m.from >= s}

\* p under a match limit that is too small at one offset, or at none.
Limits(p) == {p} \cup {[p EXCEPT !.try[s] = <<HitLimit>>] : s \in DOMAIN p.try}

EveryCharacter(boundaries) ==
    [try |-> [s \in boundaries |->
        IF s = Max(boundaries) THEN <<>> ELSE <<Found(s, Min({b \in boundaries : b > s}))>>]]
EveryEmpty(boundaries) == [try |-> [s \in boundaries |-> <<Found(s, s)>>]]

\* Any pattern under any limits, next to one with lookbehinds.
MixedCompiled ==
    {r1 :> Limits(p) @@ r2 :> {q} :
        p \in Unlimited(Patterns(TwoCharacters, 2)) \cup MovedStarts,
        q \in {EveryCharacter(TwoCharacters), EveryEmpty(TwoCharacters)}}
    \cup {r1 :> Limits(p) @@ r2 :> {EveryCharacter(ThreeCharacters)} :
             p \in Unlimited(Patterns(ThreeCharacters, 1))}

\* The three bytes of U+FFFD may stand for a bad byte of the string.
StringsOf ==
    TwoCharacters :> {{0, 1, 3}} @@ ThreeCharacters :> {{0, 1, 4, 5}, {0, 1, 2, 3}}
SomeCounts == {-1, 0, 2}

LimitsCompiled ==
    {r1 :> Limits(p) : p \in Unlimited(Patterns(ThreeCharacters, 1))}

\* Two patterns without limits, neither of them with lookbehinds.
TwoBatched ==
    {r1 :> {EveryCharacter(ThreeCharacters)} @@ r2 :> {EveryEmpty(ThreeCharacters)}}

==============================================================================
