--------------------------- MODULE MCEcmaLookbehind ---------------------------
(* Expressions of the shapes of the tests of ECMAScript lookbehinds, with   *)
(* every body of up to three atoms, on subjects over two characters.         *)
EXTENDS EcmaLookbehind

Many == 9
Quantified(a, min, max) == [a EXCEPT !.q = <<min, max>>]
Plus(a) == Quantified(a, 1, Many)
Behind(body) == Look("behind", FALSE, body)
NotBehind(body) == Look("behind", TRUE, body)
a == Char("a")
b == Char("b")

\* What may stand in a body, next to the group number 2.
Plain == {a, AnyChar, Plus(AnyChar), Quantified(a, 0, 1), Ref(1), Ref(2), Anchor("start"),
          Look("ahead", FALSE, <<<<a>>>>), Look("ahead", TRUE, <<<<b, AnyChar>>>>),
          Behind(<<<<b>>, <<AnyChar, a>>>>), NotBehind(<<<<Ref(1)>>>>)}
Captures == {Capture(2, <<<<AnyChar>>>>), Plus(Capture(2, <<<<AnyChar>>>>)),
             Quantified(Capture(2, <<<<AnyChar>>>>), 2, 2),
             Capture(2, <<<<Plus(AnyChar)>>>>), Capture(2, <<<<a>>, <<a, AnyChar>>>>),
             Capture(2, <<<<Ref(1), a>>>>)}

\* A group, alone or between up to two other atoms, or two atoms.
Bodies == {<<x>> : x \in Captures} \cup {<<x, y>> : x \in Plain, y \in Plain}
          \cup {<<x, y>> : x \in Plain, y \in Captures}
          \cup {<<y, x>> : x \in Plain, y \in Captures}
          \cup {<<x, y, z>> : x \in Plain, y \in Captures, z \in {AnyChar, Ref(1)}}

WithGroup(body) == 2 \in ToSet(Opened(<<body>>))
One == Capture(1, <<<<AnyChar>>>>)

MCExpressions ==
    \* (.)(?<=body) and its negation
    {<<<<One, Behind(<<x>>)>>>> : x \in {y \in Bodies : WithGroup(y)}}
    \cup {<<<<One, NotBehind(<<x>>), AnyChar>>>> : x \in {y \in Bodies : WithGroup(y)}}
    \* (.+)(?<=(x|y)): the alternatives, and a backtracking main pattern
    \cup {<<<<Capture(1, <<<<Plus(AnyChar)>>>>),
              Behind(<<<<Capture(2, <<<<x>>, <<y, AnyChar>>>>)>>>>), Ref(2)>>>> :
             x \in Plain \ {Ref(2)}, y \in Plain \ {Ref(2)}}
    \* (?<=x(.\3)y(\2)).: references both ways
    \cup {<<<<Behind(<<<<x, Capture(1, <<<<AnyChar, Ref(2)>>>>), y,
                         Capture(2, <<<<Ref(1)>>>>)>>>>), AnyChar>>>> :
             x \in {a, AnyChar}, y \in {a, b}}
    \* (?<=(..)?)(?<=\1(.)): one lookbehind reads another one's groups
    \cup {<<<<Plus(AnyChar), Behind(<<<<Quantified(Capture(1, <<<<x, AnyChar>>>>), 0, 1)>>>>),
              Behind(<<<<y, Capture(2, <<<<AnyChar>>>>)>>>>), Capture(3, <<<<Ref(1)>>>>)>>>> :
             x \in {a, AnyChar}, y \in {Ref(1), Ref(2), a}}
MCSubjects == {s \in SeqOf({"a", "b"}, 4) : Len(s) > 1}

\* (.b)+(?<=^\1+): a quantified reference to a group outside.
QuantifiedExpressions ==
    {<<<<Plus(Capture(1, <<<<AnyChar, x>>>>)), Behind(<<<<Anchor("start"), Plus(Ref(1))>>>>)>>>> :
        x \in {b, AnyChar}}

\* (?<=(?=(.){2})..): a repeated group in a nested lookahead.
LookaheadExpressions ==
    {<<<<Behind(<<<<Look("ahead", FALSE, <<<<Quantified(Capture(1, <<<<x>>>>), 2, 2)>>>>),
                    AnyChar, AnyChar>>>>)>>>> : x \in {a, AnyChar}}
===============================================================================
