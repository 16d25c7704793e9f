---------------------------- MODULE MCPcre2Search ---------------------------
(* Patterns of the shapes that the compiler and its optimizations tell      *)
(* apart, on short subjects.  The comments give them in the usual notation. *)
EXTENDS Pcre2Search

a == Lit("a")
b == Lit("b")
c == Lit("c")
ai == LitI("a")
A == Lit("A")
ab == Class({"a", "b"})
dot == Simple("any")
dotall == Simple("allany")
Star(t) == Times(t, 0, Unlimited, "greedy")
Plus(t) == Times(t, 1, Unlimited, "greedy")
Opt(t) == Times(t, 0, 1, "greedy")
Or(t, u) == <<<<t>>, <<u>>>>
Zero == {Simple(k) : k \in {"circm", "doll", "dollm", "eod", "eodn", "wordb", "nwordb"}}

\* An iterator and what follows it: a* (?:a|b), A?+ $ ...
After == {a, A, ai, b, NotLit("b"), Class({"b", "c"}), dot, Opt(b), Plain(Or(a, b)),
          Opt(Plain(<<<<b, a>>>>)), Atomic(<<<<Star(a)>>>>)} \cup Zero
Iterated == {Star(a), Times(a, 0, Unlimited, "lazy"), Times(a, 1, 3, "possessive"), Opt(ai),
             Times(ai, 2, Unlimited, "greedy"), Plus(ab), Times(ab, 0, 2, "lazy"),
             Times(dot, 1, 2, "greedy"), Times(dot, 1, 3, "possessive"), Star(Class({"A", "a"})),
             Times([NotLit("a") EXCEPT !.i = TRUE], 1, Unlimited, "lazy"), Star(NotLit("b")), Times(dotall, 0, Unlimited, "possessive")}
Iterators == {<<<<x, y>>>> : x \in Iterated, y \in After}

\* Quantified brackets between literals: a(a|b)*b, (?:a|){2,}+a ...
Bodies == {<<<<a>>>>, <<<<a>>, <<b, a>>>>, <<<<a>>, <<>>>>, <<<<Star(a)>>, <<b>>>>}
Quantifiers ==
  {Quant(0, 0, "greedy"), Quant(0, 1, "lazy"), Quant(0, 1, "possessive"), Quant(2, 2, "greedy"),
   Quant(0, Unlimited, "greedy"), Quant(1, Unlimited, "lazy"), Quant(0, Unlimited, "possessive"),
   Quant(1, 3, "greedy"), Quant(2, Unlimited, "possessive")}
Groups == {<<<<[g EXCEPT !.q = q], t>>>> : g \in {Cap(1, y) : y \in Bodies}, q \in Quantifiers, t \in {b, Ref(1, TRUE)}}
          \cup {<<<<[g EXCEPT !.q = q], a>>>> :
                  g \in {Plain(y) : y \in Bodies} \cup {Atomic(Or(Star(a), b)), Look("ahead", <<<<a>>>>)},
                  q \in Quantifiers}

\* Branches that agree and disagree on their first and last characters.
Branch == {<<a, b>>, <<A, b>>, <<ai, b>>, <<a>>, <<Star(a), b>>, <<Plus(b)>>, <<>>,
           <<Look("ahead", <<<<a>>>>), dot, b>>, <<Cap(1, Or(a, c)), b>>}
Alternations == {<<x, y>> : x, y \in Branch} \ {<<x, x>> : x \in Branch}

\* Where a match can start: (?m)^a, .*a|.*b, (.*)b\1, (?>.*)b ...
dots == {<<Star(dot), a>>, <<Star(dotall), a>>, <<Simple("circ"), a>>, <<Simple("circm"), a>>,
         <<Cap(1, <<<<Star(dot)>>>>), b, Ref(1, FALSE)>>, <<Cap(1, <<<<Star(dot)>>>>), b>>,
         <<Atomic(<<<<Star(dot)>>>>), b>>, <<Look("ahead", <<<<Star(dot), b>>>>), a>>,
         <<Simple("wordb"), ab>>, <<Times(Cap(1, <<<<a>>>>), 0, 0, "greedy"), Simple("circ"), a>>,
         <<IfSet(1, <<<<Star(dot)>>, <<Star(dot)>>>>), Cap(1, <<<<a>>>>)>>}
Starts == {<<x>> : x \in dots} \cup {<<x, y>> : x \in dots, y \in {<<b>>, <<Star(dot), b>>}}

\* Lookarounds, conditions, calls and recursion.
Looks == {
  <<<<Look("ahead", <<<<a>>, <<a, b>>>>), dot>>>>,
  <<<<Look("notahead", <<<<a, b>>>>), ai, dot>>>>,
  <<<<Look("notahead", <<<<>>>>)>>, <<b>>>>,
  <<<<Look("behind", <<<<a>>, <<b, b>>>>), dot>>>>,
  <<<<Look("notbehind", <<<<a, Opt(b)>>>>), b>>>>,
  <<<<Look("behind", <<<<Cap(1, <<<<a>>>>)>>>>), Ref(1, FALSE)>>>>,
  <<<<Cap(1, <<<<Opt(a)>>>>), Look("behind", <<<<Call(1)>>>>), b>>>>,
  <<<<Opt(Cap(1, <<<<a>>>>)), IfSet(1, <<<<b>>, <<c>>>>)>>>>,
  <<<<Star(Cap(1, <<<<a>>>>)), IfSet(1, <<<<b>>>>), dot>>>>,
  <<<<Times(IfSet(1, <<<<b>>, <<Cap(1, <<<<a>>>>)>>>>), 0, Unlimited, "possessive"), c>>>>,
  <<<<Cap(1, <<<<a, Opt(Call(1)), b>>>>)>>>>,
  <<<<Cap(1, <<<<a>>, <<b, Call(1), a>>>>), Times(Call(1), 1, 2, "lazy")>>>>,
  <<<<Cap(1, <<<<a>>, <<>>>>), Star(Call(1)), b>>>>,
  <<<<a, Opt(Call(0)), b>>>>,
  <<<<Times(Cap(1, <<<<a>>>>), 0, 0, "greedy"), Times(Call(1), 2, 2, "greedy"), b>>>>,
  <<<<Star(Cap(1, <<<<a>>, <<b>>>>)), Ref(1, FALSE), Plus(Ref(1, TRUE))>>>>}

\* Types, properties and newline sequences, and what they are compared with.
d == Type("d", FALSE)
s == Type("s", FALSE)
w == Type("w", FALSE)
R == Simple("anynl")
Typed == {Plus(d), Times(s, 0, 2, "lazy"), Star(Type("s", TRUE)), Times(w, 1, 2, "possessive"),
          Times(Type("w", TRUE), 2, 2, "greedy"), Star(Type("h", FALSE)), Opt(Type("v", TRUE)),
          Plus(Type("v", FALSE)), Star(R), Times(R, 1, 2, "lazy"), Times(R, 1, 2, "greedy"),
          Star(Prop("Lu", FALSE, FALSE)), Plus(Prop("Lu", TRUE, TRUE)), Opt(Prop("N", FALSE, FALSE)),
          Star(Prop("Xan", TRUE, FALSE)), Plus(Prop("Xsp", FALSE, FALSE)), Star(Lit("1")), Plus(Prop("Xwd", FALSE, FALSE)),
          Plus(Class({"1", "SP"})), Plus(dot)}
AfterTyped == {d, s, w, R, dot, Lit("1"), Lit("LF"), Class({"a", "1"}), NotLit("1"),
               Type("d", TRUE), Type("h", FALSE), Type("v", TRUE), Prop("L", FALSE, FALSE),
               Prop("Lu", TRUE, FALSE), Prop("Nd", FALSE, FALSE), Prop("Xan", FALSE, FALSE), Prop("P", FALSE, FALSE),
               Prop("Xsp", TRUE, FALSE), Simple("doll"), Simple("wordb")}
\* The tables of auto_possessify are wrong about some of these: \R before \s
\* and ., . before \R, \P{L&} before \p{Xan} and \p{Xwd} before \p{Pc}, each
\* way round (the run search_possess).
Mistaken(x, y) ==
  \/ x.k = "anynl" /\ y \in {s, dot}
  \/ x.k = "any" /\ y.k = "anynl"
  \/ x.k = "prop" /\ y.k = "prop" /\ {x.p, y.p} \in {{"Lu", "Xan"}, {"Lamp", "Xan"}, {"Xwd", "Pc"}}
Types == {<<z>> : z \in {z \in Typed \X AfterTyped : ~Mistaken(z[1], z[2])}}
         \cup {<<<<Look("behind", <<<<R>>, <<d, d>>>>), dot>>>>, <<<<Look("ahead", <<<<a>>>>), w, d>>>>,
               <<<<Simple("som"), w>>, <<Simple("circ"), s>>>>, <<<<Simple("som"), Star(w), s>>>>}

Families == Groups \cup Alternations \cup Starts \cup Looks
MCPrograms ==
  {[p |-> Pattern(alts), opts |-> {}] : alts \in Iterators \cup Families \cup Types}
  \cup {[p |-> Pattern(alts), opts |-> {o}] : alts \in Starts \cup Looks,
                                              o \in {"ANCHORED", "FIRSTLINE", "ENDANCHORED"}}
  \cup {[p |-> Pattern(alts), opts |-> {"MATCH_UNSET_BACKREF"}] :
           alts \in {<<<<Opt(Cap(1, <<<<a>>>>)), Times(Ref(1, FALSE), 0, 2, x), b>>>> :
                      x \in {"greedy", "lazy", "possessive"}}
                   \cup {<<<<Ref(1, TRUE), Cap(1, <<<<a>>, <<b>>>>), Ref(1, TRUE)>>>>,
                         <<<<Times(Ref(1, FALSE), 2, 2, "greedy"), a>>, <<Cap(1, <<<<b>>>>)>>>>}}
MCSubjects == SeqOf({"a", "A", "b", "LF"}, 2) \cup [1..3 -> {"a", "b", "LF"}] \cup [1..3 -> {"A", "a", "b"}]
              \cup [1..4 -> {"a", "b"}]
              \cup {<<"b", "A", "c">>, <<"A", "a", "b", "b">>}
Plainly == [s : MCSubjects, offset : {0}, opts : {{}}]
           \cup [s : [1..2 -> {"a", "LF", "b"}], offset : {1}, opts : {{}, {"ANCHORED"}, {"NOTEMPTY_ATSTART"}}]
           \cup [s : [1..2 -> {"a", "b"}], offset : {0}, opts : {{"NOTEMPTY"}, {"ENDANCHORED"}}]
           \cup [s : [1..2 -> {"a", "LF"}], offset : {0, 1}, opts : {{"NOTBOL"}, {"NOTEOL"}}]
TypedSubjects == SeqOf({"a", "A", "1", "SP", "LF", "CR"}, 2)
                 \cup {<<"1", "1">>, <<"a", "_">>, <<"_", "_">>,
                       <<"CR", "LF", "1">>, <<"CR", "LF", "LF">>, <<"a", "CR", "LF">>,
                       <<"1", "1", "a">>, <<"SP", "HT", "1">>, <<"LF", "CR", "LF">>, <<"A", "b", "A">>}
TableMistakes ==
  {<<<<Plus(x[1]), x[2]>>>> : x \in
     {<<R, s>>, <<R, dot>>, <<dot, R>>, <<Prop("Lamp", TRUE, FALSE), Prop("Xan", FALSE, FALSE)>>,
      <<Prop("Xwd", FALSE, FALSE), Prop("Pc", FALSE, FALSE)>>}}
IsTyped(g) == g.p.alts \in Types \cup TableMistakes
MCCalls(g) ==
  IF IsTyped(g)
  THEN [s : TypedSubjects, offset : {0}, opts : {{}}]
       \cup [s : [1..2 -> {"1", "SP"}], offset : {1}, opts : {{}, {"NOTEMPTY"}}]
  ELSE Plainly

\* a*(?>b?|c)a: what follows the iterator is an atomic group whose first
\* branch may be empty; and what the tables are wrong about.
Overlooked == {[p |-> Pattern(alts), opts |-> {}] : alts \in
  {<<<<Star(a), Atomic(Or(Opt(b), x)), a>>>> : x \in {b, c}} \cup TableMistakes}
=============================================================================
