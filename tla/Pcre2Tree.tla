----------------------------- MODULE Pcre2Tree ------------------------------
(***************************************************************************)
(* Patterns as trees, and what they mean.                                  *)
(*                                                                         *)
(* Nothing here is translated from the engine: this is the reading of a    *)
(* pattern that the engine's documentation gives (alternatives are tried   *)
(* from left to right, a greedy repeat tries another round first, an       *)
(* atomic group keeps its first way to match ...), and the modules that    *)
(* model the engine are compared with it.                                  *)
(*                                                                         *)
(* A pattern is [alts, top]: a sequence of alternatives, each a sequence   *)
(* of items, and the highest group number.  An item has a kind k, the      *)
(* fields of that kind, and a quantifier q.                                *)
(***************************************************************************)
EXTENDS Naturals, Sequences, SequencesExt

\* The alphabet: two letters that differ in case only, two that have no
\* other case here, two digits, the low line, the space and the tab, the
\* newline and the carriage return.
Letters == {"A", "a", "b", "c"}
Digits == {"1", "2"}
Spaces == {"SP", "HT"}
Newlines == {"LF", "CR"}
Chars == Letters \cup Digits \cup {"_"} \cup Spaces \cup Newlines
OtherCase(c) == CASE c = "A" -> "a" [] c = "a" -> "A" [] OTHER -> c
SameCaseless(c, d) == d \in {c, OtherCase(c)}
\* The order of the code points.
CodePoints ==
  [HT |-> 9, LF |-> 10, CR |-> 13, SP |-> 32, A |-> 65, a |-> 97, b |-> 98, c |-> 99]
    @@ ("1" :> 49 @@ "2" :> 50 @@ "_" :> 95)
CodePoint(c) == CodePoints[c]
\* \d \s \w \h \v, and some of the properties \p{...}.
TypeSet == [d |-> Digits, s |-> Spaces \cup Newlines, w |-> Letters \cup Digits \cup {"_"},
            h |-> Spaces, v |-> Newlines]
PropSet == [L |-> Letters, Lu |-> {"A"}, Ll |-> Letters \ {"A"}, N |-> Digits,
            Nd |-> Digits, P |-> {"_"}, Pc |-> {"_"}, Z |-> {"SP"}, Zs |-> {"SP"}, C |-> Newlines \cup {"HT"},
            Lamp |-> Letters, Xan |-> Letters \cup Digits,
            Xsp |-> Spaces \cup Newlines, Xwd |-> Letters \cup Digits \cup {"_"}]

-----------------------------------------------------------------------------
(* Building patterns.                                                      *)

Unlimited == 99
Less(max) == IF max = Unlimited THEN max ELSE max - 1
Quant(min, max, mode) == [min |-> min, max |-> max, mode |-> mode]
One == Quant(1, 1, "greedy")

Lit(c)    == [k |-> "char", c |-> c, i |-> FALSE, q |-> One]
LitI(c)   == [k |-> "char", c |-> c, i |-> TRUE, q |-> One]
NotLit(c) == [k |-> "not", c |-> c, i |-> FALSE, q |-> One]
Class(s)  == [k |-> "class", s |-> s, q |-> One]
Type(t, neg) == [k |-> "type", t |-> t, neg |-> neg, q |-> One]
Prop(p, neg, i) == [k |-> "prop", p |-> p, neg |-> neg, i |-> i, q |-> One]
Simple(k) == [k |-> k, q |-> One]         \* any allany anynl circ circm doll
                                          \* dollm sod som eod eodn wordb nwordb
Ref(n, i) == [k |-> "ref", n |-> n, i |-> i, q |-> One]
Call(n)   == [k |-> "recurse", n |-> n, q |-> One]
Group(g, n, alts) == [k |-> "group", g |-> g, n |-> n, alts |-> alts, q |-> One]
Cap(n, alts)  == Group("capture", n, alts)
Plain(alts)   == Group("plain", 0, alts)
Atomic(alts)  == Group("atomic", 0, alts)
Look(g, alts) == Group(g, 0, alts)        \* ahead notahead behind notbehind
IfSet(n, alts) == Group("cond", n, alts)
Times(t, min, max, mode) == [t EXCEPT !.q = Quant(min, max, mode)]

Singles == {"char", "not", "class", "any", "allany", "type", "prop"}
\* The groups of a sequence of alternatives, at any depth.
RECURSIVE GroupsIn(_)
GroupsIn(alts) ==
  LET groups == {t \in UNION {ToSet(b) : b \in ToSet(alts)} : t.k = "group"}
  IN  groups \cup UNION {GroupsIn(t.alts) : t \in groups}
Captures(alts) == {t \in GroupsIn(alts) : t.g = "capture"}
Pattern(alts) ==
  [alts |-> alts, top |-> Cardinality({t.n : t \in Captures(alts)})]
\* The items of group n, 0 for the whole pattern.
Body(p, n) ==
  IF n = 0 THEN p.alts ELSE (CHOOSE t \in Captures(p.alts) : t.n = n).alts

-----------------------------------------------------------------------------
(* What a pattern matches.  A way to match so far is [at, caps]: the       *)
(* position in the subject, and the spans of the groups that are set.      *)
(* Each operator gives the ways to match, in the order in which they are   *)
(* tried.  x is [s, p, offset, opts]: the subject, the pattern, where the  *)
(* search began, and the options of the pattern and of the call.           *)

IsSingle(t, ch) ==
  CASE t.k = "char"   -> IF t.i THEN SameCaseless(t.c, ch) ELSE ch = t.c
    [] t.k = "not"    -> IF t.i THEN ~SameCaseless(t.c, ch) ELSE ch # t.c
    [] t.k = "class"  -> ch \in t.s
    [] t.k = "any"    -> ch # "LF"
    [] t.k = "allany" -> TRUE
    [] t.k = "type"   -> (ch \in TypeSet[t.t]) # t.neg
    [] t.k = "prop"   ->
         (ch \in PropSet[IF t.i /\ t.p \in {"Lu", "Ll"} THEN "Lamp" ELSE t.p]) # t.neg

IsWord(s, at) == at \in 1..Len(s) /\ s[at] \in TypeSet.w
Holds(k, x, at) ==
  LET s == x.s
      atEnd == at = Len(s)
      beforeLastNewline == at + 1 = Len(s) /\ s[Len(s)] = "LF"
      bol == at = 0 /\ "NOTBOL" \notin x.opts
      eol == atEnd /\ "NOTEOL" \notin x.opts
  IN  CASE k = "sod" -> at = 0
        [] k = "som" -> at = x.offset
        [] k = "circ" -> bol
        [] k = "circm" -> bol \/ (at > 0 /\ s[at] = "LF" /\ ~atEnd)
        [] k = "doll" -> eol \/ ("NOTEOL" \notin x.opts /\ beforeLastNewline)
        [] k = "eodn" -> atEnd \/ beforeLastNewline
        [] k = "dollm" -> IF atEnd THEN eol ELSE s[at + 1] = "LF"
        [] k = "eod" -> atEnd
        [] k = "wordb" -> IsWord(s, at) # IsWord(s, at + 1)
        [] k = "nwordb" -> IsWord(s, at) = IsWord(s, at + 1)

\* The subject again holds, at position at, what it holds in a span.
Again(s, span, caseless, at) ==
  /\ at + span[2] - span[1] <= Len(s)
  /\ \A j \in 1..(span[2] - span[1]) :
       IF caseless THEN SameCaseless(s[span[1] + j], s[at + j])
                   ELSE s[span[1] + j] = s[at + j]

\* Every way on from every one of the ways so far, and the first way only.
Chain(ways, On(_)) ==
  LET on[i \in 0..Len(ways)] == IF i = 0 THEN <<>> ELSE on[i - 1] \o On(ways[i])
  IN  on[Len(ways)]
FirstOnly(ways) == IF ways = <<>> THEN <<>> ELSE <<ways[1]>>
Only(holds, m) == IF holds THEN <<m>> ELSE <<>>

RECURSIVE Ways(_, _, _), Rounds(_, _, _, _, _)
WaysOf(alts, x, m) == Chain(alts, LAMBDA items : Ways(items, x, m))

Behind(alts, x, m) ==
  Chain(alts, LAMBDA items :
    Chain([i \in 1..(m.at + 1) |-> i - 1], LAMBDA from :
      SelectSeq(Ways(items, x, [m EXCEPT !.at = from]),
                LAMBDA w : w.at = m.at)))

OnceGroup(t, x, m) ==
  CASE t.g = "plain" -> WaysOf(t.alts, x, m)
    [] t.g = "capture" ->
         Chain(WaysOf(t.alts, x, m), LAMBDA w :
           <<[w EXCEPT !.caps = (t.n :> <<m.at, w.at>>) @@ @]>>)
    [] t.g = "atomic" -> FirstOnly(WaysOf(t.alts, x, m))
    [] t.g = "ahead" ->
         Chain(FirstOnly(WaysOf(t.alts, x, m)),
               LAMBDA w : <<[w EXCEPT !.at = m.at]>>)
    [] t.g = "notahead" -> Only(WaysOf(t.alts, x, m) = <<>>, m)
    [] t.g = "behind" -> FirstOnly(Behind(t.alts, x, m))
    [] t.g = "notbehind" -> Only(Behind(t.alts, x, m) = <<>>, m)
    [] t.g = "cond" ->
         IF t.n \in DOMAIN m.caps THEN Ways(t.alts[1], x, m)
         ELSE IF Len(t.alts) = 2 THEN Ways(t.alts[2], x, m)
         ELSE <<m>>

Once(t, x, m) ==
  CASE t.k \in Singles ->
         Only(m.at < Len(x.s) /\ IsSingle(t, x.s[m.at + 1]),
              [m EXCEPT !.at = @ + 1])
    [] t.k = "anynl" ->
         LET crlf == SubSeq(x.s, m.at + 1, IF m.at + 2 > Len(x.s) THEN Len(x.s) ELSE m.at + 2) = <<"CR", "LF">>
         IN  Only(m.at < Len(x.s) /\ x.s[m.at + 1] \in TypeSet.v,
                  [m EXCEPT !.at = @ + IF crlf THEN 2 ELSE 1])
    [] t.k = "ref" ->
         IF t.n \notin DOMAIN m.caps
         THEN Only("MATCH_UNSET_BACKREF" \in x.opts, m) ELSE
         LET span == m.caps[t.n]
         IN  Only(Again(x.s, span, t.i, m.at),
                  [m EXCEPT !.at = @ + span[2] - span[1]])
    [] t.k = "recurse" ->
         Chain(WaysOf(Body(x.p, t.n), x, m),
               LAMBDA w : <<[w EXCEPT !.caps = m.caps]>>)
    [] t.k = "group" -> OnceGroup(t, x, m)
    [] OTHER -> Only(Holds(t.k, x, m.at), m)

\* Between min and max rounds of t; a round of an unlimited repeat that
\* matches the empty string is the last one.
OrNone(t, min, m, round) ==
  CASE min > 0 -> round
    [] t.q.mode = "lazy" -> <<m>> \o round
    [] OTHER -> round \o <<m>>
Rounds(t, min, max, x, m) ==
  IF max = 0 THEN <<m>>
  ELSE OrNone(t, min, m,
         Chain(Once(t, x, m), LAMBDA w :
           IF max = Unlimited /\ min < 2 /\ w.at = m.at THEN <<w>>
           ELSE Rounds(t, IF min = 0 THEN 0 ELSE min - 1, Less(max), x, w)))

Kept(t, ways) == IF t.q.mode = "possessive" THEN FirstOnly(ways) ELSE ways
Ways(items, x, m) ==
  IF items = <<>> THEN <<m>>
  ELSE Chain(Kept(items[1], Rounds(items[1], items[1].q.min, items[1].q.max, x, m)),
             LAMBDA w : Ways(Tail(items), x, w))

\* The ways in which a pattern matches at a position.
MatchWays(p, s, offset, opts, at) ==
  WaysOf(p.alts, [s |-> s, p |-> p, offset |-> offset, opts |-> opts],
         [at |-> at, caps |-> <<>>])
=============================================================================
