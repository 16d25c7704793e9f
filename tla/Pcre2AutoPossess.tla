-------------------------- MODULE Pcre2AutoPossess --------------------------
(***************************************************************************)
(* pcre2_auto_possess.c: an iterator becomes possessive when nothing that  *)
(* can follow it matches a character it matches, or when it is greedy and  *)
(* nothing follows it.  The limit of 1000 on the depth of the comparison   *)
(* is not reached by the patterns here.                                    *)
(***************************************************************************)
EXTENDS Pcre2Scan

\* autoposstab: after this, nothing of that can match what this matches.
AtEnd == {"EODN", "EOD", "DOLL", "DOLLM"}
autoposstab == [
  NOT_DIGIT      |-> {"DIGIT", "EOD"},
  DIGIT          |-> {"NOT_DIGIT", "WHITESPACE", "NOT_WORDCHAR", "ANYNL", "HSPACE", "VSPACE"} \cup AtEnd,
  NOT_WHITESPACE |-> {"WHITESPACE", "ANYNL", "HSPACE", "VSPACE"} \cup AtEnd,
  WHITESPACE     |-> {"DIGIT", "NOT_WHITESPACE", "WORDCHAR", "EOD"},
  NOT_WORDCHAR   |-> {"DIGIT", "WORDCHAR", "EOD"},
  WORDCHAR       |-> {"WHITESPACE", "NOT_WORDCHAR", "ANYNL", "HSPACE", "VSPACE"} \cup AtEnd,
  ANY            |-> {"ANYNL", "EOD"},
  ALLANY         |-> {"EOD"},
  ANYNL          |-> {"DIGIT", "WHITESPACE", "WORDCHAR", "ANY", "HSPACE", "EOD"},
  NOT_HSPACE     |-> {"HSPACE", "EOD"},
  HSPACE         |-> {"DIGIT", "NOT_WHITESPACE", "WORDCHAR", "ANYNL", "NOT_HSPACE", "VSPACE", "EOD"},
  NOT_VSPACE     |-> {"ANYNL", "VSPACE", "EOD"},
  VSPACE         |-> {"DIGIT", "NOT_WHITESPACE", "WORDCHAR", "HSPACE", "NOT_VSPACE", "EOD"}]

\* propposstab: how two properties are compared, by their types.
Special == {"LAMP", "ALNUM", "SPACE", "WORD"}
propposstab(left, right) ==
  CASE {left, right} \in {{"LAMP", "SPACE"}, {"ALNUM", "SPACE"}, {"SPACE", "WORD"}} -> "distinct"
    [] left = right /\ left \in {"GC", "PC"} -> "same"
    [] left = right \/ {left, right} = {"LAMP", "ALNUM"} -> "opposite"
    [] left = "GC" /\ right = "PC" -> "right particular"
    [] left = "PC" /\ right = "GC" -> "left particular"
    [] left \in Special \ {"LAMP"} /\ right \in {"GC", "PC"} -> "left special"
    [] left \in {"GC", "PC"} /\ right \in Special \ {"LAMP"} -> "right special"
    [] OTHER -> "never"
\* catposstab: the particular category is not part of the general one.
catposstab(general, particular) == ucp_gentype[particular] # general
\* posspropstab: the categories a special set consists of, and the general and
\* the particular category that hold more than its other members.
posspropstab == [ALNUM |-> <<"L", "N", "N", "Nl">>, SPACE |-> <<"Z", "Z", "C", "Cc">>,
                 WORD |-> <<"L", "N", "P", "Po">>]

\* check_char_prop: a character and a property have nothing in common.
CharAgainstProp(c, y) ==
  LET gentype == ucp_gentype[chartype[c]]
      in == CASE y.pt = "LAMP" -> chartype[c] \in {"Lu", "Ll", "Lt"}
              [] y.pt = "GC" -> y.pd = gentype
              [] y.pt = "PC" -> y.pd = chartype[c]
              [] y.pt = "ALNUM" -> gentype \in {"L", "N"}
              [] y.pt = "WORD" -> gentype \in {"L", "N"} \/ c = "_"
              [] y.pt = "SPACE" -> c \in HSPACE_CASES \cup VSPACE_CASES \/ gentype = "Z"
  IN  in = (y.op = "NOTPROP")

\* A special set against a category: the first two categories of its row are
\* all in the set, the other is only partly.
SpecialAgainst(special, other) ==
  LET p == posspropstab[special.pt]
      is == special.op = "PROP"
      apart == IF other.pt = "GC"
               THEN other.pd \notin {p[1], p[2]} /\ (other.pd # p[3] \/ ~is)
               ELSE /\ catposstab(p[1], other.pd) /\ catposstab(p[2], other.pd)
                    /\ other.pd # p[4] \/ ~is
  IN  other.op = "PROP" /\ is = apart
PropAgainstProp(x, y) ==
  LET same == x.op = y.op
      how == propposstab(x.pt, y.pt)
  IN  CASE how = "distinct" -> x.op = "PROP" /\ y.op = "PROP"
        [] how = "same" -> (x.pd = y.pd) # same
        [] how = "opposite" -> ~same
        [] how = "right particular" -> y.op = "PROP" /\ catposstab(x.pd, y.pd) = same
        [] how = "left particular" -> x.op = "PROP" /\ catposstab(y.pd, x.pd) = same
        [] how = "left special" -> SpecialAgainst(x, y)
        [] how = "right special" -> SpecialAgainst(y, x)
        [] OTHER -> FALSE

\* get_chr_property_list: what a simple item says of one character.
Literal(y) == y.op \in {"CHAR", "CHARI"}
Negated(y) == y.op \in {"NOT", "NOTI"}
IsProp(y) == y.op \in {"PROP", "NOTPROP"}
\* Mutant: a caseless item lists the character as it is written only.
ListedOneCase(y) == {y.c}
Listed(y) == {y.c} \cup IF y.op \in {"CHARI", "NOTI"} THEN {OtherCase(y.c)} ELSE {}
Comparable(y) == IsSingleOp(y) \/ y.op \in AtEnd
MayBeEmpty(y) == IsSingleOp(y) /\ y.lo = 0

\* No character of a literal item matches y.
NoneMatches(chars, y) ==
  CASE Literal(y) -> chars \cap Listed(y) = {}
    [] Negated(y) -> chars \subseteq Listed(y)
    [] y.op = "CLASS" -> chars \cap y.s = {}
    [] y.op \in DOMAIN TypeChars -> chars \cap TypeChars[y.op] = {}
    [] IsProp(y) -> \A c \in chars : CharAgainstProp(c, y)
    [] y.op \in {"DOLL", "EODN"} -> chars \cap VSPACE_CASES = {}
    [] OTHER -> y.op = "EOD"
\* A class against a class, or a type that has a bitmap.
ClassAgainst(s, y) ==
  CASE y.op = "CLASS" -> s \cap y.s = {}
    [] y.op \in {"DIGIT", "NOT_DIGIT", "WHITESPACE", "NOT_WHITESPACE", "WORDCHAR",
                 "NOT_WORDCHAR"} -> s \cap TypeChars[y.op] = {}
    [] OTHER -> FALSE
Disjoint(x, y) ==
  CASE Literal(x) -> NoneMatches(Listed(x), y)
    [] Literal(y) -> NoneMatches(Listed(y), x)
    [] x.op = "CLASS" -> ClassAgainst(x.s, y)
    [] y.op = "CLASS" -> ClassAgainst(y.s, x)
    [] IsProp(x) -> y.op = "EOD" \/ (IsProp(y) /\ PropAgainstProp(x, y))
    [] OTHER -> x.op \in DOMAIN autoposstab /\ y.op \in autoposstab[x.op]

\* compare_opcodes: x may be possessive when these items, and then what is
\* around, come next.  around holds the brackets that are open, the innermost
\* first, each with what comes after it.  entered says that a bracket was
\* entered since x; it is forgotten for all branches but the last.
Shape(y) == IF y.ket = "possessive" THEN "POS" ELSE IF y.s THEN "S" ELSE "plain"
Enterable(y) == /\ y.op = "ONCE" \/ (y.op \in {"BRA", "CBRA"} /\ Shape(y) = "plain")
                /\ y.zero \in {"no", "greedy", "lazy"}
VariableReverse(y) ==
  \E i \in DOMAIN y.alts : /\ y.alts[i] # <<>>
                           /\ y.alts[i][1].op = "REVERSE"
                           /\ y.alts[i][1].lo < y.alts[i][1].hi

RECURSIVE MayPossess(_, _, _, _, _), AtKet(_, _, _, _)
\* The end of a branch: on with what comes after the bracket, unless it may
\* loop, is called from elsewhere, or is one that keeps what it matched.
AtKet(x, around, entered, recurses) ==
  LET g == around[1].bracket
  IN  /\ g.ket \in {"once", "possessive"}
      /\ CASE g.op \in {"ASSERT", "ASSERT_NOT", "ONCE"} -> ~entered
           [] g.op \in Assertions -> ~VariableReverse(g) /\ ~entered
           [] OTHER -> /\ ~(g.op = "CBRA" /\ recurses)
                       /\ MayPossess(x, around[1].after, Tail(around), entered, recurses)
\* A bracket: each of its branches, and what follows when it may be left out.
AtBracket(x, items, around, recurses) ==
  LET y == items[1]
      after == Tail(items)
  IN  /\ Enterable(y)
      /\ y.zero # "no" => MayPossess(x, after, around, FALSE, recurses)
      /\ \A i \in DOMAIN y.alts :
           MayPossess(x, y.alts[i], <<[bracket |-> y, after |-> after]>> \o around,
                      i = Len(y.alts), recurses)
MayPossess(x, items, around, entered, recurses) ==
  IF items = <<>> THEN
    /\ x.mode = "greedy"
    /\ around = <<>> \/ AtKet(x, around, entered, recurses)
  ELSE CASE IsBracket(items[1]) -> AtBracket(x, items, around, recurses)
         [] Comparable(items[1]) ->
              /\ Disjoint(x, items[1])
              /\ MayBeEmpty(items[1]) => MayPossess(x, Tail(items), around, entered, recurses)
         [] OTHER -> FALSE

\* auto_possessify: every iterator of the code, at any depth.
Iterator(y) == IsSingleOp(y) /\ ~IsOne(y) /\ y.mode # "possessive"
               /\ (IsExact(y) => y.op = "CLASS")
RECURSIVE Possessify(_, _, _), PossessifyBranch(_, _, _)
PossessifyBranch(items, around, recurses) ==
  IF items = <<>> THEN <<>> ELSE
  LET y == items[1]
      after == Tail(items)
      item ==
        CASE IsBracket(y) ->
               [y EXCEPT !.alts = Possessify(y.alts,
                  <<[bracket |-> y, after |-> after]>> \o around, recurses)]
          [] Iterator(y) /\ MayPossess(y, after, around, FALSE, recurses) ->
               [y EXCEPT !.mode = "possessive"]
          [] OTHER -> y
  IN  <<item>> \o PossessifyBranch(after, around, recurses)
Possessify(alts, around, recurses) ==
  IF alts = <<>> THEN <<>>
  ELSE <<PossessifyBranch(alts[1], around, recurses)>>
         \o Possessify(Tail(alts), around, recurses)
AutoPossessify(code) ==
  Possessify(code, <<>>, \E y \in ItemsIn(code) : y.op = "RECURSE")
=============================================================================
