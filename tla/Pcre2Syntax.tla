------------------------------ MODULE Pcre2Syntax ------------------------------
(***************************************************************************)
(* What parse_regex promises the compiler, stated without it: syntax trees *)
(* with the text and the parsed pattern of each, and what every parsed     *)
(* pattern must be like.                                                   *)
(*                                                                         *)
(* A tree is a sequence of alternatives, each a sequence of nodes:         *)
(*   atom     [text, items]                                                *)
(*   quant    [text, items]     repeats the node before it                 *)
(*   skip     [text]            a comment, a blank, \Q or \E               *)
(*   set      [text, on, off]   such as (?i-x)                             *)
(*   blank    [text]            a literal, unless EXTENDED skips it        *)
(*   callout  [text, items]     items |-> <<its number>>                   *)
(*   group    [text, kind, alts]: a "capture", "named" [name], "scoped"    *)
(*            [on, off] or "reset" one, or one with [items] of its own     *)
(***************************************************************************)
EXTENDS Pcre2Parse

NoTree == <<>>

-----------------------------------------------------------------------------
(* The text of a tree.                                                     *)

RECURSIVE TextOf(_)
JoinTexts(texts, between) ==
  FoldLeft(LAMBDA acc, i : acc \o (IF i = 1 THEN "" ELSE between) \o texts[i], "",
           [i \in DOMAIN texts |-> i])
NodeText(node) == IF node.k = "group" THEN node.text \o TextOf(node.alts) \o ")" ELSE node.text
TextOf(alts) ==
  JoinTexts([i \in DOMAIN alts |-> JoinTexts([j \in DOMAIN alts[i] |-> NodeText(alts[i][j])], "")], "|")

-----------------------------------------------------------------------------
(* The pieces of a tree, in order: where each begins, counted from 0, and  *)
(* its items.  Options set in a group hold until its end, and the number   *)
(* of its captures goes on after the highest of its alternatives.          *)

Piece(st, what, items, length) ==
  [st EXCEPT !.pieces = Append(@, [what |-> what, at |-> st.at, to |-> st.at + length, items |-> items]),
             !.at = @ + length]
Meant(opts, on, off) ==
  (opts \cup on) \ (off \cup IF \/ "EXTENDED" \in on \ off /\ "EXTENDED_MORE" \notin on
                               \/ "EXTENDED" \in off THEN {"EXTENDED_MORE"} ELSE {})
OptionItems(old, new) == IF old = new THEN <<>> ELSE <<<<"OPTIONS", new>>>>
Name(st, name) ==
  IF \/ \E e \in st.named : e[2] = st.n + 1 /\ e[1] # name
     \/ "DUPNAMES" \notin st.opts /\ \E e \in st.named : e[1] = name /\ e[2] # st.n + 1
  THEN [st EXCEPT !.clash = TRUE] ELSE [st EXCEPT !.named = @ \cup {<<name, st.n + 1>>}]
Numbered(st, length) ==
  Piece([st EXCEPT !.n = @ + 1], "item", <<<<"CAPTURE", st.n + 1>>>>, length)
Opened(st, node) ==
  LET length == Len(node.text)
      new == Meant(st.opts, node.on, node.off)
  IN  CASE node.kind = "capture" ->
             IF "NO_AUTO_CAPTURE" \in st.opts THEN Piece(st, "item", <<<<"NOCAPTURE">>>>, length)
             ELSE Numbered(st, length)
        [] node.kind = "named" -> Numbered(Name(st, node.name), length)
        [] node.kind = "scoped" ->
             Piece([st EXCEPT !.opts = new], "item", <<<<"NOCAPTURE">>>> \o OptionItems(st.opts, new), length)
        [] OTHER -> Piece(st, "item", node.items, length)

RECURSIVE WithNode(_, _), WithAlts(_, _, _)
WithAlt(st, alt) == FoldLeft(WithNode, st, alt)
WithNode(st, node) ==
  LET new == Meant(st.opts, node.on, node.off)
  IN  CASE \/ node.k = "skip"
           \/ node.k = "blank" /\ "EXTENDED" \in st.opts -> [st EXCEPT !.at = @ + Len(node.text)]
        [] node.k = "set" ->
             Piece([st EXCEPT !.opts = new], "item", OptionItems(st.opts, new), Len(node.text))
        [] node.k = "group" ->
             LET open == Opened(st, node)
                 body == WithAlts(open, node.alts, node.kind = "reset")
             IN  [Piece(body, "item", <<<<"KET">>>>, 1) EXCEPT !.opts = st.opts]
        [] OTHER -> Piece(st, node.k, IF node.k = "blank" THEN <<<<"LIT", CodeOf[" "]>>>> ELSE node.items,
                          Len(node.text))
WithAlts(st, alts, reset) ==
  LET all == FoldLeft(LAMBDA acc, i :
               LET first == IF i = 1 THEN acc.st ELSE Piece(acc.st, "item", <<<<"ALT">>>>, 1)
                   after == WithAlt(IF reset THEN [first EXCEPT !.n = st.n] ELSE first, alts[i])
               IN  [st |-> after, max |-> IF after.n > acc.max THEN after.n ELSE acc.max],
               [st |-> st, max |-> st.n], [i \in DOMAIN alts |-> i])
  IN  [all.st EXCEPT !.n = all.max]

-----------------------------------------------------------------------------
(* Callouts: an automatic one before every piece but a repetition, what    *)
(* adds no item, a callout, and what follows one; its length is that of    *)
(* the piece with its repetition.                                          *)

\* Repetitions joined to what they repeat.
Joined(pieces) ==
  FoldLeft(LAMBDA acc, p : IF p.what = "quant"
                           THEN [acc EXCEPT ![Len(acc)].items = @ \o p.items]
                           ELSE Append(acc, p), <<>>, pieces)
MeantItems(pieces, end, auto) ==
  LET start(i) == IF i > Len(pieces) THEN end ELSE pieces[i].at
      manual(i) == i \in DOMAIN pieces /\ pieces[i].what = "callout"
      number(i) == <<<<"CALLOUT_NUMBER", pieces[i].to,
                       IF manual(i + 1) THEN 0 ELSE start(i + 2) - pieces[i].to, pieces[i].items[1]>>>>
      automatic(i) == IF auto /\ pieces[i].items # <<>> /\ ~manual(i - 1)
                      THEN <<<<"CALLOUT_NUMBER", pieces[i].at, start(i + 1) - pieces[i].at, 255>>>>
                      ELSE <<>>
  IN  FlattenSeq([i \in DOMAIN pieces |->
                    IF manual(i) THEN number(i) ELSE automatic(i) \o pieces[i].items])
        \o IF auto THEN <<<<"CALLOUT_NUMBER", end, 0, 255>>>> ELSE <<>>

Meaning(tree, opts) ==
  WithAlts([at |-> 0, opts |-> opts, n |-> 0, named |-> {}, clash |-> FALSE, pieces |-> <<>>], tree, FALSE)
IsAsMeant(m) ==
  IF m.clash THEN pc = "failed" /\ errorcode \in {43, 65}
  ELSE /\ pc = "done" /\ bracount = m.n
       /\ parsed = Leading(source.opts)
                     \o MeantItems(Joined(m.pieces), m.at, "AUTO_CALLOUT" \in source.opts) \o Trailing

\* The parsed pattern says what the pattern says: the nest_saves, shared by the
\* scopes of options, the numbers after (?| and more, undo at every closing
\* parenthesis what its group did and nothing else; callouts are where the
\* items are and as long; and no valid pattern is refused.
ParsedLikePattern ==
  source.tree # NoTree /\ pc \in {"done", "failed"} => IsAsMeant(Meaning(source.tree, source.opts))

-----------------------------------------------------------------------------
(* The room for the parsed pattern.                                        *)

SumOfWords(items) == FoldLeft(LAMBDA n, item : n + Words(item), 0, items)
\* parse_regex writes without a check of its own: what the text so far has
\* added fits in what max_parsed_pattern allows for that text, and at the end
\* in what pcre2_compile adds.
ParsedFits ==
  pc \in {"scan", "literal", "done"} =>
    SumOfWords(parsed) <= SumOfWords(Leading(source.opts)) + max_parsed_pattern(ptr - 1, source.opts)
      + IF pc = "done" THEN SumOfWords(Trailing) + AtTheEnd(source.opts) ELSE 0

-----------------------------------------------------------------------------
(* What compile_branch takes for granted.                                  *)

Openers == {"CAPTURE", "NOCAPTURE", "ATOMIC", "LOOKAHEAD", "LOOKAHEADNOT", "LOOKAHEAD_NA", "LOOKBEHIND",
            "LOOKBEHINDNOT", "LOOKBEHIND_NA", "SCRIPT_RUN", "COND_NUMBER", "COND_NAME", "COND_RNUMBER",
            "COND_RNAME", "COND_DEFINE", "COND_VERSION", "SCS"}
Lookarounds == {"LOOKAHEAD", "LOOKAHEADNOT", "LOOKBEHIND", "LOOKBEHINDNOT"}
Callouts == {"CALLOUT_NUMBER", "CALLOUT_STRING"}
Quantifiers == {"ASTERISK", "PLUS", "QUERY", "MINMAX"}
Classes == {"CLASS", "CLASS_NOT"}
EmptyClasses == {"CLASS_EMPTY", "CLASS_EMPTY_NOT"}
NamedVerbs == {"MARK", "COMMIT_ARG", "PRUNE_ARG", "SKIP_ARG", "THEN_ARG"}
Ranges == {"RANGE_LITERAL", "RANGE_ESCAPED"}
BinaryOperators == {"ECLASS_AND", "ECLASS_OR", "ECLASS_SUB", "ECLASS_XOR"}
Posix == {"POSIX", "POSIX_NEG"}
ClassOnly == {"CLASS_END", "ECLASS_NOT"} \cup Ranges \cup BinaryOperators \cup Posix
CanRepeat(item) ==
  \/ item[1] \in {"LIT", "DOT", "BACKREF", "BACKREF_BYNAME", "RECURSE", "RECURSE_BYNAME", "CAPTURE_NUMBER",
                  "CAPTURE_NAME"} \cup EmptyClasses
  \/ item[1] = "ESCAPE" /\ item[2] \notin CharsOf("AbBGKzZ")

\* A reader of parsed patterns: the brackets it is in, what it has read last,
\* the characters of a verb's name to come, the last literal of a class.
Start == [ok |-> TRUE, in |-> <<>>, last |-> "none", name |-> 0, lit |-> 0]
Bad(rd) == [rd EXCEPT !.ok = FALSE]
Goes(rd, ok, last) == [rd EXCEPT !.ok = ok, !.last = last]
Within(rd, ok, brackets) == [rd EXCEPT !.ok = ok, !.in = @ \o brackets, !.last = "none"]

\* Outside a class.
ReadItem(rd, item) ==
  CASE rd.name > 0 -> [Goes(rd, item[1] = "LIT", "fixed") EXCEPT !.name = @ - 1]
    [] item[1] \in Quantifiers -> Goes(rd, rd.last = "repeatable", "fixed")
    [] item[1] = "COND_ASSERT" -> Within(rd, TRUE, <<"group", "condition">>)
    [] item[1] \in Openers -> Within(rd, TRUE, <<"group">>)
    [] item[1] \in Classes -> Within(rd, TRUE, <<IF item[2] THEN "extended" ELSE "class">>)
    [] item[1] = "KET" ->
         IF rd.in = <<>> THEN Bad(rd)
         ELSE [Goes(rd, Last(rd.in) \in {"group", "assertion"},
                    IF Last(rd.in) = "group" THEN "repeatable" ELSE "fixed") EXCEPT !.in = Front(@)]
    [] item[1] \in NamedVerbs -> [Goes(rd, TRUE, "fixed") EXCEPT !.name = item[2]]
    [] item[1] \in ClassOnly -> Bad(rd)
    [] OTHER -> Goes(rd, TRUE, IF CanRepeat(item) THEN "repeatable" ELSE "fixed")
\* After (?( comes an assertion, or one callout before it.
ReadCondition(rd, item) ==
  CASE item[1] \in Lookarounds -> [rd EXCEPT !.in = Append(Front(@), "assertion"), !.last = "none"]
    [] item[1] \in Callouts -> Goes(rd, rd.last # "callout", "callout")
    [] OTHER -> Bad(rd)
\* In a class.  In an extended one of Perl's, operands and operators alternate.
ReadElement(rd, item) ==
  LET extended == Last(rd.in) = "extended"
      strict == extended /\ "ALT_EXTENDED_CLASS" \notin source.opts
      operand == rd.last # "range" /\ (strict => rd.last \in {"none", "operator"})
  IN  CASE item[1] = "LIT" ->
             [Goes(rd, IF rd.last = "range" THEN rd.lit < item[2] ELSE operand,
                   IF rd.last = "range" THEN "operand" ELSE "literal") EXCEPT !.lit = item[2]]
        [] item[1] \in Ranges -> Goes(rd, rd.last = "literal" /\ ~strict, "range")
        [] item[1] \in Posix \cup {"ESCAPE"} -> Goes(rd, operand, "operand")
        [] item[1] \in EmptyClasses -> Goes(rd, extended /\ operand, "operand")
        [] item[1] \in Classes ->
             Within(rd, extended /\ operand, <<IF item[2] THEN "extended" ELSE "class">>)
        [] item[1] \in BinaryOperators -> Goes(rd, extended /\ rd.last \in {"operand", "literal"}, "operator")
        [] item[1] = "ECLASS_NOT" -> Goes(rd, extended /\ rd.last \in {"none", "operator"}, "operator")
        [] item[1] = "CLASS_END" ->
             [Goes(rd, rd.last \in {"operand", "literal"},
                   IF Len(rd.in) > 1 /\ rd.in[Len(rd.in) - 1] \in {"class", "extended"} THEN "operand"
                   ELSE "repeatable") EXCEPT !.in = Front(@)]
        [] OTHER -> Bad(rd)
ReadNext(rd, item) ==
  CASE ~rd.ok -> rd
    [] rd.ok /\ rd.in # <<>> /\ Last(rd.in) \in {"class", "extended"} -> ReadElement(rd, item)
    [] rd.ok /\ rd.in # <<>> /\ Last(rd.in) = "condition" -> ReadCondition(rd, item)
    [] OTHER -> ReadItem(rd, item)
IsWellFormed(rd) == rd.ok /\ rd.in = <<>> /\ rd.name = 0

\* The compiler reads the parsed pattern without looking whether it is one: its
\* brackets match; what is repeated can be; a condition has an assertion, with
\* at most a callout before it; ranges are in order; the operands of an
\* extended class are where its operators need them.
ParsedIsWellFormed == pc = "done" => IsWellFormed(FoldLeft(ReadNext, Start, parsed))
=============================================================================
