---------------------------- MODULE MCPcre2Parse ----------------------------
(***************************************************************************)
(* Patterns printed from syntax trees, for what a pattern means, and       *)
(* concatenations of pieces of patterns, valid or not, for the rest.       *)
(***************************************************************************)
EXTENDS Pcre2Syntax

Node(k, written, items) == [k |-> k, text |-> written, items |-> items]
Bracketed(kind, written, alts, items) ==
  [k |-> "group", kind |-> kind, text |-> written, alts |-> alts, items |-> items]
letter == Node("atom", "a", <<<<"LIT", 97>>>>)
Setting(written, on, off) == [k |-> "set", text |-> written, on |-> on, off |-> off]
caseless == Setting("(?i)", {"CASELESS"}, {})
cased == Setting("(?-i)", {}, {"CASELESS"})
plain == Setting("(?n)", {"NO_AUTO_CAPTURE"}, {})
extended == Setting("(?x)", {"EXTENDED"}, {})
duplicates == Setting("(?J)", {"DUPNAMES"}, {})
Capture(alts) == Bracketed("capture", "(", alts, <<>>)
Groups(alts) ==
  {Capture(alts), Bracketed("reset", "(?|", alts, <<<<"NOCAPTURE">>>>),
   Bracketed("named", "(?<n>", alts, <<>>) @@ [name |-> "n"],
   Bracketed("scoped", "(?i:", alts, <<>>) @@ [on |-> {"CASELESS"}, off |-> {}],
   Bracketed("scoped", "(?-n:", alts, <<>>) @@ [on |-> {}, off |-> {"NO_AUTO_CAPTURE"}],
   Bracketed("atomic", "(?>", alts, <<<<"ATOMIC">>>>)}
MoreGroups(alts) ==
  {Bracketed("named", "(?'m'", alts, <<>>) @@ [name |-> "m"],
   Bracketed("ahead", "(?=", alts, <<<<"LOOKAHEAD">>>>),
   Bracketed("condition", "(?(1)", alts, <<<<"COND_NUMBER", 1>>>>),
   Bracketed("sr", "(*sr:", alts, <<<<"SCRIPT_RUN">>>>)}

\* Groups in groups, with settings in and around them.
Alts0 == {<<letter>>, <<caseless, letter>>, <<Capture(<<<<letter>>>>), caseless>>, <<plain>>}
Bodies0 == {<<x>> : x \in Alts0} \cup {<<x, y>> : x \in Alts0, y \in Alts0}
Groups0 == UNION {Groups(b) : b \in Bodies0}
Inner ==
  UNION {Groups(b) \cup MoreGroups(b) :
           b \in {<<<<caseless, letter>>>>, <<<<Capture(<<<<>>>>)>>, <<letter>>>>}}
Groups1 ==
  UNION {Groups(<<<<g>>, <<Capture(<<<<letter>>>>)>>>>) \cup Groups(<<<<cased>>, <<g>>>>) : g \in Inner}
Named == {g \in Groups(<<<<letter>>>>) \cup MoreGroups(<<<<letter>>>>) : g.kind \in {"named", "capture"}}
NestedTrees ==
  {<<<<x, g, y, Capture(<<<<letter>>>>)>>>> :
     x \in {letter, caseless, plain}, g \in Groups0, y \in {cased, letter}}
    \cup {<<<<x, g>>, <<cased, Capture(<<<<letter>>>>)>>>> : x \in {letter, caseless, plain}, g \in Groups1}
NamedTrees ==
  {<<<<x, Bracketed("reset", "(?|", <<<<f>>, <<g>>>>, <<<<"NOCAPTURE">>>>), h>>>> :
     x \in {letter, duplicates}, f \in Named, g \in Named, h \in Named}

\* What callouts go around.
Repeats == {Node("quant", "*", <<<<"ASTERISK", "greedy">>>>),
            Node("quant", "++", <<<<"PLUS", "possessive">>>>),
            Node("quant", "{2}(?#x)?", <<<<"MINMAX", 2, 2, "lazy">>>>)}
Items == {letter, caseless, Node("skip", "(?#x)", <<>>), Node("callout", "(?C7)", <<7>>),
          Node("blank", " ", <<>>)}
           \cup {g \in Groups(<<<<letter>>>>) : g.kind \in {"capture", "scoped"}}
TakesRepeat(node) == node.k \in {"atom", "group"}
Sequences ==
  {<<x, y, z>> : x \in Items, y \in Items, z \in Items}
    \cup {<<x, y, q, z>> : x \in Items, y \in {i \in Items : TakesRepeat(i)}, q \in Repeats, z \in Items}
\* A setting that changes nothing, before the end, leaves its length in the
\* last callout: no sequence has two settings.
CalloutSequences == {s \in Sequences : Cardinality({i \in DOMAIN s : s[i] = caseless}) < 2}
CalloutTrees == {<<s>> : s \in CalloutSequences} \cup {<<<<s[1]>>, <<s[2]>>, <<>>>> : s \in Sequences}
QuotedTrees ==
  {<<<<Node("skip", "\\Q", <<>>), letter, Node("atom", "*", <<<<"LIT", 42>>>>), e, letter>>>> :
     e \in {Node("skip", "\\E", <<>>), Node("atom", "(", <<<<"LIT", 40>>>>)}}


-----------------------------------------------------------------------------
(* Pieces of patterns.                                                     *)

Texts(prefix, pieces, n, suffix) ==
  LET from[k \in 0..n] == IF k = 0 THEN {""} ELSE {x \o y : x \in pieces, y \in from[k - 1]}
  IN  {prefix \o x \o suffix : x \in from[n]}
ClassPieces == {"[", "^", "]", "a", "-", "0", "\\d", "\\t", "[:alpha:]", "\\Q", "\\E"}
SetPieces == {"[", "]", "a", "-", "&&", "--", "&", "\\w"}
PerlPieces == {"[", "]", "(", ")", "a", "\\d", "[:^digit:]", "\\x41", "+", "-", "!", " "}
Openings ==
  {"(", "(?:", "(?|", "(?i", "(?i-s", "(?^x", "(?xx", "(?-i", "(?--i", "(?^-i", "(?aD",
   "(?a", "(?q", "(?", "(?=", "(?!", "(?*", "(?<=", "(?<!", "(?<*", "(?>", "(?<n>",
   "(?'n'", "(?P<n>", "(?<1>", "(?<n", "(?<longnames>", "(?P=n)", "(?P>n)", "(?P=", "(?P",
   "(?Px", "(?&n)", "(?&", "(?R)", "(?R", "(?0)", "(?1)", "(?+1)", "(?-1)", "(?+", "(?+x",
   "(?1(1))", "(?R(<n>,'m',+1))", "(?1(0))", "(?1(", "(?1(x", "(?&n(1", "(?99999)",
   "(?C)", "(?C255)", "(?C256)", "(?C\"x\")", "(?C{a}}b})", "(?C\"x", "(?Cx", "(?C1",
   "(?C", "(?#x)", "(?#", "(?(1)", "(?(-1)", "(?(0)", "(?(<n>)", "(?('n')", "(?(n)",
   "(?(n", "(?(", "(?(R)", "(?(R1)", "(?(R&n)", "(?(DEFINE)", "(?(VERSION>=10.4)",
   "(?(VERSION=10)", "(?(VERSION", "(?(VERSION>10)", "(?(1", "(?(?=", "(?(?<!",
   "(?(?C1)(?!", "(?(*pla:", "(?(*scs:(1)", "(?(?C1)(?C2)(?=", "(?(?:", "(?(?=\\Q\\E",
   "(?(\\E?=", "(?(?#x)", "(*pla:", "(*nlb:", "(*napla:", "(*naplb:", "(*scs:(1)",
   "(*scs:(<n>,1)", "(*scs:1", "(*atomic:", "(*sr:", "(*asr:", "(*pla", "(*zz:", "(*foo",
   "(*", "(*)", "(*ACCEPT)", "(*ACCEPT:a)", "(*F)", "(*FAIL:b)", "(*MARK:ab)", "(*:x)",
   "(*MARK)", "(*COMMIT)", "(*SKIP:a)", "(*PRUNE:", "(*THEN:)", "(*THEN", "(*:abcdefghi)",
   "(*:\\Qa)\\Eb)", "(*:\\x41\\d)", "(*:\\x41 #b)", "(*:\\y)", "(*ACCEPTED)", "(?[",
   "(?[a", "(?[a]", "(?[a])", "(?[\\Qa", "(?[a&\\w])", "[[:<:]]", "[[:>:]]", "[:a:]",
   "[.a.]", "[\\N]", "[\\R]", "[\\k\\b]", "[\\pLa-\\p{Lu}]", "[", "[^", "[]", "[^]",
   "[\\E]a]", "[ \\Q\\E^a]", "[z-a]", "[a-\\d]", "[\\d-a]", "[[:foo:]]", "[[.a.]]",
   "[\\zz]", "[[a]&&&b]", "[a&&b--c]", "[a&&]", "[a-\\x62]"}
Escaped ==
  {"", "1", "2", "8", "10", "11", "07", "0", "377", "400", "x41", "x4", "xg", "x{41}",
   "x{4", "x{}", "x{d800}", "x{100}", "o{101}", "o{ 1 }", "o{", "o", "u0041", "u{41}",
   "u{", "U", "u00", "cA", "c", "c\t", "N", "N{2}", "N{U+41}", "N{x}", "N{2,1}", "g",
   "g1", "g{1}", "g{-1}", "g{n}", "g<1>", "g<n>", "g'n'", "g'1>", "g{+1}", "g{0}", "g{1",
   "k", "k<n>", "k{n}", "k'n'", "kx", "pL", "PL", "p{^Lu}", "p{ l u }", "p{zz}", "p{L",
   "p{L&}", "p1", "h", "d", "D", "s", "W", "v", "R", "X", "C", "A", "z", "b", "B", "K",
   "G", "Q", "E", "Q\\E", "Q*\\E", "e", "y", "-", "r", "F"}
Quantified ==
  {x \o y : x \in {"a", "\\b", "()", "(*ACCEPT)", "(?(?=a)b)", "^", "", ")", "$", "."},
            y \in {"*", "+?", "{2,}+", "{,3}", "{2,1}", "{ 1 , 2 }", "{99999}", "{a", "* +", "?#\n?",
                   "**", "|"}}
Others == {"", "a(*b", "[[:alpha:][:^digit:]\\d\\W]", "[ a]", "[]", "(?C1)", "((((((((a",
           "(?|(?i:(?|(?i)(?i:(?|(?i:"}
Endings == {"", ")", "a)", "a)*"}

FromText(s, opts) == [text |-> s, opts |-> opts, tree |-> NoTree]
FromTree(tree, opts) == [text |-> TextOf(tree), opts |-> opts, tree |-> tree]
Patterns ==
  { {FromTree(tree, opts) : tree \in NestedTrees, opts \in {{}, {"NO_AUTO_CAPTURE"}}},
    {FromTree(tree, {}) : tree \in NamedTrees \cup QuotedTrees},
    {FromTree(tree, opts) : tree \in CalloutTrees \cup QuotedTrees,
                            opts \in {{"AUTO_CALLOUT"}, {"EXTENDED", "AUTO_CALLOUT"}}},
    {FromText(s, {}) : s \in Texts("[", ClassPieces, 3, "]")},
    {FromText(s, {"ALT_EXTENDED_CLASS"}) : s \in Texts("[a", SetPieces, 3, "]")},
    {FromText(s, {}) : s \in Texts("(?[", PerlPieces, 3, "])") \cup Texts("(?[[a]", PerlPieces, 2, "]")},
    {FromText(x \o y, opts) : x \in Openings, y \in Endings,
                              opts \in {{}, {"AUTO_CALLOUT", "ALT_VERBNAMES"}}},
    {FromText("()" \o "\\" \o x, opts) :
       x \in Escaped, opts \in {{}, {"UTF", "UCP"}, {"ALT_BSUX", "NEVER_BACKSLASH_C", "NO_BS0"},
                               {"EXTRA_ALT_BSUX", "UTF"}, {"PYTHON_OCTAL", "BAD_ESCAPE_IS_LITERAL"}}},
    {FromText(s, opts) : s \in Quantified, opts \in {{}, {"EXTENDED_MORE", "AUTO_CALLOUT"}}},
    {FromText(s, opts) : s \in Others,
       opts \in {{"LITERAL"}, {"LITERAL", "AUTO_CALLOUT"}, {"LITERAL", "MATCH_LINE"}, {"MATCH_WORD"},
                {"MATCH_LINE"}, {"UCP"}, {"EXTENDED_MORE"}, {"ALLOW_EMPTY_CLASS"}, {"NEVER_CALLOUT"},
                {"UCP", "ASCII_POSIX"}}} }
=============================================================================
