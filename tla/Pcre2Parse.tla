------------------------------ MODULE Pcre2Parse ------------------------------
(***************************************************************************)
(* parse_regex, which turns a pattern into the parsed pattern that the     *)
(* compiler reads twice, and finds its groups and their names.  One step   *)
(* is one pass of its main loop, or of the loop over a class.              *)
(***************************************************************************)
EXTENDS Pcre2ParseClass

Scanning == pc = "scan" /\ ~AtEnd /\ nest_depth <= PARENS_NEST_LIMIT
\* Only the position, and what else a text without items changes.
SkipTo(to) ==
  /\ ptr' = to
  /\ UNCHANGED <<ended, parsed, scope, groups, quantified, verb, expect_cond_assert, callouts, class>>
NestTooDeep == pc = "scan" /\ ~AtEnd /\ nest_depth > PARENS_NEST_LIMIT /\ Fail(19)

-----------------------------------------------------------------------------
(* Quoted text, names of verbs, and what is skipped.                       *)

EndsQuote == c = "\\" /\ Ahead(1) = "E"
LiteralQuoted ==
  LET managed == IF after_manual_callout > 0
                 THEN [items |-> parsed, previous |-> previous_callout]
                 ELSE manage_callouts(parsed, previous_callout, ptr)
  IN  /\ parsed' = Append(managed.items, <<"LIT", CodeOf[c]>>)
      /\ previous_callout' = managed.previous
      /\ after_manual_callout' = IF after_manual_callout > 0 THEN after_manual_callout - 1 ELSE 0
      /\ okquantifier' = TRUE
Quoted ==
  /\ Scanning /\ inescq
  /\ ptr' = IF EndsQuote THEN ptr + 2 ELSE ptr + 1
  /\ inescq' = ~EndsQuote
  /\ CASE EndsQuote -> UNCHANGED <<parsed, quantified, callouts>>
       [] ~EndsQuote /\ verb.open ->
            /\ parsed' = Append(parsed, <<"LIT", CodeOf[c]>>)
            /\ meta_quantifier' = ""
            /\ UNCHANGED <<okquantifier, callouts>>
       [] OTHER -> LiteralQuoted /\ meta_quantifier' = ""
  /\ UNCHANGED <<ended, scope, groups, verb, expect_cond_assert, class>>

\* The name of a verb: characters up to a parenthesis.
NameItems(items, to, quoted, repeatable) ==
  /\ parsed' = parsed \o items /\ ptr' = to /\ inescq' = quoted
  /\ okquantifier' = (okquantifier \/ repeatable)
  /\ UNCHANGED <<ended, scope, groups, meta_quantifier, verb, expect_cond_assert, callouts, class>>
EndOfName ==
  IF ptr - verb.from > MAX_MARK THEN Fail(76)
  ELSE /\ parsed' = [parsed EXCEPT ![verb.at][2] = Len(parsed) - verb.at] \o verb.next
       /\ ptr' = ptr + 1 /\ verb' = [verb EXCEPT !.open = FALSE]
       /\ UNCHANGED <<ended, scope, groups, quantified, inescq, expect_cond_assert, callouts, class>>
NameEscape(e) ==
  CASE e.k = "error" -> Fail(e.err)
    [] e.k = "char" -> NameItems(<<<<"LIT", e.v>>>>, e.at, FALSE, FALSE)
    [] e.k = "esc" /\ e.v = "ub" ->
         NameItems(<<<<"LIT", CodeOf["u"]>>, <<"LIT", CodeOf["{"]>>>>, e.at, FALSE, TRUE)
    [] e.k = "esc" /\ e.v \in {"Q", "E"} -> NameItems(<<>>, e.at, e.v = "Q", FALSE)
    [] OTHER -> Fail(40)
VerbName ==
  /\ Scanning /\ ~inescq /\ Verbatim
  /\ CASE c = ")" -> EndOfName
       [] c = "\\" /\ "ALT_VERBNAMES" \in options ->
            NameEscape(check_escape(text, ptr + 1, options, bracount, FALSE))
       [] OTHER -> NameItems(<<<<"LIT", CodeOf[c]>>>>, ptr + 1, FALSE, FALSE)

Unquoted == Scanning /\ ~inescq /\ ~Verbatim
\* \Q and \E: an assertion that is expected allows only \Q\E.
QuoteMark ==
  /\ Unquoted /\ IsQuoteMark
  /\ IF /\ expect_cond_assert > 0 /\ Ahead(1) = "Q"
        /\ ~(Ahead(2) = "\\" /\ Ahead(3) = "E")
     THEN Fail(28)
     ELSE inescq' = (Ahead(1) = "Q") /\ SkipTo(ptr + 2)
ExtendedSpace ==
  /\ Unquoted /\ IsExtendedSpace
  /\ SkipTo(IF c = "#" THEN CommentEnd(ptr + 1) ELSE ptr + 1)
  /\ UNCHANGED inescq
Comment ==
  LET end == After(text, ptr + 3, (CharsOf(Printable) \cup Space) \ {")"})
  IN  /\ Unquoted /\ IsComment
      /\ IF end > Len(text) THEN Fail(18) ELSE SkipTo(end + 1) /\ UNCHANGED inescq

-----------------------------------------------------------------------------
(* Literals, escapes and the other single characters.                      *)

Special == {"\\", "^", "$", ".", "*", "+", "?", "{", "[", "(", "|", ")"}
NoCondAssert ==
  /\ Unquoted /\ ~IsQuoteMark /\ ~IsExtendedSpace /\ ~IsComment
  /\ expect_cond_assert > 0 /\ ~IsCondAssert
  /\ Fail(28)
Literal ==
  /\ AtItem /\ c \notin Special
  /\ TakeOnly(<<<<"LIT", CodeOf[c]>>>>, ptr + 1, TRUE)
Circumflex == AtItem /\ c = "^" /\ TakeOnly(<<<<"CIRCUMFLEX">>>>, ptr + 1, FALSE)
Dollar == AtItem /\ c = "$" /\ TakeOnly(<<<<"DOLLAR">>>>, ptr + 1, FALSE)
Dot == AtItem /\ c = "." /\ TakeOnly(<<<<"DOT">>>>, ptr + 1, TRUE)

\* \g<n> and \g<name>, \k<name> and \g{name}; at is that of the delimiter.
\* What is found is [item, at], after the terminator.
Found(item, at) == [ok |-> TRUE, err |-> 0, item |-> item, at |-> at]
Missing(err) == [ok |-> FALSE, err |-> err, item |-> <<>>, at |-> 0]
NamedItem(meta, name) ==
  IF name.ok THEN Found(<<meta, name.v>>, name.at) ELSE Missing(name.err)
Subroutine(at, n, name) ==
  CASE n.ok -> IF Ch(text, n.at) # TerminatorOf[Ch(text, at)] THEN Missing(119)
               ELSE Found(<<"RECURSE", n.v>>, n.at + 1)
    [] n.err # 0 -> Missing(n.err)
    [] OTHER -> NamedItem("RECURSE_BYNAME", name)
Reference(escape, at) ==
  LET name == read_name(text, at, TerminatorOf[Ch(text, at)])
  IN  CASE Ch(text, at) \notin DOMAIN TerminatorOf -> Missing(IF escape = "g" THEN 57 ELSE 69)
        [] escape = "g" /\ Ch(text, at) \in {"<", "'"} ->
             Subroutine(at, read_number(text, at + 1, bracount, MAX_GROUP_NUMBER, 61), name)
        [] OTHER -> NamedItem("BACKREF_BYNAME", name)
Property(escape, read) ==
  IF read.ok THEN Found(PropertyItem(escape, read.v, FALSE), read.at) ELSE Missing(read.err)
\* The item of an escape that is not a character.
EscapeItem(e) ==
  CASE e.k = "ref" -> Found(<<"BACKREF", e.v>>, e.at)
    [] e.k = "error" -> Missing(e.err)
    [] OTHER ->
         CASE e.v = "C" /\ "NEVER_BACKSLASH_C" \in options -> Missing(83)
           [] e.v \in CharsOf("dDsSwW") -> Found(handle_escdsw(e.v), e.at)
           [] e.v \in {"p", "P"} -> Property(e.v, get_ucp(text, e.at))
           [] e.v \in {"g", "k"} -> Reference(e.v, e.at)
           [] OTHER -> Found(<<"ESCAPE", e.v>>, e.at)
Repeatable(item) == item[1] = "ESCAPE" => item[2] \in CharsOf("CXHhNRVvdDsSwWpP")
TakeEscape(found) ==
  CASE found.ok -> TakeOnly(<<found.item>>, found.at, Repeatable(found.item))
    [] ~found.ok /\ IsLiteralInstead ->
         TakeOnly(<<<<"LIT", LiteralInstead(ptr + 1).v>>>>, LiteralInstead(ptr + 1).at, TRUE)
    [] OTHER -> Fail(found.err)
EscapeAs(e) ==
  CASE e.k = "char" -> TakeOnly(<<<<"LIT", e.v>>>>, e.at, TRUE)
    [] e.k = "esc" /\ e.v = "ub" ->
         TakeOnly(<<<<"LIT", CodeOf["u"]>>, <<"LIT", CodeOf["{"]>>>>, e.at, TRUE)
    [] OTHER -> TakeEscape(EscapeItem(e))
EscapeSequence ==
  AtItem /\ c = "\\" /\ EscapeAs(check_escape(text, ptr + 1, options, bracount, FALSE))

-----------------------------------------------------------------------------
(* Quantifiers.                                                            *)

Repeated(items, quantifier, to) ==
  /\ parsed' = Append(items, quantifier) /\ ptr' = to
  /\ okquantifier' = FALSE /\ meta_quantifier' = quantifier[1]
  /\ UNCHANGED <<ended, scope, groups, modes, expect_cond_assert, callouts, class>>
\* A repeated ACCEPT gets brackets, from the MARK that has its name.
Wrapped == SubSeq(parsed, 1, verb.at - 1) \o <<<<"NOCAPTURE">>>>
             \o SubSeq(parsed, verb.at, Len(parsed)) \o <<<<"KET">>>>
Quantifier ==
  LET items == IF Last(parsed) = <<"ACCEPT">> THEN Wrapped ELSE parsed
  IN  /\ AtItem /\ IsQuantifier
      /\ CASE ~okquantifier -> Fail(9)
           [] okquantifier /\ c = "{" ->
                Repeated(items, <<"MINMAX", counts.v[1], counts.v[2], "greedy">>, counts.at)
           [] OTHER -> Repeated(items, <<CASE c = "*" -> "ASTERISK" [] c = "+" -> "PLUS"
                                           [] OTHER -> "QUERY", "greedy">>, ptr + 1)
\* A brace that begins no quantifier.
Brace ==
  /\ AtItem /\ c = "{" /\ ~counts.ok
  /\ IF counts.err # 0 THEN Fail(counts.err) ELSE TakeOnly(<<<<"LIT", CodeOf["{"]>>>>, ptr + 1, TRUE)
\* + or ? after a quantifier, comments between them or not.
Modifier ==
  LET mode1 == IF c = "?" THEN "lazy" ELSE "possessive"
      field == IF meta_quantifier = "MINMAX" THEN 4 ELSE 2
  IN  /\ Unquoted /\ ~IsQuoteMark /\ ~IsExtendedSpace /\ ~IsComment /\ expect_cond_assert <= 0
      /\ IsModifier
      /\ parsed' = [parsed EXCEPT ![Len(parsed)][field] = mode1]
      /\ ptr' = ptr + 1 /\ okquantifier' = FALSE /\ meta_quantifier' = ""
      /\ expect_cond_assert' = 0
      /\ UNCHANGED <<ended, scope, groups, modes, callouts, class>>

-----------------------------------------------------------------------------
(* A literal pattern, the end, and the specification.                      *)

LiteralPattern ==
  LET managed == IF "AUTO_CALLOUT" \in options THEN manage_callouts(parsed, previous_callout, ptr)
                 ELSE [items |-> parsed, previous |-> previous_callout]
  IN  /\ pc = "literal" /\ ~AtEnd
      /\ parsed' = Append(managed.items, <<"LIT", CodeOf[c]>>) /\ ptr' = ptr + 1
      /\ previous_callout' = managed.previous /\ okquantifier' = TRUE
      /\ UNCHANGED <<ended, scope, groups, meta_quantifier, modes, expect_cond_assert,
                     after_manual_callout, class>>

Trailing == CASE "MATCH_LINE" \in source.opts -> <<<<"KET">>, <<"DOLLAR">>>>
              [] "MATCH_WORD" \in source.opts \ {"MATCH_LINE"} -> <<<<"KET">>, <<"ESCAPE", "b">>>>
              [] OTHER -> <<>>
End ==
  LET managed == manage_callouts(parsed, previous_callout, ptr)
  IN  /\ pc \in {"scan", "literal"} /\ AtEnd
      /\ CASE verb.open -> Fail(60)
           [] ~verb.open /\ nest_depth # 0 -> Fail(14)
           [] OTHER -> /\ pc' = "done" /\ parsed' = managed.items \o Trailing
                       /\ previous_callout' = managed.previous
                       /\ UNCHANGED <<source, errorcode, ptr, scope, groups, quantified, modes,
                                      expect_cond_assert, after_manual_callout, class>>

Next == \/ NestTooDeep \/ Quoted \/ VerbName \/ QuoteMark \/ ExtendedSpace \/ Comment
        \/ NoCondAssert \/ Literal \/ Circumflex \/ Dollar \/ Dot \/ EscapeSequence
        \/ Quantifier \/ Brace \/ Modifier \/ LiteralPattern \/ End
        \/ Group \/ Class
Spec == Init /\ [][Next]_vars /\ WF_vars(Next)

-----------------------------------------------------------------------------
(* What the ends of groups rely on.                                        *)

\* The nest_saves stay in the workspace, and each is for an open group of its
\* own, a deeper one for each: so a closing parenthesis restores what its own
\* group has saved, and no save outlives its group.
SavesAreInStep ==
  /\ nest_depth \in 0..(PARENS_NEST_LIMIT + 1)
  /\ Len(nests) <= MAX_NESTS
  /\ \A i \in DOMAIN nests :
       /\ nests[i].depth <= nest_depth
       /\ \A j \in 1..(i - 1) : nests[j].depth < nests[i].depth
\* Outside all groups, and so at the end, every name is that of a group that is
\* counted, though branches of (?| count from the same number again and
\* again: what is allocated for groups has room for each name.
NamesAreCounted ==
  nest_depth = 0 => \A i \in DOMAIN names : names[i].n \in 1..bracount
=============================================================================
