---------------------------- MODULE Pcre2ParseClass ----------------------------
(***************************************************************************)
(* parse_regex in a character class.  class is what the loop over its      *)
(* contents keeps:                                                         *)
(*   mode      "NORMAL", "ALT_EXT" (UTS#18), "PERL_EXT" or "PERL_EXT_LEAF" *)
(*   used      for each open class, the operator it has had; its length is *)
(*             class_depth_m1 + 1                                          *)
(*   maxdepth  of nesting so far                                           *)
(*   range     "NO", "STARTED", "FORBID_NO", "FORBID_STARTED",             *)
(*             "OK_ESCAPED" or "OK_LITERAL"                                *)
(*   op        "EMPTY", "OPERAND" or "OPERATOR"                            *)
(*   start     class_start, an index in parsed, 0 for NULL                 *)
(* An item that opens a class says whether operators or classes are in it. *)
(***************************************************************************)
EXTENDS Pcre2ParseGroup

CONSTANT ECLASS_NEST_LIMIT

\* The six characters after the [ of [[:<:]] and [[:>:]].
Weird == {"[:<:]]", "[:>:]]"}
IsWeird == ptr + 6 <= Len(text) /\ SubSeq(text, ptr + 1, ptr + 6) \in Weird
WordChar == IF "UCP" \in options THEN <<"ESCAPE", "p", "Word">> ELSE <<"ESCAPE", "w">>
WordBoundary ==
  /\ AtItem /\ c = "[" /\ IsWeird
  /\ TakeOnly(<<<<"ESCAPE", "b">>, <<IF Ahead(3) = "<" THEN "LOOKAHEAD" ELSE "LOOKBEHIND">>,
                WordChar, <<"KET">>>>, ptr + 7, TRUE)

StartClassAt(at, mode) ==
  /\ Take(<<>>, at, TRUE)
  /\ pc' = "class"
  /\ class' = [mode |-> mode, used |-> <<>>, maxdepth |-> 0,
               range |-> "NO", op |-> "EMPTY", start |-> 0]
  /\ UNCHANGED <<source, errorcode, scope, groups, modes>>
StartClass ==
  /\ AtItem /\ c = "[" /\ ~IsWeird
  /\ IF Ahead(1) \in {":", ".", "="} /\ check_posix_syntax(text, ptr + 1).ok
     THEN Fail(IF Ahead(1) = ":" THEN 12 ELSE 13)
     ELSE StartClassAt(ptr, IF "ALT_EXTENDED_CLASS" \in options THEN "ALT_EXT" ELSE "NORMAL")
StartPerlClass == PerlGroup /\ Kind = "[" /\ StartClassAt(ptr + 2, "PERL_EXT")

-----------------------------------------------------------------------------
(* One pass of the loop.                                                   *)

InClass == pc = "class"
mode == class.mode
Perl == mode = "PERL_EXT"
outer == class.used = <<>>
\* The next character of the class, if there is one.  (ERR14, for a Perl class
\* whose parenthesis is not closed, is overwritten at once.)
ContinueQuoted(items, cl, to, quoted) ==
  IF to > Len(text)
  THEN Fail(IF cl.mode = "ALT_EXT" /\ Len(cl.used) = 1 /\ cl.maxdepth = 2 THEN 112 ELSE 6)
  ELSE /\ parsed' = items /\ class' = cl /\ ptr' = to /\ inescq' = quoted
       /\ UNCHANGED <<ended, scope, groups, quantified, verb, expect_cond_assert, callouts>>
Continue(items, cl, to) == ContinueQuoted(items, cl, to, inescq)
\* The class is complete.
EndClass(items, to) ==
  /\ parsed' = items /\ ptr' = to /\ class' = NoClass /\ pc' = "scan"
  /\ UNCHANGED <<source, errorcode, scope, groups, quantified, modes, expect_cond_assert, callouts>>

\* The class around, if it has had nothing else, is an extended one.
Extended(cl) == IF cl.start = 0 THEN parsed ELSE [parsed EXCEPT ![cl.start][2] = TRUE]
\* A hyphen that started a range turns out to be a literal.
Minus == <<"LIT", CodeOf["-"]>>
Dangling(items) ==
  IF class.range = "STARTED" THEN [items EXCEPT ![Len(items)] = Minus] ELSE items
ImplicitUnion == class.op = "OPERAND" /\ Perl
Operand(cl, range) == [cl EXCEPT !.range = range, !.op = "OPERAND"]

\* What is at ptr, outside \Q...\E.
IsClassSpace == c \in Blank /\ ("EXTENDED_MORE" \in options \/ mode \in {"PERL_EXT", "PERL_EXT_LEAF"})
IsPosixElement ==
  /\ ~outer /\ c = "[" /\ ptr + 3 <= Len(text) /\ Ahead(1) \in {":", ".", "="}
  /\ check_posix_syntax(text, ptr + 1).ok
IsOpening == \/ c = "[" /\ (outer \/ mode \in {"ALT_EXT", "PERL_EXT"})
             \/ c = "(" /\ Perl
IsClosing == c = "]" \/ (c = ")" /\ Perl)
IsOperator == CASE Perl -> c \in {"+", "|", "-", "&", "^"}
                [] mode = "ALT_EXT" -> c \in {"|", "-", "&", "~"} /\ Ahead(1) = c
                [] OTHER -> FALSE
Element ==
  IF inescq THEN "quoted"
  ELSE IF IsClassSpace THEN "space"
  ELSE IF IsPosixElement THEN "posix"
  ELSE IF IsOpening THEN "open"
  ELSE IF IsClosing THEN "close"
  ELSE IF IsOperator THEN "operator"
  ELSE IF Perl /\ c = "!" THEN "not"
  ELSE IF c = "\\" THEN "escape"
  ELSE IF Perl THEN "forbidden"
  ELSE IF c = "-" /\ class.range \in {"OK_ESCAPED", "OK_LITERAL", "FORBID_NO"} THEN "hyphen"
  ELSE "literal"

\* A literal: the end of a range, or the possible start of one.
AddLiteral(code, to, isLiteral) ==
  LET from == parsed[Len(parsed) - 1][2]
      range == IF ~isLiteral /\ Last(parsed) = <<"RANGE_LITERAL">>
               THEN [parsed EXCEPT ![Len(parsed)] = <<"RANGE_ESCAPED">>] ELSE parsed
  IN  CASE ImplicitUnion -> Fail(113)
        [] ~ImplicitUnion /\ class.range = "STARTED" ->
             IF from > code THEN Fail(8)
             ELSE Continue(IF from = code THEN Front(parsed) ELSE Append(range, <<"LIT", code>>),
                           Operand(class, "NO"), to)
        [] ~ImplicitUnion /\ class.range = "FORBID_STARTED" -> Fail(50)
        [] OTHER -> Continue(Append(parsed, <<"LIT", code>>),
                             Operand(class, IF isLiteral THEN "OK_LITERAL" ELSE "OK_ESCAPED"), to)
ClassLiteral == InClass /\ Element = "literal" /\ AddLiteral(CodeOf[c], ptr + 1, TRUE)
ClassForbidden == InClass /\ Element = "forbidden" /\ Fail(116)
ClassQuoted ==
  /\ InClass /\ Element = "quoted"
  /\ CASE c = "\\" /\ Ahead(1) = "E" -> ContinueQuoted(parsed, class, ptr + 2, FALSE)
       [] OTHER -> IF Perl THEN Fail(116) ELSE AddLiteral(CodeOf[c], ptr + 1, TRUE)
ClassSpace == InClass /\ Element = "space" /\ Continue(parsed, class, ptr + 1)
\* After a literal, a range; after a set, to be followed by the end only.
ClassHyphen ==
  /\ InClass /\ Element = "hyphen"
  /\ IF class.range = "FORBID_NO"
     THEN Continue(Append(parsed, Minus), [class EXCEPT !.range = "FORBID_STARTED"], ptr + 1)
     ELSE Continue(Append(parsed, <<IF class.range = "OK_LITERAL" THEN "RANGE_LITERAL"
                                    ELSE "RANGE_ESCAPED">>),
                   [class EXCEPT !.range = "STARTED"], ptr + 1)

\* A set of characters: it is no end of a range.
AddSet(item, to) ==
  CASE class.range \in {"STARTED", "FORBID_STARTED"} -> Fail(50)
    [] class.range \notin {"STARTED", "FORBID_STARTED"} /\ ImplicitUnion -> Fail(113)
    [] OTHER -> Continue(Append(parsed, item), Operand(class, "FORBID_NO"), to)

posix_names == {"alpha", "lower", "upper", "alnum", "ascii", "blank", "cntrl", "digit", "graph",
                "print", "punct", "space", "word", "xdigit"}
posix_substitutes ==
  [alpha |-> "L", lower |-> "Ll", upper |-> "Lu", alnum |-> "Xan", cntrl |-> "Cc", digit |-> "Nd",
   graph |-> "PxGraph", print |-> "PxPrint", punct |-> "PxPunct", space |-> "Space",
   word |-> "Word", xdigit |-> "PxXdigit"]
\* Its item, by its name and whether it is negated.
PosixItem(name, negated) ==
  LET ucp == /\ "UCP" \in options /\ "ASCII_POSIX" \notin options
             /\ ~("ASCII_DIGIT" \in options /\ name \in {"digit", "xdigit"})
  IN  CASE ucp /\ name \in DOMAIN posix_substitutes ->
             <<"ESCAPE", IF negated THEN "P" ELSE "p", posix_substitutes[name]>>
        [] ucp /\ name = "blank" -> <<"ESCAPE", IF negated THEN "H" ELSE "h">>
        [] OTHER -> <<IF negated THEN "POSIX_NEG" ELSE "POSIX", name>>
ClassPosix ==
  LET end == check_posix_syntax(text, ptr + 1).at
      negated == Ahead(2) = "^"
      name == SubSeq(text, IF negated THEN ptr + 3 ELSE ptr + 2, end - 1)
  IN  /\ InClass /\ Element = "posix"
      /\ CASE \/ class.range \in {"STARTED", "FORBID_STARTED"}
              \/ ImplicitUnion -> AddSet(<<>>, end + 2)
           [] OTHER ->
                CASE Ahead(1) # ":" -> Fail(13)
                  [] Ahead(1) = ":" /\ name \notin posix_names -> Fail(30)
                  [] OTHER -> AddSet(PosixItem(name, negated), end + 2)

-----------------------------------------------------------------------------
(* The brackets of classes.                                                *)

\* From after an opening bracket, the first character that counts, and
\* whether there is a circumflex before it.
FirstOf(at, new) ==
  LET blanks == IF "EXTENDED_MORE" \in options \/ new = "PERL_EXT_LEAF" THEN Blank ELSE {}
      from[i \in at..(Len(text) + 4), negated \in BOOLEAN] ==
        CASE Ch(text, i) = "\\" /\ Ch(text, i + 1) = "E" -> from[i + 2, negated]
          [] i + 3 <= Len(text) /\ SubSeq(text, i, i + 3) = "\\Q\\E" -> from[i + 4, negated]
          [] Ch(text, i) \in blanks -> from[i + 1, negated]
          [] Ch(text, i) = "^" /\ ~negated -> from[i + 1, TRUE]
          [] OTHER -> <<i, negated>>
  IN  IF new = "PERL_EXT" THEN <<at, FALSE>> ELSE from[at, FALSE]

\* A class without contents, which an option allows.
EmptyClass(items, negated, to) ==
  LET all == Append(items, <<IF negated THEN "CLASS_EMPTY_NOT" ELSE "CLASS_EMPTY">>)
  IN  IF outer THEN EndClass(all, to)
      ELSE Continue(all, [Operand(class, "NO") EXCEPT !.start = 0], to)
\* at is that of the first character, which may be a ] for itself.
EnterClass(items, negated, at, new) ==
  LET opened == Append(items, <<IF negated THEN "CLASS_NOT" ELSE "CLASS", FALSE>>)
      deeper == [class EXCEPT !.mode = new, !.used = Append(@, ""), !.range = "NO", !.op = "EMPTY",
                              !.start = Len(opened),
                              !.maxdepth = IF @ > Len(class.used) THEN @ ELSE Len(class.used) + 1]
  IN  IF Ch(text, at) = "]" /\ new # "PERL_EXT"
      THEN Continue(Append(opened, <<"LIT", CodeOf["]"]>>), Operand(deeper, "OK_LITERAL"), at + 1)
      ELSE Continue(opened, deeper, at)
ClassOpenTo(new, first) ==
  CASE first[1] > Len(text) -> Fail(IF c = "(" THEN 14 ELSE 6)
    [] /\ Ch(text, first[1]) = "]" /\ "ALLOW_EMPTY_CLASS" \in source.opts
       /\ new \in {"NORMAL", "ALT_EXT"} ->
         EmptyClass(Dangling(Extended(class)), first[2], first[1] + 1)
    [] OTHER -> EnterClass(Dangling(Extended(class)), first[2], first[1], new)
ClassOpen ==
  LET new == IF c = "[" /\ Perl /\ ~outer THEN "PERL_EXT_LEAF" ELSE mode
  IN  /\ InClass /\ Element = "open"
      /\ CASE ImplicitUnion -> Fail(113)
           [] ~ImplicitUnion /\ Len(class.used) >= ECLASS_NEST_LIMIT -> Fail(107)
           [] OTHER -> ClassOpenTo(new, FirstOf(ptr + 1, new))

\* Mutant: the mode of a Perl class stays that of its leaf.
CloseInnerInLeaf(items) ==
  Continue(items, [Operand(class, "NO") EXCEPT !.used = Front(@), !.start = 0], ptr + 1)
CloseInner(items) ==
  Continue(items, [Operand(class, "NO") EXCEPT !.used = Front(@), !.start = 0,
                                               !.mode = IF @ = "PERL_EXT_LEAF" THEN "PERL_EXT" ELSE @],
           ptr + 1)
ClassClose ==
  LET items == Append(Dangling(parsed), <<"CLASS_END">>)
      last == Len(class.used) = 1
  IN  /\ InClass /\ Element = "close"
      /\ CASE Perl /\ c = "]" /\ ~last -> Fail(14)
           [] Perl /\ c = ")" /\ last -> Fail(22)
           [] OTHER ->
                CASE class.op = "OPERATOR" -> Fail(110)
                  [] Perl /\ class.op = "EMPTY" -> Fail(114)
                  [] OTHER ->
                       CASE ~last -> CloseInner(items)
                         [] last /\ ~Perl -> EndClass(items, ptr + 1)
                         [] OTHER -> IF Ahead(1) # ")" THEN Fail(115) ELSE EndClass(items, ptr + 2)

-----------------------------------------------------------------------------
(* The operators of sets.                                                  *)

MetaOf == "+" :> "ECLASS_OR" @@ "|" :> "ECLASS_OR" @@ "-" :> "ECLASS_SUB" @@ "&" :> "ECLASS_AND"
            @@ "^" :> "ECLASS_XOR" @@ "~" :> "ECLASS_XOR"
used == class.used[Len(class.used)]
AddOperator(meta, usedNow, to) ==
  Continue(Append(Dangling(Extended(class)), <<meta>>),
           [class EXCEPT !.start = 0, !.range = "NO", !.op = "OPERATOR",
                         !.used[Len(class.used)] = usedNow], to)
ClassOperator ==
  /\ InClass /\ Element = "operator"
  /\ CASE ~Perl /\ Ahead(2) = c -> Fail(108)
       [] (Perl \/ Ahead(2) # c) /\ class.op # "OPERAND" -> Fail(109)
       [] OTHER ->
            CASE Perl -> AddOperator(MetaOf[c], used, ptr + 1)
              [] ~Perl /\ used \notin {"", c} -> Fail(111)
              [] OTHER -> AddOperator(MetaOf[c], c, ptr + 2)
ClassNot ==
  /\ InClass /\ Element = "not"
  /\ IF class.op = "OPERAND" THEN Fail(113) ELSE AddOperator("ECLASS_NOT", used, ptr + 1)

-----------------------------------------------------------------------------
(* Escapes.                                                                *)

handle_escdsw(escape) ==
  LET property == CASE escape \in {"d", "D"} -> "Nd" [] escape \in {"s", "S"} -> "Space"
                    [] OTHER -> "Word"
      ascii == CASE escape \in {"d", "D"} -> "ASCII_BSD" [] escape \in {"s", "S"} -> "ASCII_BSS"
                 [] OTHER -> "ASCII_BSW"
  IN  IF "UCP" \notin options \/ ascii \in options THEN <<"ESCAPE", escape>>
      ELSE <<"ESCAPE", IF escape \in {"D", "S", "W"} THEN "P" ELSE "p", property>>
PropertyItem(escape, read, inClass) ==
  LET negative == IF read[1] THEN escape = "p" ELSE escape = "P"
      cased == inClass /\ "CASELESS" \in options /\ read[2] \in {"Lu", "Ll"}
  IN  <<"ESCAPE", IF negative THEN "P" ELSE "p", IF cased THEN "Lamp" ELSE read[2]>>
\* With BAD_ESCAPE_IS_LITERAL, what follows the backslash (or itself) is literal.
LiteralInstead(at) ==
  IF at > Len(text) THEN EscapeChar(at, CodeOf["\\"]) ELSE EscapeChar(at + 1, CodeOf[Ch(text, at)])
IsLiteralInstead == "BAD_ESCAPE_IS_LITERAL" \in options
ClassProperty(escape, read) ==
  IF ~read.ok THEN Fail(read.err) ELSE AddSet(PropertyItem(escape, read.v, TRUE), read.at)
EscapeInClass(e) ==
  CASE e.k = "char" -> AddLiteral(e.v, e.at, FALSE)
    [] e.k = "esc" ->
         CASE e.v = "b" -> AddLiteral(8, e.at, FALSE)
           [] e.v = "k" -> AddLiteral(CodeOf["k"], e.at, FALSE)
           [] e.v \in {"Q", "E"} -> ContinueQuoted(parsed, class, e.at, e.v = "Q")
           [] e.v \in {"H", "h", "V", "v"} -> AddSet(<<"ESCAPE", e.v>>, e.at)
           [] e.v \in CharsOf("dDsSwW") -> AddSet(handle_escdsw(e.v), e.at)
           [] e.v \in {"p", "P"} -> ClassProperty(e.v, get_ucp(text, e.at))
           [] OTHER -> Fail(IF e.v = "N" THEN 71 ELSE 7)
    [] OTHER -> Fail(e.err)
ClassEscapeAs(e) ==
  EscapeInClass(IF e.k = "error" /\ IsLiteralInstead /\ mode \notin {"PERL_EXT", "PERL_EXT_LEAF"}
                THEN LiteralInstead(ptr + 1) ELSE e)
ClassEscape ==
  /\ InClass /\ Element = "escape"
  /\ ClassEscapeAs(check_escape(text, ptr + 1, options, bracount, TRUE))

Class == \/ WordBoundary \/ StartClass \/ StartPerlClass \/ ClassLiteral \/ ClassForbidden
         \/ ClassQuoted \/ ClassSpace \/ ClassHyphen \/ ClassPosix \/ ClassOpen \/ ClassClose
         \/ ClassOperator \/ ClassNot \/ ClassEscape
=============================================================================
