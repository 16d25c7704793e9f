--------------------------- MODULE Pcre2ParseGroup ---------------------------
(***************************************************************************)
(* parse_regex at an opening parenthesis, at | and at a closing one.       *)
(***************************************************************************)
EXTENDS Pcre2ParseState

Paren == AtItem /\ c = "("
\* What kind of group a question mark makes it is said by the next character.
PerlGroup == Paren /\ Ahead(1) = "?"
Kind == Ahead(2)
Unclosed == Fail(14)

\* ( without ? or *.
NewGroup(items, to, name) ==
  /\ bracount' = bracount + 1 /\ names' = name
  /\ Take(Append(items, <<"CAPTURE", bracount + 1>>), to, FALSE)
  /\ nest_depth' = nest_depth + 1
  /\ UNCHANGED <<ended, options, nests, modes, class>>
OpenGroup ==
  /\ Paren /\ Ahead(1) \notin {"?", "*"}
  /\ CASE Ahead(1) = "" -> Unclosed
       [] "NO_AUTO_CAPTURE" \in options -> TakeGroup(<<<<"NOCAPTURE">>>>, ptr + 1)
       [] OTHER -> IF bracount >= MAX_GROUP_NUMBER THEN Fail(97)
                   ELSE NewGroup(<<>>, ptr + 1, names)

-----------------------------------------------------------------------------
(* Groups that begin with an asterisk: assertions by name, and verbs.      *)

alasmeta ==
  [pla |-> "LOOKAHEAD", plb |-> "LOOKBEHIND", napla |-> "LOOKAHEAD_NA", naplb |-> "LOOKBEHIND_NA",
   nla |-> "LOOKAHEADNOT", nlb |-> "LOOKBEHINDNOT", scs |-> "SCS", atomic |-> "ATOMIC",
   sr |-> "SCRIPT_RUN", asr |-> "ATOMIC_SCRIPT_RUN"]
\* The verbs, and whether an argument is necessary, goes into a MARK before
\* the verb, or goes with it.
verbs == [MARK |-> <<"MARK", "must">>, ACCEPT |-> <<"ACCEPT", "mark">>, F |-> <<"FAIL", "mark">>,
          FAIL |-> <<"FAIL", "mark">>, COMMIT |-> <<"COMMIT", "arg">>, PRUNE |-> <<"PRUNE", "arg">>,
          SKIP |-> <<"SKIP", "arg">>] @@ ("THEN" :> <<"THEN", "arg">> @@ "" :> <<"MARK", "must">>)
WithArg(meta) == IF meta = "MARK" THEN meta ELSE meta \o "_ARG"

\* Nothing, so that the asterisk is a quantifier out of place.
OpenNothing ==
  /\ Paren /\ Ahead(1) = "*" /\ Ahead(2) \in {"", ")"}
  /\ TakeOnly(<<>>, ptr + 1, FALSE)

\* A lookaround: the condition of a conditional group cannot be repeated.
LookaroundTo(items, to) ==
  IF expect_cond_assert > 0
  THEN IF NoRoom THEN Fail(84)
       ELSE /\ Take(items, to, FALSE)
            /\ nest_depth' = nest_depth + 1
            /\ nests' = Append(nests, Save(nest_depth + 1, "CONDASSERT", 0))
            /\ UNCHANGED <<ended, options, groups, modes, class>>
  ELSE TakeGroup(items, to)
\* Two brackets are one for the parentheses.
AtomicScriptRun(to) ==
  IF NoRoom THEN Fail(84)
  ELSE /\ Take(<<<<"SCRIPT_RUN">>, <<"ATOMIC">>>>, to, FALSE)
       /\ nest_depth' = nest_depth + 1
       /\ nests' = Append(nests, Save(nest_depth + 1, "ATOMICSR", 0))
       /\ UNCHANGED <<ended, options, groups, modes, class>>
ScanSubstring(list) ==
  IF ~list.ok THEN Fail(list.err) ELSE LookaroundTo(<<<<"SCS">>, <<"OFFSET">>>> \o list.v, list.at)
AlphaAs(meta, to) ==
  CASE expect_cond_assert > 0 /\ meta \notin {"LOOKAHEAD", "LOOKAHEADNOT", "LOOKBEHIND", "LOOKBEHINDNOT"} ->
         Fail(28)
    [] meta = "SCS" /\ expect_cond_assert <= 0 ->
         ScanSubstring(parse_capture_list(text, to, bracount))
    [] meta = "ATOMIC_SCRIPT_RUN" /\ expect_cond_assert <= 0 -> AtomicScriptRun(to)
    [] meta \in {"ATOMIC", "SCRIPT_RUN"} /\ expect_cond_assert <= 0 -> TakeGroup(<<<<meta>>>>, to)
    [] OTHER -> LookaroundTo(<<<<meta>>>>, to)
OpenAlpha ==
  LET name == read_name(text, ptr + 1, "")
  IN  /\ Paren /\ Ahead(1) = "*" /\ Ahead(2) \in CharsOf(Lower)
      /\ CASE ~name.ok -> Fail(name.err)
           [] name.at > Len(text) -> Unclosed
           [] OTHER -> IF Ch(text, name.at) # ":" \/ name.v \notin DOMAIN alasmeta THEN Fail(95)
                       ELSE AlphaAs(alasmeta[name.v], name.at + 1)

\* A verb, alone or with a colon and a name; further steps read the name.
VerbAlone(meta, to) ==
  /\ Take(<<<<meta>>>>, to, meta = "ACCEPT")
  /\ verb' = [NoVerb EXCEPT !.at = Len(before.items) + 1]
  /\ UNCHANGED <<ended, scope, groups, inescq, class>>
VerbWithName(meta, kind, to) ==
  /\ Take(<<<<IF kind = "mark" THEN "MARK" ELSE WithArg(meta), 0>>>>, to, meta = "ACCEPT")
  /\ verb' = [open |-> TRUE, at |-> Len(before.items) + 1, from |-> to,
              next |-> IF kind = "mark" THEN <<<<meta>>>> ELSE <<>>]
  /\ UNCHANGED <<ended, scope, groups, inescq, class>>
OpenVerb ==
  LET name == read_name(text, ptr + 1, "")
      empty == Ch(text, name.at) = ":" /\ Ch(text, name.at + 1) = ")"
      close == IF empty THEN name.at + 1 ELSE name.at
  IN  /\ Paren /\ Ahead(1) = "*" /\ Ahead(2) \notin CharsOf(Lower) \cup {"", ")"}
      /\ CASE ~name.ok -> Fail(name.err)
           [] name.ok /\ (Ch(text, name.at) \notin {":", ")"} \/ name.v \notin DOMAIN verbs) -> Fail(60)
           [] OTHER ->
                LET meta == verbs[name.v][1]
                    kind == verbs[name.v][2]
                IN  CASE Ch(text, close) = ")" /\ kind = "must" -> Fail(66)
                      [] Ch(text, close) = ":" -> VerbWithName(meta, kind, close + 1)
                      [] OTHER -> VerbAlone(meta, close + 1)

-----------------------------------------------------------------------------
(* (?| and option settings.                                                *)

OpenReset ==
  /\ PerlGroup /\ Kind = "|"
  /\ IF NoRoom THEN Fail(84)
     ELSE /\ Take(<<<<"NOCAPTURE">>>>, ptr + 3, FALSE)
          /\ nest_depth' = nest_depth + 1
          /\ nests' = Append(nests, Save(nest_depth + 1, "RESET", bracount))
          /\ UNCHANGED <<ended, options, groups, modes, class>>

AsciiAll == {"ASCII_BSD", "ASCII_BSS", "ASCII_BSW", "ASCII_DIGIT", "ASCII_POSIX"}
AsciiPair == [D |-> {"ASCII_BSD"}, S |-> {"ASCII_BSS"}, W |-> {"ASCII_BSW"}, T |-> {"ASCII_DIGIT"},
              P |-> {"ASCII_POSIX", "ASCII_DIGIT"}]
OptionOf == [J |-> {"DUPNAMES"}, i |-> {"CASELESS"}, m |-> {"MULTILINE"}, n |-> {"NO_AUTO_CAPTURE"},
             r |-> {"CASELESS_RESTRICT"}, s |-> {"DOTALL"}, U |-> {"UNGREEDY"}]
\* The letters from a position, and whether a hyphen may come (then it has not
\* yet): what is set, and what is unset after the hyphen.
ReadOptions(s, at, hyphenok) ==
  LET two(i) == \/ Ch(s, i) = "a" /\ Ch(s, i + 1) \in DOMAIN AsciiPair
                \/ Ch(s, i) = "x" /\ Ch(s, i + 1) = "x"
      here(i) == CASE Ch(s, i) = "a" -> IF two(i) THEN AsciiPair[Ch(s, i + 1)] ELSE AsciiAll
                   [] Ch(s, i) = "x" -> {"EXTENDED"} \cup IF two(i) THEN {"EXTENDED_MORE"} ELSE {}
                   [] OTHER -> OptionOf[Ch(s, i)]
      from[i \in at..(Len(s) + 1), ok \in BOOLEAN] ==
        CASE Ch(s, i) \in {"", ")", ":"} -> Read(i, [set |-> {}, unset |-> {}])
          [] Ch(s, i) = "-" ->
               LET rest == from[i + 1, FALSE]
               IN  IF ok /\ rest.ok THEN [rest EXCEPT !.v = [set |-> {}, unset |-> @.set]]
                   ELSE IF ok THEN rest ELSE Error(94)
          [] Ch(s, i) \in {"a", "x"} \cup DOMAIN OptionOf ->
               LET rest == from[IF two(i) THEN i + 2 ELSE i + 1, ok]
               IN  IF rest.ok THEN [rest EXCEPT !.v.set = @ \cup here(i)] ELSE rest
          [] OTHER -> Error(11)
  IN  from[at, hyphenok]
Changed(opts, v) ==
  LET unset == IF \/ "EXTENDED" \in v.set /\ "EXTENDED_MORE" \notin v.set
                  \/ "EXTENDED" \in v.unset
               THEN v.unset \cup {"EXTENDED_MORE"} ELSE v.unset
  IN  (opts \cup v.set) \ unset
Circumflexed == {"CASELESS", "MULTILINE", "NO_AUTO_CAPTURE", "DOTALL", "EXTENDED",
                 "EXTENDED_MORE", "CASELESS_RESTRICT"}

\* Mutant: (?i) in a group leaves nothing to restore at its end.
NestsForOptionsLost(closed) ==
  IF closed THEN nests ELSE Append(nests, Save(nest_depth + 1, "", 0))

\* Mutant: (?i) gets a nest_save whether the group around has one or not.
NestsForEachOption(closed) ==
  Append(nests, Save(IF closed THEN nest_depth ELSE nest_depth + 1, "", 0))

\* The nest_save is for the group that (?i: opens; for (?i) it is for the
\* group around, unless that has one already.
NestsForOptions(closed) ==
  LET top == Save(nest_depth + 1, "", 0)
      has == nests # <<>> /\ Last(nests).depth = nest_depth
  IN  CASE ~closed -> Append(nests, top)
        [] closed /\ has -> nests
        [] OTHER -> Append(nests, [top EXCEPT !.depth = nest_depth])

SetOptions ==
  LET caret == Kind = "^"
      set == ReadOptions(text, IF caret THEN ptr + 3 ELSE ptr + 2, ~caret)
      new == Changed(IF caret THEN options \ Circumflexed ELSE options, set.v)
      closed == Ch(text, set.at) = ")"
  IN  /\ PerlGroup
      /\ Kind \notin {"", "|", "P", "R", "+", "&", "C", "(", ">", "=", "*", "!", "<", "'", "["} \cup Decimal
      /\ ~(Kind = "-" /\ Ahead(3) \in Decimal)
      /\ CASE NoRoom -> Fail(84)
           [] ~NoRoom /\ ~set.ok -> Fail(set.err)
           [] OTHER ->
                IF set.at > Len(text) THEN Unclosed
                ELSE /\ Take((IF closed THEN <<>> ELSE <<<<"NOCAPTURE">>>>)
                               \o (IF new = options THEN <<>> ELSE <<<<"OPTIONS", new>>>>),
                             set.at + 1, FALSE)
                     /\ options' = new
                     /\ nests' = NestsForOptions(closed)
                     /\ nest_depth' = IF closed THEN nest_depth ELSE nest_depth + 1
                     /\ UNCHANGED <<ended, groups, modes, class>>
OpenUnclosed == PerlGroup /\ Kind = "" /\ Unclosed

-----------------------------------------------------------------------------
(* References, recursion, callouts.                                        *)

\* READ_RECURSION_ARGUMENTS and the closing parenthesis.
RecurseWith(item, list) ==
  CASE ~list.ok -> Fail(list.err)
    [] list.ok /\ Ch(text, list.at) # ")" -> Unclosed
    [] OTHER -> TakeOnly(<<item>> \o list.v, list.at + 1, TRUE)
RecurseTo(item, at) ==
  RecurseWith(item, IF Ch(text, at) = "(" THEN parse_capture_list(text, at, bracount)
                    ELSE Read(at, <<>>))
RecurseAll ==
  /\ PerlGroup /\ Kind = "R"
  /\ IF Ahead(3) \notin {")", "("} THEN Fail(58) ELSE RecurseTo(<<"RECURSE", 0>>, ptr + 3)
RecurseNumber ==
  LET n == read_number(text, ptr + 2, IF Kind \in Decimal THEN -1 ELSE bracount, MAX_GROUP_NUMBER, 61)
  IN  /\ PerlGroup
      /\ \/ Kind \in Decimal \cup {"+"}
         \/ Kind = "-" /\ Ahead(3) \in Decimal
      /\ CASE Kind = "+" /\ Ahead(3) = "" -> Unclosed
           [] Kind = "+" /\ Ahead(3) \notin Decimal \cup {""} -> Fail(29)
           [] OTHER -> IF ~n.ok THEN Fail(n.err) ELSE RecurseTo(<<"RECURSE", n.v>>, n.at)
\* (?&name) and (?P>name).
RecurseName ==
  LET at == IF Kind = "&" THEN ptr + 2 ELSE ptr + 3
      name == read_name(text, at, "")
  IN  /\ PerlGroup
      /\ \/ Kind = "&"
         \/ Kind = "P" /\ Ahead(3) = ">"
      /\ IF ~name.ok THEN Fail(name.err) ELSE RecurseTo(<<"RECURSE_BYNAME", name.v>>, name.at)
\* (?P=name), and (?P with something else.
PythonReference ==
  LET name == read_name(text, ptr + 3, ")")
  IN  /\ PerlGroup /\ Kind = "P" /\ Ahead(3) \notin {"<", ">"}
      /\ CASE Ahead(3) = "" -> Unclosed
           [] Ahead(3) = "=" -> IF ~name.ok THEN Fail(name.err)
                                ELSE TakeOnly(<<<<"BACKREF_BYNAME", name.v>>>>, name.at, TRUE)
           [] OTHER -> Fail(41)

\* (?C), (?C5), (?C"text"): an automatic callout just before is taken back,
\* and a condition may still follow one of them.
CalloutTo(items, item, to) ==
  /\ parsed' = Append(items, item)
  /\ previous_callout' = Len(items) + 1 /\ after_manual_callout' = 1
  /\ expect_cond_assert' = IF expect_cond_assert > 0 THEN expect_cond_assert - 1 ELSE 0
  /\ ptr' = to /\ okquantifier' = FALSE /\ meta_quantifier' = ""
  /\ UNCHANGED <<ended, scope, groups, modes, class>>
\* Where a delimiter closes the string, doubled inside it.
StringEnd(delimiter, at) ==
  LET from[i \in at..(Len(text) + 2)] ==
        CASE i > Len(text) -> 0
          [] Ch(text, i) = delimiter /\ Ch(text, i + 1) = delimiter -> from[i + 2]
          [] Ch(text, i) = delimiter /\ Ch(text, i + 1) # delimiter -> i + 1
          [] OTHER -> from[i + 1]
  IN  from[at]
callout_end_delims == [d \in {"'", "\"", "^", "%", "#", "$"} |-> d] @@ ("{" :> "}")
Callout ==
  LET items == IF "AUTO_CALLOUT" \in options /\ IsAutomatic(before.items, before.previous)
               THEN Front(before.items) ELSE before.items
      digits == After(text, ptr + 3, Decimal)
      n == Number(text, ptr + 3, digits, 10, 255)
      string == StringEnd(callout_end_delims[Ahead(3)], ptr + 4)
      isString == Ahead(3) \notin Decimal \cup {")"}
      end == IF isString THEN string ELSE digits
  IN  /\ PerlGroup /\ Kind = "C"
      /\ CASE "NEVER_CALLOUT" \in options -> Fail(103)
           [] "NEVER_CALLOUT" \notin options /\ Ahead(3) = "" -> Unclosed
           [] OTHER ->
                CASE isString /\ Ahead(3) \notin DOMAIN callout_end_delims -> Fail(82)
                  [] isString /\ Ahead(3) \in DOMAIN callout_end_delims /\ string = 0 -> Fail(81)
                  [] ~isString /\ n > 255 -> Fail(38)
                  [] OTHER ->
                       IF Ch(text, end) # ")" THEN Fail(39)
                       ELSE CalloutTo(items,
                              IF isString THEN <<"CALLOUT_STRING", end, 0, end - (ptr + 3)>>
                              ELSE <<"CALLOUT_NUMBER", end, 0, n>>, end + 1)

-----------------------------------------------------------------------------
(* Conditions.                                                             *)

ConditionTo(item, at) ==
  IF Ch(text, at) # ")" THEN Fail(24) ELSE TakeGroup(<<item>>, at + 1)
\* An assertion follows.
OpenCondAssert ==
  /\ PerlGroup /\ Kind = "(" /\ Ahead(3) \in {"?", "*"}
  /\ parsed' = Append(before.items, <<"COND_ASSERT">>) /\ ptr' = ptr + 2
  /\ expect_cond_assert' = 2
  /\ previous_callout' = before.previous /\ CountCallout
  /\ okquantifier' = FALSE /\ meta_quantifier' = ""
  /\ nest_depth' = nest_depth + 1
  /\ UNCHANGED <<ended, options, nests, groups, modes, class>>
\* (?(VERSION>=10.4).
IsVersion(at) ==
  /\ at + 9 <= Len(text) /\ SubSeq(text, at, at + 6) = "VERSION" /\ Ch(text, at + 7) # ")"
ConditionVersion(at) ==
  LET ge == IF Ch(text, at + 7) = ">" THEN 1 ELSE 0
      major == read_number(text, at + 8 + ge, -1, 1000, 79)
      dot == Ch(text, major.at) = "."
      minor == read_number(text, major.at + 1, -1, 1000, 79)
      end == IF dot THEN minor.at ELSE major.at
  IN  IF \/ Ch(text, at + 7 + ge) # "=" \/ ~major.ok
         \/ dot /\ ~minor.ok
         \/ Ch(text, end) # ")"
      THEN Fail(79)
      ELSE ConditionTo(<<"COND_VERSION", ge, major.v, IF dot THEN minor.v ELSE 0>>, end)
\* A group's name, R with or without a number, or DEFINE.
NamedCondition(name) ==
  CASE name = "DEFINE" -> <<"COND_DEFINE">>
    [] Ch(name, 1) = "R" /\ \A i \in 2..Len(name) : Ch(name, i) \in Decimal -> <<"COND_RNUMBER", name>>
    [] OTHER -> <<"COND_NAME", name>>
ConditionName(at) ==
  LET recursion == Ch(text, at) = "R" /\ Ch(text, at + 1) = "&"
      delimited == ~recursion /\ Ch(text, at) \in {"<", "'"}
      name == read_name(text, CASE recursion -> at + 1 [] delimited -> at [] OTHER -> at - 1,
                        IF delimited THEN TerminatorOf[Ch(text, at)] ELSE ")")
  IN  CASE ~name.ok -> Fail(name.err)
        [] name.ok /\ recursion -> ConditionTo(<<"COND_RNAME", name.v>>, name.at - 1)
        [] name.ok /\ delimited -> ConditionTo(<<"COND_NAME", name.v>>, name.at)
        [] OTHER -> ConditionTo(NamedCondition(name.v), name.at - 1)
OpenCondition ==
  LET at == ptr + 3
      n == read_number(text, at, bracount, MAX_GROUP_NUMBER, 61)
  IN  /\ PerlGroup /\ Kind = "(" /\ Ahead(3) \notin {"?", "*"}
      /\ CASE Ahead(3) = "" -> Unclosed
           [] n.ok -> IF n.v = 0 THEN Fail(15) ELSE ConditionTo(<<"COND_NUMBER", n.v>>, n.at)
           [] n.err # 0 -> Fail(n.err)
           [] OTHER -> IF IsVersion(at) THEN ConditionVersion(at) ELSE ConditionName(at)

-----------------------------------------------------------------------------
(* Atomic groups, lookarounds, named groups.                               *)

OpenAtomic == PerlGroup /\ Kind = ">" /\ TakeGroup(<<<<"ATOMIC">>>>, ptr + 3)
OpenLookahead ==
  /\ PerlGroup /\ Kind \in {"=", "*", "!"}
  /\ LookaroundTo(<<<<CASE Kind = "=" -> "LOOKAHEAD" [] Kind = "!" -> "LOOKAHEADNOT"
                        [] OTHER -> "LOOKAHEAD_NA">>>>, ptr + 3)
OpenLookbehind ==
  /\ PerlGroup /\ Kind = "<" /\ Ahead(3) \in {"=", "!", "*"}
  /\ LookaroundTo(<<<<CASE Ahead(3) = "=" -> "LOOKBEHIND" [] Ahead(3) = "!" -> "LOOKBEHINDNOT"
                        [] OTHER -> "LOOKBEHIND_NA">>>>, ptr + 4)

\* What a name does to the list of names; an entry for a name that was there
\* before has lost its length, and is compared by its number only.
Refused(err) == [err |-> err, names |-> <<>>]
AddName(list, name, n) ==
  LET hits == {i \in DOMAIN list : (list[i].name = name /\ ~list[i].dup) \/ list[i].n = n}
      hit == CHOOSE i \in hits : \A j \in hits : i <= j
      same == list[hit].name = name /\ ~list[hit].dup
      known == \E j \in hit..Len(list) : list[j].name = name /\ list[j].n = n
      with(dup) == Append(list, [name |-> name, n |-> n, dup |-> dup])
  IN  CASE hits = {} -> [err |-> 0, names |-> with(FALSE)]
        [] hits # {} /\ ~same -> Refused(65)
        [] OTHER ->
             CASE list[hit].n = n -> [err |-> 0, names |-> list]
               [] list[hit].n # n /\ "DUPNAMES" \notin options -> Refused(43)
               [] OTHER -> [err |-> 0, names |-> IF known THEN list ELSE with(TRUE)]

OpenNamed ==
  LET at == IF Kind = "P" THEN ptr + 3 ELSE ptr + 2
      name == read_name(text, at, TerminatorOf[Ch(text, at)])
      added == AddName(names, name.v, bracount + 1)
  IN  /\ PerlGroup
      /\ \/ Kind = "'"
         \/ Kind = "P" /\ Ahead(3) = "<"
         \/ Kind = "<" /\ Ahead(3) \notin {"=", "!", "*"}
      /\ CASE ~name.ok -> Fail(name.err)
           [] name.ok /\ bracount >= MAX_GROUP_NUMBER -> Fail(97)
           [] OTHER ->
                CASE Len(names) >= MAX_NAME_COUNT -> Fail(49)
                  [] Len(names) < MAX_NAME_COUNT /\ added.err # 0 -> Fail(added.err)
                  [] OTHER -> NewGroup(<<>>, name.at, added.names)

-----------------------------------------------------------------------------
(* Alternation, and the end of a group.                                    *)

InNest == nests # <<>> /\ Last(nests).depth = nest_depth
top == Last(nests)
Alternation ==
  LET resets == InNest /\ top.flag = "RESET"
  IN  /\ AtItem /\ c = "|"
      /\ Take(<<<<"ALT">>>>, ptr + 1, FALSE)
      /\ nests' = IF resets /\ bracount > top.max
                  THEN [nests EXCEPT ![Len(nests)].max = bracount] ELSE nests
      /\ bracount' = IF resets THEN top.reset ELSE bracount
      /\ UNCHANGED <<ended, options, nest_depth, names, modes, class>>

\* Mutant: groups after (?| count on from its last branch.
GroupsOfLastBranch == bracount
HighestOfBranches == IF InNest /\ top.flag = "RESET" /\ top.max > bracount THEN top.max ELSE bracount
CloseGroup ==
  /\ AtItem /\ c = ")"
  /\ IF nest_depth = 0 THEN Fail(22)
     ELSE /\ Take((IF InNest /\ top.flag = "ATOMICSR" THEN <<<<"KET">>>> ELSE <<>>) \o <<<<"KET">>>>,
                  ptr + 1, ~(InNest /\ top.flag = "CONDASSERT"))
          /\ options' = IF InNest THEN (options \ TrackedOptions) \cup top.options ELSE options
          /\ nests' = IF InNest THEN Front(nests) ELSE nests
          /\ nest_depth' = nest_depth - 1
          /\ bracount' = HighestOfBranches
          /\ UNCHANGED <<ended, names, modes, class>>

Group == \/ OpenGroup \/ OpenNothing \/ OpenAlpha \/ OpenVerb \/ OpenReset \/ SetOptions
         \/ OpenUnclosed \/ RecurseAll \/ RecurseNumber \/ RecurseName \/ PythonReference
         \/ Callout \/ OpenCondAssert \/ OpenCondition \/ OpenAtomic \/ OpenLookahead
         \/ OpenLookbehind \/ OpenNamed \/ Alternation \/ CloseGroup
=============================================================================
