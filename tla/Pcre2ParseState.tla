--------------------------- MODULE Pcre2ParseState ---------------------------
(***************************************************************************)
(* The state of parse_regex, and what every item of a pattern does to it   *)
(* before its own case of the switch.                                      *)
(*                                                                         *)
(* The parsed pattern is a sequence of items, <<name, ...>>, with the name *)
(* of the META code.  A literal is <<"LIT", code point>>.  An offset into  *)
(* the pattern that only error messages use is left out, but Words counts  *)
(* the room it takes, and a name stands for its offset and length.         *)
(***************************************************************************)
EXTENDS Pcre2Escape, SequencesExt

CONSTANTS Sources,              \* sets of [text, opts, tree]: see Pcre2Syntax for tree
          PARENS_NEST_LIMIT,    \* of the compile context
          MAX_NESTS,            \* nest_saves that fit in the workspace
          MAX_NAME_COUNT,
          MAX_MARK              \* length of a verb's name

VARIABLES source,               \* the pattern and its options
          pc,                   \* "scan", "class", "literal", "done" or "failed"
          ptr,
          parsed,               \* parsed_pattern
          options,              \* options and xoptions
          nests,                \* the nest_saves up to top_nest
          nest_depth,
          bracount,
          names,                \* named_groups
          okquantifier,         \* the item just parsed can be repeated
          meta_quantifier,      \* the item just parsed is a quantifier
          inescq,               \* in \Q...\E
          verb,                 \* the verb whose name is being read
          expect_cond_assert,
          after_manual_callout,
          previous_callout,     \* index in parsed, 0 for NULL
          class,                \* of the class being parsed
          errorcode
ASSUME ParseAssumption == {PARENS_NEST_LIMIT, MAX_NESTS, MAX_NAME_COUNT} \subseteq Nat

scope == <<options, nests, nest_depth>>
groups == <<bracount, names>>
modes == <<inescq, verb>>
quantified == <<okquantifier, meta_quantifier>>
callouts == <<after_manual_callout, previous_callout>>
ended == <<source, pc, errorcode>>
vars == <<ended, ptr, parsed, scope, groups, quantified, modes,
          expect_cond_assert, callouts, class>>

TrackedOptions == {"CASELESS", "DOTALL", "DUPNAMES", "EXTENDED", "EXTENDED_MORE", "MULTILINE",
                   "NO_AUTO_CAPTURE", "UNGREEDY", "CASELESS_RESTRICT", "ASCII_BSD",
                   "ASCII_BSS", "ASCII_BSW", "ASCII_DIGIT", "ASCII_POSIX"}
NoVerb == [open |-> FALSE, at |-> 0, next |-> <<>>, from |-> 0]
NoClass == [mode |-> "none"]

\* Leading items for word and line matching.
Leading(opts) ==
  CASE "MATCH_LINE" \in opts -> <<<<"CIRCUMFLEX">>, <<"NOCAPTURE">>>>
    [] "MATCH_WORD" \in opts \ {"MATCH_LINE"} -> <<<<"ESCAPE", "b">>, <<"NOCAPTURE">>>>
    [] OTHER -> <<>>
Init ==
  /\ \E set \in Sources : source \in set
  /\ pc = IF "LITERAL" \in source.opts THEN "literal" ELSE "scan"
  /\ ptr = 1 /\ errorcode = 0
  /\ parsed = Leading(source.opts)
  /\ options = source.opts \cup IF "EXTENDED_MORE" \in source.opts THEN {"EXTENDED"} ELSE {}
  /\ nests = <<>> /\ nest_depth = 0 /\ bracount = 0 /\ names = <<>>
  /\ okquantifier = FALSE /\ meta_quantifier = ""
  /\ inescq = FALSE /\ verb = NoVerb
  /\ expect_cond_assert = 0 /\ after_manual_callout = 0 /\ previous_callout = 0
  /\ class = NoClass

\* meta_extra_lengths and what goes with them: the elements of the parsed
\* pattern that an item takes.  A back reference to one of the groups up to 9
\* keeps its offset elsewhere.
ExtraOf ==
  [BACKREF_BYNAME |-> 3, RECURSE_BYNAME |-> 3, COND_NAME |-> 3, COND_NUMBER |-> 3, COND_RNAME |-> 3,
   COND_RNUMBER |-> 3, COND_VERSION |-> 3, CALLOUT_NUMBER |-> 3, CALLOUT_STRING |-> 5,
   COND_DEFINE |-> 2, OFFSET |-> 2, RECURSE |-> 2, LOOKBEHIND |-> 2, LOOKBEHINDNOT |-> 2,
   LOOKBEHIND_NA |-> 2, OPTIONS |-> 2, MINMAX |-> 2, CAPTURE_NAME |-> 1, CAPTURE_NUMBER |-> 1,
   POSIX |-> 1, POSIX_NEG |-> 1, MARK |-> 1, COMMIT_ARG |-> 1, PRUNE_ARG |-> 1, SKIP_ARG |-> 1,
   THEN_ARG |-> 1]
Words(item) ==
  CASE item[1] = "BACKREF" -> IF item[2] < 10 THEN 1 ELSE 3
    [] item[1] = "ESCAPE" -> Len(item) - 1
    [] item[1] \in DOMAIN ExtraOf -> 1 + ExtraOf[item[1]]
    [] OTHER -> 1
\* Mutant: room for the callouts, but not for what they are before.
MaxForCallouts(n, opts) == IF "AUTO_CALLOUT" \in opts THEN 4 * n ELSE n
\* What is allocated for a pattern of so many characters, and for its end.
max_parsed_pattern(n, opts) == IF "AUTO_CALLOUT" \in opts THEN 5 * n ELSE n
AtTheEnd(opts) == IF "AUTO_CALLOUT" \in opts THEN 4 ELSE 0

-----------------------------------------------------------------------------

text == source.text
\* The character at ptr, and those after it.
c == Ch(text, ptr)
Ahead(n) == Ch(text, ptr + n)
AtEnd == ptr > Len(text)

Fail(err) ==
  /\ pc' = "failed" /\ errorcode' = err
  /\ UNCHANGED <<source, ptr, parsed, scope, groups, quantified, modes,
                 expect_cond_assert, callouts, class>>

\* manage_callouts at the start of an item: the length of the last item goes
\* into the callout before it, and an automatic callout goes here, unless
\* there is nothing since the last one.
IsAutomatic(items, i) ==
  i > 0 /\ i = Len(items) /\ items[i][1] = "CALLOUT_NUMBER" /\ items[i][4] = 255
manage_callouts(items, previous, at) ==
  LET auto == "AUTO_CALLOUT" \in options
      lengthened == IF previous = 0 THEN items
                    ELSE [items EXCEPT ![previous][3] = at - 1 - items[previous][2]]
  IN  CASE ~auto -> [items |-> lengthened, previous |-> 0]
        [] auto /\ IsAutomatic(items, previous) ->
             [items |-> [lengthened EXCEPT ![previous][2] = at - 1], previous |-> previous]
        [] OTHER -> [items |-> Append(lengthened, <<"CALLOUT_NUMBER", at - 1, 0, 255>>),
                     previous |-> Len(items) + 1]

counts == read_repeat_counts(text, ptr + 1)
IsQuantifier == c \in {"*", "+", "?"} \/ (c = "{" /\ counts.ok)
\* The parsed pattern with what comes before the item at ptr.
ManagesCallouts == ~IsQuantifier /\ after_manual_callout = 0
before == IF ManagesCallouts THEN manage_callouts(parsed, previous_callout, ptr)
          ELSE [items |-> parsed, previous |-> previous_callout]
CountCallout ==
  after_manual_callout' = IF ~IsQuantifier /\ after_manual_callout > 0
                          THEN after_manual_callout - 1 ELSE after_manual_callout

\* A comment in extended mode, after the #, ends after a newline.
CommentEnd(at) == LET nl == After(text, at, CharsOf(Printable) \cup {"\t", "\f", "\r"})
                  IN  IF Ch(text, nl) = "\n" THEN nl + 1 ELSE nl
Space == {" ", "\t", "\n", "\f", "\r"}

\* Only an assertion, or one callout and then an assertion, can be a
\* condition; ptr is at the parenthesis.
IsCondAssert ==
  /\ c = "(" /\ ptr + 3 <= Len(text)
  /\ CASE Ahead(1) = "*" -> Ahead(2) \in CharsOf(Lower)
       [] Ahead(1) = "?" ->
            CASE Ahead(2) = "C" -> expect_cond_assert = 2
              [] Ahead(2) = "<" -> Ahead(3) \in {"=", "!"}
              [] OTHER -> Ahead(2) \in {"=", "!"}
       [] OTHER -> FALSE

\* What is skipped without a change to the state of quantifiers.
IsQuoteMark == c = "\\" /\ Ahead(1) \in {"Q", "E"}
IsExtendedSpace == "EXTENDED" \in options /\ c \in Space \cup {"#"}
IsComment == c = "(" /\ Ahead(1) = "?" /\ Ahead(2) = "#"
IsModifier == meta_quantifier # "" /\ c \in {"?", "+"}
Verbatim == verb.open /\ ~({"EXTENDED", "ALT_VERBNAMES"} \subseteq options /\ c \in Space \cup {"#"})
\* An item of the pattern starts at ptr.
AtItem ==
  /\ pc = "scan" /\ ~AtEnd
  /\ nest_depth <= PARENS_NEST_LIMIT
  /\ ~inescq /\ ~Verbatim /\ ~IsQuoteMark /\ ~IsExtendedSpace /\ ~IsComment
  /\ expect_cond_assert > 0 => IsCondAssert
  /\ ~IsModifier

\* The item's code, where it ends, and whether it can be repeated.
Take(items, to, repeatable) ==
  /\ parsed' = before.items \o items /\ ptr' = to
  /\ okquantifier' = repeatable /\ meta_quantifier' = ""
  /\ previous_callout' = before.previous /\ CountCallout
  /\ expect_cond_assert' = 0
TakeOnly(items, to, repeatable) ==
  /\ Take(items, to, repeatable)
  /\ UNCHANGED <<ended, scope, groups, modes, class>>
\* A group is opened.
TakeGroup(items, to) ==
  /\ Take(items, to, FALSE)
  /\ nest_depth' = nest_depth + 1
  /\ UNCHANGED <<ended, options, nests, groups, modes, class>>
\* One more nest_save, unless the workspace is full.
Save(depth, flag, reset) ==
  [depth |-> depth, flag |-> flag, reset |-> reset, max |-> reset,
   options |-> options \cap TrackedOptions]
NoRoom == Len(nests) = MAX_NESTS
=============================================================================
