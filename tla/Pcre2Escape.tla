----------------------------- MODULE Pcre2Escape -----------------------------
(***************************************************************************)
(* What parse_regex reads with functions of their own: numbers, repeat     *)
(* counts, names, escapes, and the brackets of POSIX class elements.       *)
(*                                                                         *)
(* A pattern s is a string; a position in it is the index of a character,  *)
(* Len(s) + 1 at the end.  Each reader gives [ok, err, at, v]: whether     *)
(* what it looks for is there, the number of the compile error (0 for      *)
(* none), the position after it, and its value.  Where in the pattern an   *)
(* error is reported is left out.                                          *)
(***************************************************************************)
EXTENDS Integers, Sequences, TLC

CONSTANT MAX_NAME_SIZE      \* of the name of a group

MAX_GROUP_NUMBER == 65535
MAX_REPEAT_COUNT == 65535
REPEAT_UNLIMITED == MAX_REPEAT_COUNT + 1
MAX_UTF == 1114111

-----------------------------------------------------------------------------
(* Characters.                                                             *)

\* The character at a position, "" at the end of the pattern.
Ch(s, at) == IF at \in 1..Len(s) THEN SubSeq(s, at, at) ELSE ""
CharsOf(s) == {SubSeq(s, i, i) : i \in 1..Len(s)}
Lower == "abcdefghijklmnopqrstuvwxyz"
Upper == "ABCDEFGHIJKLMNOPQRSTUVWXYZ"
Decimal == CharsOf("0123456789")
Octal == CharsOf("01234567")
Hex == CharsOf("0123456789abcdefABCDEF")
Alnum == CharsOf(Lower) \cup CharsOf(Upper) \cup Decimal
Word == Alnum \cup {"_"}
Blank == {" ", "\t"}
IndexIn(c, s) == CHOOSE i \in 1..Len(s) : SubSeq(s, i, i) = c
\* Code points; the printable characters in their order, but for the grave
\* accent, which no pattern here has.
Printable == " !\"#$%&'()*+,-./0123456789:;<=>?@" \o Upper \o "[\\]^_" \o Lower \o "{|}~"
CodeOf ==
  [c \in CharsOf(Printable) |->
     LET i == IndexIn(c, Printable) IN IF i > 64 THEN i + 32 ELSE i + 31]
    @@ ("\t" :> 9 @@ "\n" :> 10 @@ "\f" :> 12 @@ "\r" :> 13)
DigitOf ==
  [c \in Hex |-> LET i == IndexIn(c, "0123456789abcdefABCDEF") IN IF i > 16 THEN i - 7 ELSE i - 1]
UpperOf(c) == IF c \in CharsOf(Lower) THEN LET i == IndexIn(c, Lower) IN SubSeq(Upper, i, i) ELSE c

\* The first position that does not hold one of the characters.
After(s, at, chars) ==
  CHOOSE i \in at..(Len(s) + 1) :
    Ch(s, i) \notin chars /\ \A j \in at..(i - 1) : Ch(s, j) \in chars
\* The number that the digits before an end are, or top + 1.
Capped(n, top) == IF n > top THEN top + 1 ELSE n
Number(s, from, to, base, top) ==
  LET upTo[i \in (from - 1)..(to - 1)] ==
        IF i < from THEN 0 ELSE Capped(base * upTo[i - 1] + DigitOf[Ch(s, i)], top)
  IN  upTo[to - 1]

Read(at, v) == [ok |-> TRUE, err |-> 0, at |-> at, v |-> v]
Nothing(at) == [ok |-> FALSE, err |-> 0, at |-> at, v |-> 0]
Error(err) == [ok |-> FALSE, err |-> err, at |-> 0, v |-> 0]

-----------------------------------------------------------------------------
(* read_number, read_repeat_counts, read_name.                             *)

\* A number; when groups >= 0 it may have a sign, and then counts from there.
Counted(sign, n, groups, to) ==
  CASE sign # "" /\ n = 0 -> Error(26)
    [] sign = "-" /\ n > groups -> Error(15)
    [] OTHER -> Read(to, CASE sign = "+" -> groups + n
                           [] sign = "-" -> groups + 1 - n
                           [] OTHER -> n)
SignedNumber(s, sign, from, to, groups, max, err) ==
  LET top == IF sign = "+" THEN max - groups ELSE max
  IN  CASE to = from -> Nothing(from - Len(sign))
        [] to > from /\ Number(s, from, to, 10, top) > top -> Error(err)
        [] OTHER -> Counted(sign, Number(s, from, to, 10, top), groups, to)
NumberAfter(s, sign, from, groups, max, err) ==
  SignedNumber(s, sign, from, After(s, from, Decimal), groups, max, err)
read_number(s, at, groups, max, err) ==
  IF groups >= 0 /\ Ch(s, at) \in {"+", "-"}
  THEN NumberAfter(s, Ch(s, at), at + 1, groups, max, err)
  ELSE NumberAfter(s, "", at, groups, max, err)

\* {n} {n,} {,m} {n,m}, with blanks anywhere but in a number: <<min, max>>.
\* The digits of min end at mid, those of max at last.
Bounds(lo, hi, tooBig, to) ==
  CASE tooBig -> Error(5)
    [] ~tooBig /\ hi < lo -> Error(4)
    [] OTHER -> Read(to, <<lo, hi>>)
CountsBetween(s, at, min, mid, max, last, exact, end) ==
  LET count(from, to) == Number(s, from, to, 10, MAX_REPEAT_COUNT)
      hadMax == ~exact /\ last > max
  IN  IF Ch(s, end) # "}" \/ (mid = min /\ ~hadMax) THEN Nothing(at)
      ELSE Bounds(count(min, mid),
                  IF exact THEN count(min, mid) ELSE IF hadMax THEN count(max, last) ELSE REPEAT_UNLIMITED,
                  \/ count(min, mid) > MAX_REPEAT_COUNT
                  \/ hadMax /\ count(max, last) > MAX_REPEAT_COUNT,
                  end + 1)
read_repeat_counts(s, at) ==
  LET min  == After(s, at, Blank)
      mid  == After(s, min, Decimal)
      sep  == After(s, mid, Blank)
      max  == After(s, sep + 1, Blank)
      last == After(s, max, Decimal)
  IN  CountsBetween(s, at, min, mid, max, last, Ch(s, sep) = "}",
                    IF Ch(s, sep) = "," THEN After(s, last, Blank) ELSE sep)

\* A name after the character at a position: of a group, with a terminator
\* ("" for none), or, after an asterisk, of a verb or an assertion.
NameBetween(s, from, to, end, isGroup, terminator) ==
  CASE from > Len(s) -> Error(IF isGroup THEN 62 ELSE 60)
    [] isGroup /\ Ch(s, from) \in Decimal -> Error(44)
    [] to - from > MAX_NAME_SIZE -> Error(48)
    [] isGroup /\ to = from -> Error(62)
    [] isGroup /\ terminator # "" /\ Ch(s, end) # terminator -> Error(42)
    [] OTHER -> Read(IF isGroup THEN end + Len(terminator) ELSE to, SubSeq(s, from, to - 1))
read_name(s, at, terminator) ==
  LET blanks(i) == IF terminator = "}" THEN After(s, i, Blank) ELSE i
      to == After(s, blanks(at + 1), Word)
  IN  NameBetween(s, blanks(at + 1), to, IF Ch(s, at) = "*" THEN to ELSE blanks(to),
                  Ch(s, at) # "*", terminator)

\* What begins with a [ and one of : . = at a position ends with the same
\* before a ]; the position of that.
check_posix_syntax(s, at) ==
  LET terminator == Ch(s, at)
      from[i \in (at + 1)..(Len(s) + 1)] ==
        CASE i >= Len(s) -> Nothing(at)
          [] Ch(s, i) = "\\" /\ Ch(s, i + 1) \in {"]", "\\"} ->
               IF i + 2 > Len(s) THEN Nothing(at) ELSE from[i + 2]
          [] Ch(s, i) = "]" \/ (Ch(s, i) = "[" /\ Ch(s, i + 1) = terminator) -> Nothing(at)
          [] Ch(s, i) = terminator /\ Ch(s, i + 1) = "]" -> Read(i, 0)
          [] OTHER -> from[i + 1]
  IN  IF at >= Len(s) THEN Nothing(at) ELSE from[at + 1]

-----------------------------------------------------------------------------
(* check_escape: what follows a backslash.  It is a character (v is its    *)
(* code point), an escape (v is its letter), or a back reference (v is its *)
(* number).  opts holds the options and the extra options.                 *)

Escape(k, at, v) == [k |-> k, err |-> 0, at |-> at, v |-> v]
EscapeError(err) == [k |-> "error", err |-> err, at |-> 0, v |-> 0]
EscapeChar(at, code) == Escape("char", at, code)
ItsOwn(s, at) == EscapeChar(at + 1, CodeOf[Ch(s, at)])
\* The escapes that the table knows: characters, and what has a name.
EscapedControls == [a |-> 7, e |-> 27, f |-> 12, n |-> 10, r |-> 13, t |-> 9]
NamedEscapes == CharsOf("ABCDEGHKNPQRSVWXZbdhkpsvwz")
AltBsux(opts) == opts \cap {"ALT_BSUX", "EXTRA_ALT_BSUX"} # {}
Surrogate(code, opts) ==
  code \in 55296..57343 /\ "UTF" \in opts /\ "ALLOW_SURROGATE_ESCAPES" \notin opts
MaxChar(opts) == IF "UTF" \in opts THEN MAX_UTF ELSE 255

\* The digits of \x{...}, \o{...} or \N{U+...} from a position, and blanks.
EscapeBraced(s, at, digits, base, err, opts) ==
  LET to == After(s, at, digits)
      end == After(s, to, Blank)
      code == Number(s, at, to, base, MaxChar(opts))
  IN  CASE Ch(s, at) \in {"", "}"} -> EscapeError(78)
        [] code > MaxChar(opts) -> EscapeError(34)
        [] Surrogate(code, opts) -> EscapeError(73)
        [] Ch(s, end) # "}" -> EscapeError(err)
        [] OTHER -> EscapeChar(end + 1, code)

\* \N, but not \N{name}; at is after the N.
EscapeN(s, at, opts, inClass) ==
  LET p == After(s, at + 1, Blank)
      counts == read_repeat_counts(s, p)
  IN  CASE Ch(s, at) # "{" -> Escape("esc", at, "N")
        [] Ch(s, p) = "U" /\ Ch(s, p + 1) = "+" ->
             IF "UTF" \in opts THEN EscapeBraced(s, p + 2, Hex, 16, 67, opts)
             ELSE EscapeError(93)
        [] OTHER ->
             CASE inClass -> EscapeError(37)
               [] counts.ok -> Escape("esc", at, "N")
               [] OTHER -> EscapeError(IF counts.err = 0 THEN 37 ELSE counts.err)

\* \u with the ECMAScript options: four digits, or some in braces.
EscapeU(s, at, opts, inClass) ==
  LET braced == Ch(s, at) = "{" /\ "EXTRA_ALT_BSUX" \in opts
      from == IF braced THEN at + 1 ELSE at
      to == IF braced THEN After(s, from, Hex) ELSE at + 4
      code == Number(s, from, to, 16, MAX_UTF)
  IN  CASE ~AltBsux(opts) -> EscapeError(37)
        [] braced /\ (to = from \/ Ch(s, to) # "}") ->
             IF inClass THEN EscapeChar(at, CodeOf["u"]) ELSE Escape("esc", at + 1, "ub")
        [] ~braced /\ \E i \in at..(at + 3) : Ch(s, i) \notin Hex -> EscapeChar(at, CodeOf["u"])
        [] OTHER ->
             CASE code > MaxChar(opts) -> EscapeError(77)
               [] Surrogate(code, opts) -> EscapeError(73)
               [] OTHER -> EscapeChar(IF braced THEN to + 1 ELSE to, code)

\* \g: a reference by number, by name (as \k), or a subroutine call.
EscapeG(s, at, bracount, inClass) ==
  LET braced == Ch(s, at) = "{"
      n == read_number(s, IF braced THEN After(s, at + 1, Blank) ELSE at,
                       bracount, MAX_GROUP_NUMBER, 61)
      end == After(s, n.at, Blank)
  IN  CASE inClass -> EscapeChar(at, CodeOf["g"])
        [] ~inClass /\ Ch(s, at) \in {"<", "'"} -> Escape("esc", at, "g")
        [] OTHER ->
             CASE Ch(s, at) = "" -> EscapeError(57)
               [] n.err # 0 -> EscapeError(n.err)
               [] ~n.ok -> IF braced THEN Escape("esc", at, "k") ELSE EscapeError(57)
               [] braced /\ Ch(s, end) # "}" -> EscapeError(119)
               [] n.v = 0 -> EscapeError(15)
               [] OTHER -> Escape("ref", IF braced THEN end + 1 ELSE n.at, n.v)

\* Up to three octal digits.
EscapeOctal(s, at, opts) ==
  LET to == CHOOSE i \in (at + 1)..(at + 3) :
              /\ \A j \in at..(i - 1) : Ch(s, j) \in Octal
              /\ i = at + 3 \/ Ch(s, i) \notin Octal
      code == Number(s, at, to, 8, 511)
  IN  CASE code > 255 /\ "PYTHON_OCTAL" \in opts -> EscapeError(102)
        [] code > 255 /\ opts \cap {"UTF", "PYTHON_OCTAL"} = {} -> EscapeError(51)
        [] code = 0 /\ to = at + 1 /\ "NO_BS0" \in opts -> EscapeError(98)
        [] OTHER -> EscapeChar(to, code)

\* A digit other than 0, at the position itself: outside a class, a back
\* reference when the number is below 10, starts with an 8 or a 9, or is that
\* of a group so far; as in Python, when it is not three octal digits.
EscapeDigit(s, at, opts, bracount, inClass) ==
  LET n == read_number(s, at, -1, MAX_GROUP_NUMBER, 61)
      tooBig == Ch(s, at) \in {"8", "9"}
      isRef == IF "PYTHON_OCTAL" \in opts
               THEN \E i \in at..(at + 2) : Ch(s, i) \notin Octal
               ELSE tooBig \/ (n.ok /\ (n.v < 10 \/ n.v <= bracount))
  IN  CASE ~inClass /\ isRef -> IF n.ok THEN Escape("ref", n.at, n.v) ELSE EscapeError(61)
        [] inClass /\ tooBig -> ItsOwn(s, at)
        [] OTHER -> EscapeOctal(s, at, opts)

EscapeX(s, at, opts) ==
  LET two == Ch(s, at) \in Hex /\ Ch(s, at + 1) \in Hex
  IN  CASE two -> EscapeChar(at + 2, Number(s, at, at + 2, 16, 255))
        [] ~two /\ AltBsux(opts) -> EscapeChar(at, CodeOf["x"])
        [] OTHER ->
             CASE Ch(s, at) = "{" -> EscapeBraced(s, After(s, at + 1, Blank), Hex, 16, 67, opts)
               [] Ch(s, at) \in Hex -> EscapeChar(at + 1, DigitOf[Ch(s, at)])
               [] OTHER -> EscapeError(78)

\* \c and a printable character, whose bit 64 is flipped.
EscapeControl(s, at) ==
  LET code == CodeOf[UpperOf(Ch(s, at))]
  IN  CASE Ch(s, at) = "" -> EscapeError(2)
        [] Ch(s, at) \notin CharsOf(Printable) \cup {""} -> EscapeError(68)
        [] OTHER -> EscapeChar(at + 1, IF code >= 64 THEN code - 64 ELSE code + 64)

\* at is after the backslash.
check_escape(s, at, opts, bracount, inClass) ==
  LET c == Ch(s, at)
      next == at + 1
  IN  CASE c = "" -> EscapeError(1)
        [] c \notin Alnum \cup {""} -> ItsOwn(s, at)
        [] c \in DOMAIN EscapedControls ->
             EscapeChar(next, IF c = "r" /\ "ESCAPED_CR_IS_LF" \in opts THEN 10
                              ELSE EscapedControls[c])
        [] c = "N" -> EscapeN(s, next, opts, inClass)
        [] c \in NamedEscapes \ {"N"} -> Escape("esc", next, c)
        [] c = "u" -> EscapeU(s, next, opts, inClass)
        [] c = "U" -> IF AltBsux(opts) THEN ItsOwn(s, at) ELSE EscapeError(37)
        [] c = "g" -> EscapeG(s, next, bracount, inClass)
        [] c = "0" -> EscapeOctal(s, at, opts)
        [] c \in Decimal \ {"0"} -> EscapeDigit(s, at, opts, bracount, inClass)
        [] c = "o" -> IF Ch(s, next) # "{" THEN EscapeError(55)
                      ELSE EscapeBraced(s, After(s, next + 1, Blank), Octal, 8, 64, opts)
        [] c = "x" -> EscapeX(s, next, opts)
        [] c = "c" -> EscapeControl(s, next)
        [] OTHER -> EscapeError(IF c \in {"F", "l", "L"} THEN 37 ELSE 3)
-----------------------------------------------------------------------------
(* get_ucp: a property after \p or \P: <<negated, property>>.  Case, blanks,  *)
(* hyphens and low lines in a name do not matter.  The properties are some *)
(* of the general categories and the special ones.                         *)

Properties ==
  [any |-> "Any", l |-> "L", lu |-> "Lu", ll |-> "Ll", n |-> "N", nd |-> "Nd", p |-> "P",
   pc |-> "Pc", z |-> "Z", zs |-> "Zs", c |-> "C", xan |-> "Xan", xsp |-> "Xsp", xwd |-> "Xwd"]
    @@ ("l&" :> "Lamp")
Ignorable == {"_", "-", " ", "\t", "\n", "\f", "\r"}
NameChars == {c \in CharsOf(Printable) : CodeOf[c] \in 38..122} \cup Ignorable
LowerOf(c) == IF c \in CharsOf(Upper) THEN LET i == IndexIn(c, Upper) IN SubSeq(Lower, i, i) ELSE c
\* The characters of a name that matter, in lower case.
Loosely(s, from, to) ==
  LET upTo[i \in (from - 1)..(to - 1)] ==
        IF i < from THEN ""
        ELSE upTo[i - 1] \o IF Ch(s, i) \in Ignorable THEN "" ELSE LowerOf(Ch(s, i))
  IN  upTo[to - 1]
get_ucp(s, at) ==
  LET first == After(s, at + 1, Ignorable)
      negated == Ch(s, at) = "{" /\ Ch(s, first) = "^"
      from == CASE Ch(s, at) # "{" -> at [] negated -> first + 1 [] OTHER -> first
      to == IF Ch(s, at) = "{" THEN After(s, from, NameChars) ELSE at + 1
      name == Loosely(s, from, to)
  IN  CASE \/ Ch(s, at) = "{" /\ Ch(s, to) # "}"
           \/ Ch(s, at) \notin {"{"} \cup CharsOf(Lower) \cup CharsOf(Upper) -> Error(46)
        [] name \in DOMAIN Properties ->
             Read(IF Ch(s, at) = "{" THEN to + 1 ELSE to, <<negated, Properties[name]>>)
        [] OTHER -> Error(47)

-----------------------------------------------------------------------------
(* parse_capture_list: group numbers and names in parentheses, as items of *)
(* the parsed pattern.                                                     *)

TerminatorOf == "<" :> ">" @@ "'" :> "'" @@ "{" :> "}"
CaptureReference(s, at, bracount) ==
  LET n == read_number(s, at, bracount, MAX_GROUP_NUMBER, 61)
      name == read_name(s, at, TerminatorOf[Ch(s, at)])
  IN  CASE n.ok -> IF n.v = 0 THEN Error(15) ELSE Read(n.at, <<"CAPTURE_NUMBER", n.v>>)
        [] n.err # 0 -> Error(n.err)
        [] OTHER -> IF Ch(s, at) \notin {"<", "'"} THEN Error(117)
                    ELSE [name EXCEPT !.v = <<"CAPTURE_NAME", @>>]
parse_capture_list(s, at, bracount) ==
  LET from[i \in 1..(Len(s) + 2)] ==    \* after a parenthesis or a comma
        LET with(one) ==
              CASE ~one.ok -> one
                [] Ch(s, one.at) = ")" -> Read(one.at + 1, <<one.v>>)
                [] Ch(s, one.at) = "," ->
                     LET rest == from[one.at + 1]
                     IN  IF rest.ok THEN Read(rest.at, <<one.v>> \o rest.v) ELSE rest
                [] OTHER -> Error(IF one.at > Len(s) THEN 14 ELSE 24)
        IN  IF i > Len(s) THEN Error(117) ELSE with(CaptureReference(s, i, bracount))
  IN  IF Ch(s, at) # "(" THEN Error(118) ELSE from[at + 1]
=============================================================================
