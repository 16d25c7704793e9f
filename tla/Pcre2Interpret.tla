---------------------------- MODULE Pcre2Interpret --------------------------
(***************************************************************************)
(* match() of pcre2_match.c: what the opcodes do.  A backtracking point of *)
(* match() tries one continuation after another; here a handler returns    *)
(* the states from which it continues, in the order in which it tries      *)
(* them.  A state is [at, caps]: Feptr as an offset in the subject, and    *)
(* the part of Fovector that is set.  x is [s, code, offset, opts]: the    *)
(* subject, the compiled code, where the search began, and the options of  *)
(* the pattern and of the call.                                            *)
(***************************************************************************)
EXTENDS Pcre2Scan

-----------------------------------------------------------------------------
(* One character.                                                          *)

CharHere(y, ch) == IF y.op = "CHARI" THEN SameCaseless(y.c, ch) ELSE ch = y.c
NotHere(y, ch) == IF y.op = "NOTI" THEN ~SameCaseless(y.c, ch) ELSE ch # y.c
ClassHere(y, ch) == ch \in y.s
TypeHere(y, ch) ==
  CASE y.op = "ANY" -> ch # "LF"
    [] y.op = "ALLANY" -> TRUE
    [] OTHER -> ch \in TypeChars[y.op]
PropHere(y, ch) ==
  LET type == chartype[ch]
      in == CASE y.pt = "LAMP" -> type \in {"Lu", "Ll", "Lt"}
              [] y.pt = "GC" -> ucp_gentype[type] = y.pd
              [] y.pt = "PC" -> type = y.pd
              [] y.pt = "ALNUM" -> ucp_gentype[type] \in {"L", "N"}
              [] y.pt = "WORD" -> ucp_gentype[type] \in {"L", "N"} \/ type \in {"Mn", "Pc"}
              [] y.pt = "SPACE" -> \/ ch \in HSPACE_CASES \cup VSPACE_CASES
                                   \/ ucp_gentype[type] = "Z"
  IN  in = (y.op = "PROP")
MatchesChar(y, ch) ==
  CASE y.op \in {"CHAR", "CHARI"} -> CharHere(y, ch)
    [] y.op \in {"NOT", "NOTI"} -> NotHere(y, ch)
    [] y.op = "CLASS" -> ClassHere(y, ch)
    [] y.op \in {"PROP", "NOTPROP"} -> PropHere(y, ch)
    [] OTHER -> TypeHere(y, ch)
\* \R takes the LF after a CR with it.
NewlineLength(s, at) ==
  IF s[at + 1] = "CR" /\ at + 1 < Len(s) /\ s[at + 2] = "LF" THEN 2 ELSE 1
\* How many characters the item takes at a position, 0 when it does not match.
Taken(y, s, at) ==
  CASE at >= Len(s) \/ ~MatchesChar(y, s[at + 1]) -> 0
    [] y.op = "ANYNL" -> NewlineLength(s, at)
    [] OTHER -> 1

\* A repeated item: the minimum first; from there one more at a time, up to
\* so many more, or as far as it goes and then back one at a time.
Beyond == -1
RECURSIVE Minimum(_, _, _, _), Minimizing(_, _, _, _), BackOff(_, _, _, _)
Minimum(y, s, at, n) ==
  CASE n = 0 -> at
    [] Taken(y, s, at) = 0 -> Beyond
    [] OTHER -> Minimum(y, s, at + Taken(y, s, at), n - 1)
Minimizing(y, s, at, more) ==
  IF more = 0 \/ Taken(y, s, at) = 0 THEN <<at>>
  ELSE <<at>> \o Minimizing(y, s, at + Taken(y, s, at), more - 1)
\* Back over the two characters of a CRLF at once.
BackOff(y, s, least, at) ==
  LET back == at - 1
      crlf == y.op = "ANYNL" /\ back > least /\ s[at] = "LF" /\ s[back] = "CR"
  IN  IF at = least THEN <<at>>
      ELSE <<at>> \o BackOff(y, s, least, IF crlf THEN back - 1 ELSE back)
Maximizing(y, s, at, more) == BackOff(y, s, at, Last(Minimizing(y, s, at, more)))
MatchSingle(y, x, m) ==
  LET least == Minimum(y, x.s, m.at, y.lo)
      more == y.hi - y.lo
      ends == CASE least = Beyond -> <<>>
                [] y.mode = "lazy" -> Minimizing(y, x.s, least, more)
                [] y.mode = "possessive" -> <<Last(Minimizing(y, x.s, least, more))>>
                [] OTHER -> Maximizing(y, x.s, least, more)
  IN  [k \in DOMAIN ends |-> [m EXCEPT !.at = ends[k]]]

-----------------------------------------------------------------------------
(* Back references and the assertions about a position.                    *)

\* How many rounds, from a minimum to a maximum, are tried in which order.
Counts(lo, n, mode) ==
  CASE mode = "lazy"   -> [i \in 1..(n - lo + 1) |-> lo + i - 1]
    [] mode = "greedy" -> [i \in 1..(n - lo + 1) |-> n - i + 1]
\* match_ref: the group's text again at a position.
MatchRef(y, x, span, at) ==
  /\ at + span[2] - span[1] <= Len(x.s)
  /\ \A j \in 1..(span[2] - span[1]) :
       IF y.op = "REFI" THEN SameCaseless(x.s[span[1] + j], x.s[at + j])
                        ELSE x.s[span[1] + j] = x.s[at + j]
\* OP_REF, OP_REFI: an unset group matches only zero times, unless it counts
\* as empty, which matches any number of times.
MatchRefs(y, x, m) ==
  LET span == m.caps[y.n]
      len == span[2] - span[1]
      most == Least({y.hi, Len(x.s)})
      stops == {k \in 0..(most - 1) : ~MatchRef(y, x, span, m.at + k * len)}
      n == IF stops = {} THEN most ELSE Least(stops)
  IN  CASE y.n \notin DOMAIN m.caps ->
             IF y.lo = 0 \/ "MATCH_UNSET_BACKREF" \in x.opts THEN <<m>> ELSE <<>>
        [] len = 0 -> <<m>>
        [] n < y.lo -> <<>>
        [] OTHER -> Chain(Counts(y.lo, n, y.mode),
                          LAMBDA k : <<[m EXCEPT !.at = @ + k * len]>>)

WordAt(s, at) == at \in 1..Len(s) /\ s[at] \in ctype.word
WordBoundary(y, x, at) ==
  (WordAt(x.s, at) # WordAt(x.s, at + 1)) = (y.op = "WORD_BOUNDARY")
LineStart(y, x, at) ==
  IF y.op = "CIRC" THEN at = 0 /\ "NOTBOL" \notin x.opts
  ELSE IF at = 0 THEN "NOTBOL" \notin x.opts
  ELSE at < Len(x.s) /\ x.s[at] = "LF"
AtLastNewline(x, at) == at < Len(x.s) => x.s[at + 1] = "LF" /\ at + 1 = Len(x.s)
LineEnds(y, x, at) ==
  IF y.op = "DOLL" THEN "NOTEOL" \notin x.opts /\ AtLastNewline(x, at)
  ELSE IF at < Len(x.s) THEN x.s[at + 1] = "LF" ELSE "NOTEOL" \notin x.opts
Asserted(y, x, at) ==
  CASE y.op \in {"CIRC", "CIRCM"} -> LineStart(y, x, at)
    [] y.op \in {"DOLL", "DOLLM"} -> LineEnds(y, x, at)
    [] y.op = "SOD" -> at = 0
    [] y.op = "SOM" -> at = x.offset
    [] y.op = "EODN" -> AtLastNewline(x, at)
    [] y.op = "EOD" -> at = Len(x.s)
    [] y.op \in {"WORD_BOUNDARY", "NOT_WORD_BOUNDARY"} -> WordBoundary(y, x, at)
    [] y.op = "FAIL" -> FALSE

\* OP_REVERSE and OP_VREVERSE: from as far back as possible to the minimum.
MatchReverse(y, m) ==
  LET far == Least({y.hi, m.at})
  IN  IF far < y.lo THEN <<>>
      ELSE Chain(Counts(y.lo, far, "greedy"), LAMBDA k : <<[m EXCEPT !.at = @ - k]>>)
StartsVariable(items) ==
  items # <<>> /\ items[1].op = "REVERSE" /\ items[1].lo < items[1].hi

-----------------------------------------------------------------------------
(* Brackets.                                                               *)

RECURSIVE MatchItems(_, _, _), MatchBracket(_, _, _), Possessive(_, _, _, _)
\* GROUPLOOP: branch by branch.
Branches(alts, x, m) == Chain(alts, LAMBDA items : MatchItems(items, x, m))
\* A lookbehind that went back a variable distance must end where it began.
BranchesBack(alts, x, m) ==
  Chain(alts, LAMBDA items :
    IF StartsVariable(items)
    THEN SelectSeq(MatchItems(items, x, m), LAMBDA w : w.at = m.at)
    ELSE MatchItems(items, x, m))

\* OP_RECURSE: the first bracket with the number; the captures are put back.
MatchRecurse(y, x, m) ==
  LET alts == IF y.n = 0 THEN x.code ELSE At(x.code, FindBracket(y.n, x.code)).alts
  IN  Chain(Branches(alts, x, m), LAMBDA w : <<[w EXCEPT !.caps = m.caps]>>)

MatchAssert(y, x, m) ==
  Chain(FirstOnly(IF y.op = "ASSERT" THEN Branches(y.alts, x, m)
                                     ELSE BranchesBack(y.alts, x, m)),
        LAMBDA w : <<[w EXCEPT !.at = m.at]>>)
MatchAssertNot(y, x, m) ==
  IF (IF y.op = "ASSERT_NOT" THEN Branches(y.alts, x, m)
                             ELSE BranchesBack(y.alts, x, m)) = <<>>
  THEN <<m>> ELSE <<>>
\* OP_COND with OP_CREF.
MatchCond(y, x, m) ==
  CASE y.n \in DOMAIN m.caps -> MatchItems(y.alts[1], x, m)
    [] Len(y.alts) = 2 -> MatchItems(y.alts[2], x, m)
    [] OTHER -> <<m>>
\* The end of a capturing bracket.
MatchCapture(y, x, m) ==
  Chain(Branches(y.alts, x, m),
        LAMBDA w : <<[w EXCEPT !.caps = (y.n :> <<m.at, w.at>>) @@ @]>>)

\* A bracket up to its ket.
Inside(y, x, m) ==
  CASE y.op = "BRA"  -> Branches(y.alts, x, m)
    [] y.op = "CBRA" -> MatchCapture(y, x, m)
    [] y.op = "ONCE" -> FirstOnly(Branches(y.alts, x, m))
    [] y.op = "COND" -> MatchCond(y, x, m)
    [] y.op \in {"ASSERT", "ASSERTBACK"} -> MatchAssert(y, x, m)
    [] y.op \in {"ASSERT_NOT", "ASSERTBACK_NOT"} -> MatchAssertNot(y, x, m)

\* OP_BRAPOS and its like: once a round has matched there is no way back
\* into it.
Possessive(y, x, m, allowed) ==
  LET round == FirstOnly(Inside(y, x, m))
  IN  CASE round = <<>> -> IF allowed THEN <<m>> ELSE <<>>
        [] round[1].at = m.at -> round
        [] OTHER -> Possessive(y, x, round[1], TRUE)

\* OP_KETRMAX and OP_KETRMIN: another round, unless this one was empty.  The
\* start of a plain bracket is not recorded, so it is not checked.
MatchKet(y, x, m, w) ==
  IF w.at = m.at /\ (y.s \/ y.op \notin {"BRA", "COND"}) THEN <<w>>
  ELSE IF y.ket = "lazy" THEN <<w>> \o MatchBracket(y, x, w)
  ELSE MatchBracket(y, x, w) \o <<w>>
MatchBracket(y, x, m) ==
  CASE y.ket = "once" -> Inside(y, x, m)
    [] y.ket = "possessive" -> Possessive(y, x, m, y.zero = "possessive")
    [] OTHER -> Chain(Inside(y, x, m), LAMBDA w : MatchKet(y, x, m, w))
\* OP_BRAZERO, OP_BRAMINZERO, OP_SKIPZERO.
MatchZero(y, x, m) ==
  CASE y.zero = "greedy" -> MatchBracket(y, x, m) \o <<m>>
    [] y.zero = "lazy" -> <<m>> \o MatchBracket(y, x, m)
    [] y.zero = "skip" -> <<m>>
    [] OTHER -> MatchBracket(y, x, m)

MatchItem(y, x, m) ==
  CASE IsSingleOp(y) -> MatchSingle(y, x, m)
    [] y.op \in {"REF", "REFI"} -> MatchRefs(y, x, m)
    [] y.op = "RECURSE" -> MatchRecurse(y, x, m)
    [] y.op = "REVERSE" -> MatchReverse(y, m)
    [] IsBracket(y) -> MatchZero(y, x, m)
    [] OTHER -> IF Asserted(y, x, m.at) THEN <<m>> ELSE <<>>
MatchItems(items, x, m) ==
  IF items = <<>> THEN <<m>>
  ELSE Chain(MatchItem(items[1], x, m), LAMBDA w : MatchItems(Tail(items), x, w))

\* The ways in which the code matches at a start.
MatchWaysOf(code, s, offset, opts, start) ==
  Branches(code, [s |-> s, code |-> code, offset |-> offset, opts |-> opts],
           [at |-> start, caps |-> <<>>])

\* Mutant: NOTEMPTY_ATSTART forbids an empty match anywhere.
AcceptedNowhere(w, start, offset, s, opts) ==
  /\ w.at = start => opts \cap {"NOTEMPTY", "NOTEMPTY_ATSTART"} = {}
  /\ "ENDANCHORED" \in opts => w.at = Len(s)

\* OP_END: an empty match may be unwelcome, or one that ends too early; the
\* next way is tried then.
Accepted(w, start, offset, s, opts) ==
  /\ w.at = start => /\ "NOTEMPTY" \notin opts
                     /\ "NOTEMPTY_ATSTART" \in opts => start # offset
  /\ "ENDANCHORED" \in opts => w.at = Len(s)
\* match() at a start: <<>> when it returns MATCH_NOMATCH, or the state in
\* which it reached the end.
Match(code, s, start, offset, opts) ==
  FirstOnly(SelectSeq(MatchWaysOf(code, s, offset, opts, start),
                      LAMBDA w : Accepted(w, start, offset, s, opts)))
=============================================================================
