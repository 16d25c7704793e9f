---------------------------- MODULE Pcre2Compile ----------------------------
(***************************************************************************)
(* pcre2_compile.c from the parsed pattern on: compile_branch and          *)
(* compile_regex, which emit the code and keep the first and the last      *)
(* required code unit, the lengths of lookbehinds, and the scans of the    *)
(* finished code: anchoring, start of line, asserted first code unit.      *)
(*                                                                         *)
(* The parsed pattern is a tree of Pcre2Tree.  The code is a tree too, of  *)
(* the same shape as the brackets of the real code: a branch is a sequence *)
(* of code items,                                                          *)
(*   [op, c, lo, hi, mode]   CHAR CHARI NOT NOTI and their STAR, PLUS,     *)
(*                           QUERY, UPTO and EXACT forms (CLASS has a set  *)
(*                           s for c, PROP and NOTPROP a type pt and data  *)
(*                           pd, DIGIT, ANY, ANYNL ... have neither)       *)
(*   [op, n, lo, hi, mode]   REF REFI                                      *)
(*   [op, n]                 RECURSE                                       *)
(*   [op, lo, hi]            REVERSE (VREVERSE when lo < hi)               *)
(*   [op]                    CIRC ... NOT_WORD_BOUNDARY, FAIL              *)
(*   [op, n, alts, zero, ket, s]                                           *)
(*      BRA CBRA ONCE COND ASSERT ASSERT_NOT ASSERTBACK ASSERTBACK_NOT;    *)
(*      zero is BRAZERO's kind in front of it ("no" without, "skip" for    *)
(*      SKIPZERO), ket is "once" for KET and otherwise the kind of         *)
(*      KETRMAX, KETRMIN and KETRPOS (which makes the bracket BRAPOS or    *)
(*      CBRAPOS), s says it is the S form (SBRA, SCBRA, SCOND).            *)
(***************************************************************************)
EXTENDS Pcre2Tree

\* A first or required code unit.  REQ_NONE keeps the value it had: c is
\* meaningful to one comparison of pcre2_compile even then.
Unset == [f |-> "unset", c |-> "", i |-> FALSE, vary |-> FALSE]
CodeUnit(c, caseless, vary) ==
  [f |-> "set", c |-> c, i |-> caseless, vary |-> vary]
IsSet(u) == u.f = "set"
NoneIfUnset(u) == IF u.f = "unset" THEN [u EXCEPT !.f = "none"] ELSE u
SameFirst(u, v) == u = v
\* Equal but for REQ_VARY.
SameReq(u, v) == [u EXCEPT !.vary = FALSE] = [v EXCEPT !.vary = FALSE]

\* The tables of character types, and the white space of \h and \v.
ctype == [digit |-> {"1", "2"}, space |-> {"SP", "HT", "LF", "CR"},
          word |-> {"A", "a", "b", "c", "1", "2", "_"}]
HSPACE_CASES == {"SP", "HT"}
VSPACE_CASES == {"LF", "CR"}
\* What the character types match; ANYNL takes a LF after a CR with it.
TypeChars == [DIGIT |-> ctype.digit, NOT_DIGIT |-> Chars \ ctype.digit,
              WHITESPACE |-> ctype.space, NOT_WHITESPACE |-> Chars \ ctype.space,
              WORDCHAR |-> ctype.word, NOT_WORDCHAR |-> Chars \ ctype.word,
              HSPACE |-> HSPACE_CASES, NOT_HSPACE |-> Chars \ HSPACE_CASES,
              VSPACE |-> VSPACE_CASES, NOT_VSPACE |-> Chars \ VSPACE_CASES,
              ANYNL |-> VSPACE_CASES]
\* The Unicode database: the category of a character; its first letter is the
\* general category.
chartype == [c \in Chars |-> CASE c = "A" -> "Lu" [] c \in {"a", "b", "c"} -> "Ll"
                              [] c \in {"1", "2"} -> "Nd" [] c = "_" -> "Pc"
                              [] c = "SP" -> "Zs" [] OTHER -> "Cc"]
ucp_gentype == [Lu |-> "L", Ll |-> "L", Nd |-> "N", Pc |-> "P", Zs |-> "Z", Cc |-> "C"]

-----------------------------------------------------------------------------
(* Code items.                                                             *)

OpOf == [circ |-> "CIRC", circm |-> "CIRCM", doll |-> "DOLL", dollm |-> "DOLLM",
         sod |-> "SOD", som |-> "SOM", eod |-> "EOD", eodn |-> "EODN",
         wordb |-> "WORD_BOUNDARY", nwordb |-> "NOT_WORD_BOUNDARY",
         any |-> "ANY", allany |-> "ALLANY", anynl |-> "ANYNL",
         plain |-> "BRA", capture |-> "CBRA", atomic |-> "ONCE",
         cond |-> "COND", ahead |-> "ASSERT", notahead |-> "ASSERT_NOT",
         behind |-> "ASSERTBACK", notbehind |-> "ASSERTBACK_NOT"]
Assertions == {"ASSERT", "ASSERT_NOT", "ASSERTBACK", "ASSERTBACK_NOT"}
Brackets == Assertions \cup {"BRA", "CBRA", "ONCE", "COND"}
TypeOp == [d |-> "DIGIT", s |-> "WHITESPACE", w |-> "WORDCHAR", h |-> "HSPACE", v |-> "VSPACE"]
NotTypeOp == [d |-> "NOT_DIGIT", s |-> "NOT_WHITESPACE", w |-> "NOT_WORDCHAR",
              h |-> "NOT_HSPACE", v |-> "NOT_VSPACE"]
\* A property as its type and data: a general or a particular category, or one
\* of the special sets.
PropCode == [L |-> <<"GC", "L">>, N |-> <<"GC", "N">>, P |-> <<"GC", "P">>, Z |-> <<"GC", "Z">>, C |-> <<"GC", "C">>,
             Lu |-> <<"PC", "Lu">>, Ll |-> <<"PC", "Ll">>, Nd |-> <<"PC", "Nd">>,
             Pc |-> <<"PC", "Pc">>, Zs |-> <<"PC", "Zs">>, Lamp |-> <<"LAMP", "">>, Xan |-> <<"ALNUM", "">>,
             Xsp |-> <<"SPACE", "">>, Xwd |-> <<"WORD", "">>]
CharTypes == {TypeOp[t] : t \in DOMAIN TypeOp} \cup {NotTypeOp[t] : t \in DOMAIN NotTypeOp}
             \cup {"PROP", "NOTPROP", "ANY", "ALLANY", "ANYNL"}
SingleOps == {"CHAR", "CHARI", "NOT", "NOTI", "CLASS"} \cup CharTypes
IsBracket(y) == y.op \in Brackets
IsSingleOp(y) == y.op \in SingleOps
\* The repeat families of a single-character item.
IsStar(y)  == y.lo = 0 /\ y.hi = Unlimited
IsPlus(y)  == y.lo = 1 /\ y.hi = Unlimited
IsExact(y) == y.hi = y.lo /\ y.lo > 1
IsOne(y)   == y.lo = 1 /\ y.hi = 1
IsCond(y)  == y.op = "COND"

\* A class of one character is compiled as that character, and one of two
\* case partners as a caseless character.
ClassAsChar(t) ==
  LET lowest == CHOOSE c \in t.s : \A d \in t.s : CodePoint(c) <= CodePoint(d)
  IN  IF t.k = "class" /\ t.s \in {{lowest}, {lowest, OtherCase(lowest)}}
      THEN [k |-> "char", c |-> lowest, i |-> t.s # {lowest}, q |-> t.q]
      ELSE t

SingleItem(t) ==
  LET rep == [lo |-> 1, hi |-> 1, mode |-> "greedy"]
  IN  CASE t.k = "char"  -> [op |-> IF t.i THEN "CHARI" ELSE "CHAR", c |-> t.c] @@ rep
        [] t.k = "not"   -> [op |-> IF t.i THEN "NOTI" ELSE "NOT", c |-> t.c] @@ rep
        [] t.k = "class" -> [op |-> "CLASS", s |-> t.s] @@ rep
        [] t.k \in {"any", "allany"} -> [op |-> OpOf[t.k]] @@ rep
\* META_ESCAPE: a type has its opcode; of a property, the cases are one in
\* caseless matching.
EscapeItem(t) ==
  LET rep == [lo |-> 1, hi |-> 1, mode |-> "greedy"]
      code == IF t.i /\ t.p \in {"Lu", "Ll"} THEN PropCode.Lamp ELSE PropCode[t.p]
  IN  CASE t.k = "anynl" -> [op |-> "ANYNL"] @@ rep
        [] t.k = "type" -> [op |-> IF t.neg THEN NotTypeOp[t.t] ELSE TypeOp[t.t]] @@ rep
        [] t.k = "prop" -> [op |-> IF t.neg THEN "NOTPROP" ELSE "PROP",
                            pt |-> code[1], pd |-> code[2]] @@ rep
RefItem(t) == [op |-> IF t.i THEN "REFI" ELSE "REF", n |-> t.n,
               lo |-> 1, hi |-> 1, mode |-> "greedy"]
Bracket(op, n, alts) ==
  [op |-> op, n |-> n, alts |-> alts, zero |-> "no", ket |-> "once", s |-> FALSE]
Wrap(op, items) == <<Bracket(op, 0, <<items>>)>>
Rep(y, lo, hi, mode) == [y EXCEPT !.lo = lo, !.hi = hi, !.mode = mode]
Copies(n, y) == [i \in 1..n |-> y]

\* Mutant: the optional part is not shortened by the minimum.
RepeatCharTwice(y, q) ==
  IF q.max = 0 THEN <<>>
  ELSE <<Rep(y, q.min, q.min, "greedy"), Rep(y, 0, q.max, q.mode)>>

\* OUTPUT_SINGLE_REPEAT: *, +, ? and UPTO by themselves; a larger minimum as
\* EXACT, or for one as the character itself, with an UPTO, QUERY or STAR
\* after it, which alone becomes possessive.  A character type in front of it
\* is not skipped for that, and both are wrapped.
RepeatChar(y, q) ==
  CASE q.max = 0 -> <<>>
    [] q.max = 1 /\ q.min = 1 -> <<y>>
    [] q.min = 0 \/ (q.min = 1 /\ q.max = Unlimited) ->
         <<Rep(y, q.min, q.max, q.mode)>>
    [] q.min = q.max -> <<Rep(y, q.min, q.min, "greedy")>>
    [] q.min = 1 /\ y.op \in CharTypes /\ q.mode = "possessive" ->
         Wrap("ONCE", <<y, Rep(y, 0, q.max - 1, "greedy")>>)
    [] OTHER ->
         <<Rep(y, q.min, q.min, "greedy"),
           Rep(y, 0, IF q.max = Unlimited THEN q.max ELSE q.max - q.min, q.mode)>>
\* A class or a back reference keeps its item, with the repeat after it;
\* there is no possessive form of a repeated reference, which is wrapped.
RepeatInPlace(y, q) ==
  CASE q.max = 0 -> <<>>
    [] q.max = 1 /\ q.min = 1 -> <<y>>
    [] q.mode = "possessive" /\ y.op \in {"REF", "REFI"} ->
         Wrap("ONCE", <<Rep(y, q.min, q.max, "greedy")>>)
    [] OTHER -> <<Rep(y, q.min, q.max, q.mode)>>

\* n optional copies of a bracket, each inside the one before it.
RECURSIVE Nested(_, _, _)
Nested(g, n, mode) ==
  CASE n = 0 -> <<>>
    [] n = 1 -> <<[g EXCEPT !.zero = mode]>>
    [] OTHER -> <<[Bracket("BRA", 0, <<<<g>> \o Nested(g, n - 1, mode)>>)
                     EXCEPT !.zero = mode]>>

\* The last copy of a bracket repeated without limit.
Looping(g, mode, empty) ==
  LET bra == IF g.op = "ONCE" /\ mode = "possessive"
             THEN [g EXCEPT !.op = "BRA"] ELSE g
      s == [bra EXCEPT !.s = empty \/ (IsCond(g) /\ Len(g.alts) = 1)]
  IN  CASE bra.op = "ONCE" -> [bra EXCEPT !.ket = mode]
        [] IsCond(g) /\ mode = "possessive" ->
             [Bracket("BRA", 0, <<<<s>>>>) EXCEPT !.ket = mode, !.s = s.s]
        [] OTHER -> [s EXCEPT !.ket = mode]

\* A quantified bracket: copies for the minimum, then a loop in the last copy
\* or nested optional copies.  What no possessive opcode covers is wrapped in
\* ONCE.
RepeatBracket(g, q, empty) ==
  LET assertion == g.op \in Assertions
      max  == IF assertion /\ q.max = Unlimited THEN q.min + 1 ELSE q.max
      mode == IF q.mode = "lazy" THEN "lazy" ELSE "greedy"
      loop == Looping(g, q.mode, empty)
      code ==
        CASE max = 0 -> <<[g EXCEPT !.zero = "skip"]>>
          [] max = Unlimited /\ q.min = 0 -> <<[loop EXCEPT !.zero = q.mode]>>
          [] max = Unlimited -> Copies(q.min - 1, g) \o <<loop>>
          [] OTHER -> Copies(q.min, g) \o Nested(g, max - q.min, mode)
  IN  IF q = One THEN <<g>>
      ELSE IF q.mode = "possessive" /\ max # 0 /\ (max # Unlimited \/ q.min > 1)
      THEN Wrap("ONCE", code) ELSE code

\* A quantified recursion: copies for the minimum, and a bracket around one
\* more when there is an optional part.  The minimum is zero from there on,
\* which is what decides whether a possessive repeat is wrapped.
RepeatRecurse(y, q) ==
  LET bra == Bracket("BRA", 0, <<<<y>>>>)
  IN  CASE q = One -> <<y>>
        [] q.min = q.max /\ q.min > 0 ->
             IF q.mode = "possessive" THEN Wrap("ONCE", Copies(q.min, y))
             ELSE Copies(q.min, y)
        [] q.min = 0 \/ (q.min = 1 /\ q.max = Unlimited) ->
             RepeatBracket(bra, q, TRUE)
        [] q.max = Unlimited ->
             Copies(q.min, y) \o RepeatBracket(bra, [q EXCEPT !.min = 0], TRUE)
        [] OTHER ->
             LET rest == RepeatBracket(bra, Quant(0, q.max - q.min,
                           IF q.mode = "lazy" THEN "lazy" ELSE "greedy"), TRUE)
             IN  IF q.mode = "possessive" THEN Wrap("ONCE", Copies(q.min, y) \o rest)
                 ELSE Copies(q.min, y) \o rest

-----------------------------------------------------------------------------
(* The first and the required code unit of a branch while it is compiled:  *)
(* zfirst and zreq are the values that a zero repeat of the last item goes *)
(* back to, vary says whether something of varying length has gone by,     *)
(* empty that the branch may still match nothing, gsf that the last group  *)
(* set first.                                                              *)

NewBranch(vary) ==
  [code |-> <<>>, first |-> Unset, req |-> Unset, zfirst |-> Unset,
   zreq |-> Unset, vary |-> vary, empty |-> TRUE, gsf |-> FALSE]

SeeLiteral(b, t) ==
  IF b.first.f = "unset"
  THEN [b EXCEPT !.zfirst.f = "none", !.zreq = b.req,
                 !.first = CodeUnit(t.c, t.i, FALSE)]
  ELSE [b EXCEPT !.zfirst = b.first, !.zreq = b.req,
                 !.req = CodeUnit(t.c, t.i, b.vary)]
\* A class, a dot, or an escape such as \b that consumes nothing.
SeeOther(b, consumes) ==
  LET first == IF consumes THEN NoneIfUnset(b.first) ELSE b.first
  IN  [b EXCEPT !.first = first, !.zfirst = first, !.zreq = b.req]
\* A multiline circumflex or a back reference.
SeeBarrier(b) ==
  IF b.first.f = "unset"
  THEN [b EXCEPT !.first.f = "none", !.zfirst.f = "none"] ELSE b
SeeRecurse(b) ==
  [b EXCEPT !.first = NoneIfUnset(b.first), !.zfirst = NoneIfUnset(b.first),
            !.gsf = FALSE]
\* After a bracket: sub is what compile_regex returned for it.
SeeGroup(b, g, sub) ==
  LET onlyBranch == g.op = "COND" /\ Len(g.alts) = 1
      subfirst == IF onlyBranch THEN [sub.first EXCEPT !.f = "none"] ELSE sub.first
      subreq   == IF onlyBranch THEN [sub.req EXCEPT !.f = "none"] ELSE sub.req
      z == [b EXCEPT !.zreq = b.req, !.zfirst = b.first, !.gsf = FALSE,
                     !.vary = sub.vary]
      takes == b.first.f = "unset" /\ subfirst.f # "unset"
      last == IF ~takes /\ IsSet(subfirst) /\ ~IsSet(subreq)
              THEN [subfirst EXCEPT !.vary = @ \/ b.vary] ELSE subreq
      withReq(x) == IF IsSet(last) THEN [x EXCEPT !.req = last] ELSE x
  IN  CASE g.op = "ASSERT" ->
             IF IsSet(subreq) /\ IsSet(subfirst) THEN [z EXCEPT !.req = subreq] ELSE z
        [] g.op \in Assertions -> z
        [] takes /\ IsSet(subfirst) ->
             withReq([z EXCEPT !.first = subfirst, !.gsf = TRUE, !.zfirst.f = "none"])
        [] takes -> withReq([z EXCEPT !.first.f = "none", !.zfirst.f = "none"])
        [] OTHER -> withReq(z)

\* Mutant: what a repeat from zero may leave out is still required.
AfterRepeatKeeps(b, t, isGroup) ==
  [b EXCEPT !.first = IF t.q.min = 0 THEN b.zfirst ELSE @,
            !.vary = @ \/ t.q.min # t.q.max]

\* What a quantifier does to them.
AfterRepeat(b, t, isGroup) ==
  LET q == t.q
      back == IF q.min = 0 THEN [b EXCEPT !.first = b.zfirst, !.req = b.zreq] ELSE b
      req == CASE t.k = "char" /\ q.min > 1 -> CodeUnit(t.c, t.i, b.vary)
               [] isGroup /\ q.min > 1 /\ b.gsf /\ ~IsSet(b.req) -> b.first
               [] OTHER -> back.req
  IN  [back EXCEPT !.req = req, !.vary = @ \/ q.min # q.max]

-----------------------------------------------------------------------------
(* The length of a lookbehind's branches, on the parsed pattern: <<min,    *)
(* max>>, or NotFixed when there is no limit to how far it goes back.      *)

NotFixed == <<>>
Least(S) == CHOOSE x \in S : \A y \in S : x <= y
Most(S) == CHOOSE x \in S : \A y \in S : x >= y

RECURSIVE GroupLength(_, _, _), BranchLength(_, _, _)
\* Of any branch.
Extremes(lengths) ==
  IF NotFixed \in lengths THEN NotFixed
  ELSE <<Least({l[1] : l \in lengths}), Most({l[2] : l \in lengths})>>
\* g is the program, [p, opts], open the groups being measured.
GroupLength(alts, g, open) ==
  Extremes({BranchLength(alts[i], g, open) : i \in DOMAIN alts})

\* A back reference or a call: the length of the group, unless this is inside
\* it, or the reference may be to an unset group and match nothing.
CallLength(t, g, open) ==
  IF \/ t.n = 0 \/ t.n \in open
     \/ t.k = "ref" /\ "MATCH_UNSET_BACKREF" \in g.opts
  THEN NotFixed
  ELSE GroupLength(Body(g.p, t.n), g, open \cup {t.n})
\* A character, or \R, which takes one or two of them.
SingleLength(t) == IF t.k = "anynl" THEN <<1, 2>> ELSE <<1, 1>>
ItemLength(t, g, open) ==
  CASE t.k \in Singles \cup {"anynl"} -> SingleLength(t)
    [] t.k \in {"ref", "recurse"} -> CallLength(t, g, open)
    [] t.k = "group" /\ OpOf[t.g] \notin Assertions ->
         GroupLength(t.alts, g, IF t.g = "capture" THEN open \cup {t.n} ELSE open)
    [] OTHER -> <<0, 0>>
\* What a quantifier makes of it.
RepeatedLength(item, q) ==
  IF item = NotFixed \/ q.max = Unlimited THEN NotFixed
  ELSE <<q.min * item[1], q.max * item[2]>>

\* With the rest of the branch; a lookahead adds nothing, whatever is in it.
PlusLength(t, item, rest) ==
  CASE rest = NotFixed -> NotFixed
    [] t.k = "group" /\ t.g \in {"ahead", "notahead"} -> rest
    [] item = NotFixed -> NotFixed
    [] OTHER -> <<rest[1] + item[1], rest[2] + item[2]>>

BranchLength(items, g, open) ==
  IF items = <<>> THEN <<0, 0>>
  ELSE PlusLength(items[1], RepeatedLength(ItemLength(items[1], g, open), items[1].q),
                  BranchLength(Tail(items), g, open))

\* set_lookbehind_lengths, and the REVERSE that compile_regex puts in front
\* of each branch: there is one minimum for the whole group, and none is
\* needed when every branch has a fixed length.
ReverseBy(lengths) ==
  LET min == Least({l[1] : l \in ToSet(lengths)})
      fixed == \A l \in ToSet(lengths) : l[1] = l[2]
  IN  [i \in DOMAIN lengths |->
         IF lengths[i][2] = 0 THEN <<>>
         ELSE <<[op |-> "REVERSE", lo |-> IF fixed THEN lengths[i][2] ELSE min,
                 hi |-> lengths[i][2]]>>]
Reverses(alts, g) == ReverseBy([i \in DOMAIN alts |-> BranchLength(alts[i], g, {})])
\* check_lookbehinds: every lookbehind has a limit.
RECURSIVE Bounded(_, _, _)
Bounded(alts, g, open) ==
  \A t \in UNION {ToSet(b) : b \in ToSet(alts)} : t.k = "group" =>
    /\ t.g \in {"behind", "notbehind"} => GroupLength(t.alts, g, open) # NotFixed
    /\ Bounded(t.alts, g, IF t.g = "capture" THEN open \cup {t.n} ELSE open)

-----------------------------------------------------------------------------
(* compile_branch and compile_regex.                                       *)

\* What the first and the required code units of the branches so far and of
\* the next branch come to.
MergeBranch(acc, b) ==
  LET same == SameFirst(acc.first, b.first)
      oldReq == IF ~same /\ IsSet(acc.first) /\ ~IsSet(acc.req)
                THEN acc.first ELSE acc.req
      first == IF same THEN acc.first ELSE [acc.first EXCEPT !.f = "none"]
      newReq == IF ~IsSet(first) /\ IsSet(b.first) /\ ~IsSet(b.req)
                THEN b.first ELSE b.req
  IN  [code |-> Append(acc.code, b.code), first |-> first,
       req |-> IF SameReq(oldReq, newReq)
               THEN [newReq EXCEPT !.vary = @ \/ oldReq.vary]
               ELSE [oldReq EXCEPT !.f = "none"],
       vary |-> b.vary, empty |-> acc.empty \/ b.empty]

WithBranch(acc, b) ==
  IF acc.code = <<>>
  THEN [code |-> <<b.code>>, first |-> b.first, req |-> b.req, vary |-> b.vary, empty |-> b.empty]
  ELSE MergeBranch(acc, b)

RECURSIVE CompileBranch(_, _, _), CompileAlts(_, _, _)
\* The alternatives acc has not yet: its code is <<>> before the first of them.
CompileAlts(alts, acc, g) ==
  IF alts = <<>> THEN acc
  ELSE CompileAlts(Tail(alts),
                   WithBranch(acc, CompileBranch(alts[1], NewBranch(acc.vary), g)), g)
CompileRegex(alts, vary, g) == CompileAlts(alts, [code |-> <<>>, vary |-> vary], g)

\* The handlers of compile_branch.  Each gives the branch as the item leaves
\* it, whether the item must match a character, and its code with the repeat.
Compiled(b, consumes, items) == [b |-> b, consumes |-> consumes, items |-> items]
CompileLiteral(t, b) == Compiled(SeeLiteral(b, t), TRUE, RepeatChar(SingleItem(t), t.q))
CompileDot(t, b) == Compiled(SeeOther(b, TRUE), TRUE, RepeatChar(SingleItem(t), t.q))
CompileClass(t, b) ==
  Compiled(SeeOther(b, TRUE), TRUE,
           IF t.k = "not" THEN RepeatChar(SingleItem(t), t.q)
           ELSE RepeatInPlace(SingleItem(t), t.q))
CompileBackref(t, b) == Compiled(SeeBarrier(b), FALSE, RepeatInPlace(RefItem(t), t.q))
CompileRecurse(t, b) ==
  Compiled(SeeRecurse(b), FALSE, RepeatRecurse([op |-> "RECURSE", n |-> t.n], t.q))
\* \d, \R, \p{Lu} ..., and those that consume nothing: \A, \b, \G ...
CompileEscape(t, b) ==
  IF t.k \in {"type", "prop", "anynl"}
  THEN Compiled(SeeOther(b, TRUE), TRUE, RepeatChar(EscapeItem(t), t.q))
  ELSE Compiled(SeeOther(b, FALSE), FALSE, <<[op |-> OpOf[t.k]]>>)
CompileLine(t, b) ==
  Compiled(IF t.k = "circm" THEN SeeBarrier(b) ELSE b, FALSE, <<[op |-> OpOf[t.k]]>>)
\* (?!) is FAIL.
NeverMatches(t) == t.g = "notahead" /\ t.alts = <<<<>>>> /\ t.q = One
\* After compile_regex has returned for the group's branches.
CompiledGroup(t, b, sub, bra) ==
  Compiled(SeeGroup(b, bra, sub),
           /\ ~sub.empty /\ bra.op \notin Assertions
           /\ bra.op = "COND" => Len(t.alts) = 2,
           IF NeverMatches(t) THEN <<[op |-> "FAIL"]>> ELSE RepeatBracket(bra, t.q, sub.empty))
\* compile_regex puts a REVERSE in front of the branches of a lookbehind.
WithReverses(t, sub, g) ==
  IF t.g \in {"behind", "notbehind"}
  THEN LET reverse == Reverses(t.alts, g) IN [i \in DOMAIN t.alts |-> reverse[i] \o sub.code[i]]
  ELSE sub.code
GroupOf(t, b, sub, g) ==
  CompiledGroup(t, b, sub, Bracket(OpOf[t.g], t.n, WithReverses(t, sub, g)))
CompileGroup(t, b, g) == GroupOf(t, b, CompileRegex(t.alts, b.vary, g), g)

CompileItem(t, b, g) ==
  CASE t.k = "char" -> CompileLiteral(t, b)
    [] t.k \in {"any", "allany"} -> CompileDot(t, b)
    [] t.k \in {"not", "class"} -> CompileClass(t, b)
    [] t.k = "ref" -> CompileBackref(t, b)
    [] t.k = "recurse" -> CompileRecurse(t, b)
    [] t.k = "group" -> CompileGroup(t, b, g)
    [] t.k \in {"circ", "circm", "doll", "dollm"} -> CompileLine(t, b)
    [] OTHER -> CompileEscape(t, b)

\* The branch after an item and its quantifier.
AfterItem(t, one) ==
  [AfterRepeat(one.b, t, t.k = "group")
     EXCEPT !.code = @ \o one.items, !.empty = @ /\ ~(one.consumes /\ t.q.min > 0)]
CompileBranch(items, b, g) ==
  IF items = <<>> THEN b
  ELSE LET t == ClassAsChar(items[1])
       IN  CompileBranch(Tail(items), AfterItem(t, CompileItem(t, b, g)), g)
=============================================================================
