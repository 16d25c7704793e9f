------------------------------ MODULE Pcre2Study ----------------------------
(***************************************************************************)
(* pcre2_study.c: the shortest subject that can match (find_minlength),    *)
(* the characters a match can start with (set_start_bits), and what study  *)
(* makes of them.                                                          *)
(***************************************************************************)
EXTENDS Pcre2Scan

-----------------------------------------------------------------------------
(* find_minlength.  In a branch the length so far, whether a recursion was *)
(* met (the branch is then ignored), the minima of back references already *)
(* found, and the last group and the last call with their minima; the last *)
(* three go on from branch to branch, and the cache from group to group.   *)

Scan(cache) == [len |-> 0, rec |-> FALSE, cache |-> cache,
                cap |-> <<-1, 0>>, call |-> <<-1, 0>>]
\* The shape that a repeated recursion is wrapped in.
WrappedCall(y) ==
  /\ y.op = "BRA" /\ ~y.s /\ y.ket # "possessive"
  /\ Len(y.alts) = 1 /\ Len(y.alts[1]) = 1 /\ y.alts[1][1].op = "RECURSE"

RECURSIVE MinGroup(_, _, _, _, _), MinAlts(_, _, _, _, _, _, _),
          MinItems(_, _, _, _, _, _), MinItem(_, _, _, _, _)
\* x is [code, opts], path where g is, chain the groups that references and
\* calls have led into.
MinGroup(g, path, chain, cache, x) ==
  IF g.s THEN [d |-> 0, cache |-> cache]
  ELSE MinAlts(g.alts, 1, path, chain, Scan(cache), -1, x)

\* length is -1 before the first branch.
MinAlts(alts, i, path, chain, st, length, x) ==
  LET b == MinItems(alts[i], 1, path \o <<i>>, chain,
                    [st EXCEPT !.len = 0, !.rec = FALSE], x)
      new == IF length < 0 \/ (~b.rec /\ b.len < length) THEN b.len ELSE length
  IN  IF i = Len(alts) \/ new = 0 THEN [d |-> new, cache |-> b.cache]
      ELSE MinAlts(alts, i + 1, path, chain, b, new, x)

MinItems(items, j, path, chain, st, x) ==
  IF j > Len(items) THEN st
  ELSE MinItems(items, j + 1, path, chain,
                MinItem(items[j], path \o <<j>>, chain, st, x), x)

Add(st, d) == [st EXCEPT !.len = @ + d]
\* The minimum of group n, referred to from path.
Target(n, path, chain, st, x) ==
  LET to == FindBracket(n, x.code)
  IN  IF IsPrefix(to, path) \/ n \in chain THEN [rec |-> TRUE]
      ELSE [rec |-> FALSE] @@ MinGroup(At(x.code, to), to, chain \cup {n}, st.cache, x)
MinCall(n, path, chain, st, x) ==
  LET t == Target(n, path, chain, st, x)
  IN  CASE n = st.call[1] -> Add(st, st.call[2])
        [] t.rec -> [st EXCEPT !.rec = TRUE]
        [] OTHER -> [st EXCEPT !.len = @ + t.d, !.cache = t.cache, !.call = <<n, t.d>>]
\* A group that may be referred to while it is unset counts for nothing.
MinRef(y, path, chain, st, x) ==
  LET n == y.n
      t == Target(n, path, chain, st, x)
  IN  CASE n \in DOMAIN st.cache -> Add(st, y.lo * st.cache[n])
        [] "MATCH_UNSET_BACKREF" \in x.opts -> [st EXCEPT !.cache = (n :> 0) @@ @]
        [] t.rec -> [st EXCEPT !.rec = TRUE, !.cache = (n :> 0) @@ @]
        [] OTHER -> [st EXCEPT !.len = @ + y.lo * t.d, !.cache = (n :> t.d) @@ t.cache]
MinBracket(y, path, chain, st, x) ==
  LET group == MinGroup(y, path, chain, st.cache, x)
  IN  [st EXCEPT !.len = @ + group.d, !.cache = group.cache]
\* The same group again is not measured again.
MinCapture(y, path, chain, st, x) ==
  LET b == MinBracket(y, path, chain, st, x)
  IN  IF y.n = st.cap[1] THEN Add(st, st.cap[2])
      ELSE [b EXCEPT !.cap = <<y.n, b.len - st.len>>]

MinItem(y, path, chain, st, x) ==
  LET op == OpAt(y)
  IN  CASE op \in SingleOps -> Add(st, y.lo)
        [] op \in {"REF", "REFI"} -> MinRef(y, path, chain, st, x)
        [] op = "RECURSE" -> MinCall(y.n, path, chain, st, x)
        [] op = "CBRA" -> MinCapture(y, path, chain, st, x)
        [] op = "BRA" /\ WrappedCall(y) -> MinCall(y.alts[1][1].n, path, chain, st, x)
        [] op \in {"BRA", "ONCE"} \/ (op = "COND" /\ Len(y.alts) = 2) ->
             MinBracket(y, path, chain, st, x)
        [] OTHER -> st
MinLength(code, opts) ==
  MinGroup(Bracket("BRA", 0, code), <<>>, {}, <<>>, [code |-> code, opts |-> opts]).d

-----------------------------------------------------------------------------
(* set_start_bits.                                                         *)

\* The next significant item after a lookahead.
RECURSIVE AfterAssertions(_)
AfterAssertions(items) ==
  IF items # <<>> /\ OpAt(items[1]) \in
       Assertions \cup {"WORD_BOUNDARY", "NOT_WORD_BOUNDARY"}
  THEN AfterAssertions(Tail(items)) ELSE items
\* Mutant: the other case is not set.
BitsOfOneCase(y) == IF y.op = "CLASS" THEN y.s ELSE {y.c}

BitsOf(y) == CASE y.op = "CHAR" -> {y.c}
               [] y.op = "CHARI" -> {y.c, OtherCase(y.c)}
               [] y.op = "CLASS" -> y.s
\* The types that set bits.
BitTypes == DOMAIN TypeChars \ {"NOT_HSPACE", "NOT_VSPACE"}

RECURSIVE SetStartBits(_, _), StartBitsOf(_, _)
\* [rc, bits]: rc is "fail" when there is no telling, "done" when something
\* mandatory was found, "continue" when the scan must go on after this.
SetStartBits(alts, bits) ==
  LET join(acc, items) ==
        LET b == StartBitsOf(items, acc.bits)
        IN  [b EXCEPT !.rc = CASE "fail" \in {acc.rc, b.rc} -> "fail"
                               [] "continue" \in {acc.rc, b.rc} -> "continue"
                               [] OTHER -> "done"]
  IN  FoldLeft(join, [rc |-> "done", bits |-> bits], alts)

\* Something of at least lo characters that sets bits.
SetBits(lo, bits, items) ==
  IF lo = 0 THEN StartBitsOf(Tail(items), bits) ELSE [rc |-> "done", bits |-> bits]
\* A bracket that may be left out.
OptionalBits(y, items, bits) ==
  LET inside == SetStartBits(y.alts, bits)
  IN  CASE y.zero = "skip" -> StartBitsOf(Tail(items), bits)
        [] IsCond(y) \/ inside.rc = "fail" -> [rc |-> "fail", bits |-> bits]
        [] OTHER -> StartBitsOf(Tail(items), inside.bits)
\* A lookahead in front of a character, or of a type that is not repeated, is
\* left aside for it.
SkipsLookahead(items) ==
  LET next == AfterAssertions(Tail(items))
  IN  /\ next # <<>>
      /\ \/ next[1].op \in {"CHAR", "CHARI"} /\ next[1].lo > 0
         \/ next[1].op \in BitTypes /\ IsOne(next[1])
InsideBits(y, items, bits) ==
  LET inside == SetStartBits(y.alts, bits)
  IN  IF inside.rc = "continue" THEN StartBitsOf(Tail(items), inside.bits) ELSE inside

StartBitsOf(items, bits) ==
  IF items = <<>> THEN [rc |-> "continue", bits |-> bits] ELSE
  LET y == items[1]
      op == OpAt(y)
  IN  CASE op \in {"CIRC", "WORD_BOUNDARY", "NOT_WORD_BOUNDARY", "ASSERT_NOT",
                   "ASSERTBACK", "ASSERTBACK_NOT"} -> StartBitsOf(Tail(items), bits)
        [] op = "ASSERT" /\ SkipsLookahead(items) ->
             StartBitsOf(AfterAssertions(Tail(items)), bits)
        [] op \in {"BRA", "CBRA", "ONCE", "ASSERT"} -> InsideBits(y, items, bits)
        [] op = "BRAZERO" -> OptionalBits(y, items, bits)
        [] op \in {"CHAR", "CHARI", "CLASS"} -> SetBits(y.lo, bits \cup BitsOf(y), items)
        [] op \in BitTypes -> SetBits(y.lo, bits \cup TypeChars[op], items)
        [] OTHER -> [rc |-> "fail", bits |-> bits]

-----------------------------------------------------------------------------
(* study: one start character, or the two cases of one, become the first   *)
(* code unit; a required code unit equal to it is then forgotten.          *)

\* The start characters stand in for a first code unit when they are one
\* character or the two cases of one, and the last code unit is then dropped
\* when it is one of them.
UseStartBits(re, bits) ==
  LET a == CHOOSE c \in bits : \A d \in bits : CodePoint(c) <= CodePoint(d)
  IN  IF bits \in {{a}, {a, OtherCase(a)}}
      THEN [re EXCEPT !.first = [c |-> a, i |-> bits # {a}],
                      !.last = IF @.c \in bits THEN NoUnit ELSE @]
      ELSE [re EXCEPT !.startbits = bits, !.minlength = IF @ = 0 THEN 1 ELSE @]
Study(re, opts) ==
  LET found == SetStartBits(re.code, {})
      seek == re.first = NoUnit /\ ~re.startline /\ found.rc = "done"
      searched == IF seek THEN UseStartBits(re, found.bits) ELSE re
      min == IF re.empty THEN 0 ELSE MinLength(re.code, opts)
  IN  [searched EXCEPT !.minlength = IF min > @ THEN min ELSE @]
=============================================================================
