------------------------------ MODULE Pcre2Search ----------------------------
(***************************************************************************)
(* A pattern compiled by pcre2_compile and searched for by pcre2_match, as *)
(* often as the caller likes: the stages of the compilation, and then the  *)
(* bumpalong loop of Pcre2Bumpalong, with the code that the stages made.   *)
(***************************************************************************)
EXTENDS Pcre2Study, Pcre2AutoPossess, Pcre2Interpret, Pcre2Bumpalong

\* Lookbehinds have a length.
ASSUME LookbehindAssumption == \A g \in Programs : Bounded(g.p.alts, g, {})

Init ==
  /\ program \in Programs
  /\ re = [code |-> <<>>]
  /\ pc = "parsed"
  /\ NotSearching

-----------------------------------------------------------------------------
(* pcre2_compile.                                                          *)

Stage(from, to, new) ==
  /\ pc = from /\ pc' = to
  /\ re' = new
  /\ UNCHANGED <<program, searching>>
Compile == Stage("parsed", "compiled", CompileRegex(program.p.alts, FALSE, program))
Possess ==
  Stage("compiled", "possessified", [re EXCEPT !.code = AutoPossessify(@)])
Scanned ==
  Stage("possessified", "scanned", Finish(re, re.code, "ANCHORED" \in options))
Studied == Stage("scanned", "ready", Study(re, options))

Next == Compile \/ Possess \/ Scanned \/ Studied \/ NextSearch
Spec == Init /\ [][Next]_vars

-----------------------------------------------------------------------------
(* What the stages of the compilation keep.                                *)

Subjects == {c.s : c \in Calls(program)}
\* The ways in which the pattern matches at a start, in order; the same of the
\* code.
TreeWays(s, at) == MatchWays(program.p, s, 0, options, at)
CodeWays(s, at) == MatchWaysOf(re.code, s, 0, options, at)
\* Without the ways that were tried before.
Fresh(ways) ==
  FoldLeft(LAMBDA acc, w : IF Contains(acc, w) THEN acc ELSE Append(acc, w), <<>>, ways)

\* compile_branch and compile_regex: the code with its copies of brackets,
\* its loops and its wrappers backtracks through the ways of the pattern, all
\* of them, in the order and with the captures of the documentation.
CompiledLikePattern ==
  pc = "compiled" =>
    \A s \in Subjects : \A at \in 0..Len(s) : Fresh(CodeWays(s, at)) = Fresh(TreeWays(s, at))

\* auto_possessify: the backtracking it takes away never found the match, nor
\* what a call accepts that does not accept the first way.
PossessifiedAlike ==
  /\ pc = "possessified" =>
       \A s \in Subjects : \A at \in 0..Len(s) :
         FirstOnly(CodeWays(s, at)) = FirstOnly(TreeWays(s, at))
  /\ MatchFindsFirst
=============================================================================
