---------------------------- MODULE EcmaLookbehind ----------------------------
(***************************************************************************)
(* ECMAScript lookbehind in package regexp2: Compile replaces each         *)
(* lookbehind by a callout, and the callout matches the reversed body on   *)
(* the reversed subject and writes the captures back.  An expression is    *)
(* its syntax tree: a sequence of branches, each a sequence of atoms with   *)
(* a quantifier <<min, max>>.  Offsets count characters: the reversal of    *)
(* valid UTF-8 keeps their widths, so byte offsets mirror alike.  Parsing,  *)
(* the limit of 255 lookbehinds, and errors of callouts are left out.  The  *)
(* recursive operators follow the recursion of the code, and of a matcher.  *)
(***************************************************************************)
EXTENDS Integers, Sequences, FiniteSets, SequencesExt

CONSTANTS Expressions,  \* in them no reference to a group outside its
                        \* lookbehind is quantified if the group can be empty
          Subjects,     \* sequences of characters
          Groups        \* the numbers of the capture groups

VARIABLES
    expr, subject,
    pc,
    main,   \* re.re: the expression with callouts
    plans,  \* re.lookbehinds
    start,  \* where the last search started
    match   \* what it returned

vars == <<expr, subject, pc, main, plans, start, match>>

\* What the scanning functions recognise; a quantifier stays with its atom.
Once == <<1, 1>>
Char(c) == [k |-> "char", c |-> c, q |-> Once]
AnyChar == [k |-> "any", q |-> Once]
Ref(n) == [k |-> "ref", n |-> n, q |-> Once]
Capture(n, body) == [k |-> "capture", n |-> n, body |-> body, q |-> Once]
Look(k, negative, body) == [k |-> k, negative |-> negative, body |-> body, q |-> Once]
Anchor(k) == [k |-> k, q |-> Once]
External(n) == [k |-> "external", n |-> n, q |-> Once]
Callout(n) == [k |-> "callout", n |-> n, q |-> Once]
HasBody(a) == a.k \in {"capture", "ahead", "behind"}

Unset == <<-1, -1>>
AllUnset == [n \in Groups |-> Unset]
NoMatch == [at |-> Unset, caps |-> AllUnset]
Text(s, span) == SubSeq(s, span[1] + 1, span[2])

\* The numbers of the groups in a body, in the order of their parentheses.
RECURSIVE Opened(_)
Opened(body) ==
    LET opens(a) == (IF a.k = "capture" THEN <<a.n>> ELSE <<>>)
                    \o (IF HasBody(a) THEN Opened(a.body) ELSE <<>>)
    IN  FlattenSeq([i \in DOMAIN body |->
            FlattenSeq([j \in DOMAIN body[i] |-> opens(body[i][j])])])

------------------------------------------------------------------------------
(* compileECMAScriptLookbehinds                                            *)

\* Mutant: ^ and $ are left alone.
SwapKeepsAnchors(k) ==
    IF k = "ahead" THEN "behind" ELSE IF k = "behind" THEN "ahead" ELSE k

\* What looks ahead in the subject looks behind in its reversal.
Swap(k) ==
    CASE k = "ahead"  -> "behind"  [] k = "behind" -> "ahead"
      [] k = "start"  -> "end"     [] k = "end"    -> "start"
      [] OTHER -> k

\* reverseECMAScriptExpression: branches keep their order, atoms turn theirs
\* round with their quantifiers; references out of the lookbehind are marked.
RECURSIVE ReverseBody(_, _)
ReverseAtom(a, internal) ==
    IF a.k = "ref" /\ a.n \notin internal THEN [External(a.n) EXCEPT !.q = a.q]
    ELSE IF HasBody(a)
    THEN [a EXCEPT !.k = Swap(a.k), !.body = ReverseBody(a.body, internal)]
    ELSE [a EXCEPT !.k = Swap(a.k)]

ReverseBody(body, internal) ==
    [i \in DOMAIN body |->
        Reverse([j \in DOMAIN body[i] |-> ReverseAtom(body[i][j], internal)])]

\* Mutant: the captures, from a map, are not sorted.
CapturesInRangeUnsorted(a) == Reverse(Opened(a.body))

\* capturesInRange: sorted by number.
CapturesInRange(a) == SetToSortSeq(ToSet(Opened(a.body)), <)

PlanOf(a) ==
    LET internal == ToSet(Opened(a.body))
    IN  [negative |-> a.negative, internal |-> internal,
         reverse |-> ReverseBody(a.body, internal)]

\* A lookbehind leaves its groups, empty, and a callout.
RECURSIVE RewriteBody(_, _)
RewriteAtom(acc, a) ==
    IF a.k = "behind"
    THEN LET numbers == CapturesInRange(a)
         IN  [atoms |-> acc.atoms \o [i \in DOMAIN numbers |-> Capture(numbers[i], <<<<>>>>)]
                        \o <<Callout(Len(acc.plans) + 1)>>,
              plans |-> Append(acc.plans, PlanOf(a))]
    ELSE IF HasBody(a)
    THEN LET inner == RewriteBody(a.body, acc.plans)
         IN  [atoms |-> Append(acc.atoms, [a EXCEPT !.body = inner.body]),
              plans |-> inner.plans]
    ELSE [acc EXCEPT !.atoms = Append(@, a)]

RewriteBody(body, before) ==
    LET branch(acc, atoms) ==
            LET r == FoldLeft(RewriteAtom, [atoms |-> <<>>, plans |-> acc.plans], atoms)
            IN  [body |-> Append(acc.body, r.atoms), plans |-> r.plans]
    IN  FoldLeft(branch, [body |-> <<>>, plans |-> before], body)

------------------------------------------------------------------------------
(* ecmaLookbehindPlan.evaluate                                             *)

\* The marks of a reversed body give way to what their groups have captured,
\* reversed, as text: a quantifier behind a mark falls on its last character.
RECURSIVE Spliced(_, _, _)
SpliceAtom(a, s, caps) ==
    IF a.k = "external"
    THEN LET literal == Reverse(Text(s, caps[a.n]))
         IN  [i \in DOMAIN literal |->
                 [Char(literal[i]) EXCEPT !.q = IF i = Len(literal) THEN a.q ELSE @]]
    ELSE IF HasBody(a) THEN <<[a EXCEPT !.body = Spliced(a.body, s, caps)]>>
    ELSE <<a>>

Spliced(body, s, caps) ==
    [i \in DOMAIN body |->
        FlattenSeq([j \in DOMAIN body[i] |-> SpliceAtom(body[i][j], s, caps)])]

\* The groups of the lookbehind get their mirrored spans, or none.
WriteBack(plan, length, caps, found) ==
    [n \in Groups |->
        IF n \notin plan.internal THEN caps[n]
        ELSE IF found[n] = Unset THEN Unset
        ELSE <<length - found[n][2], length - found[n][1]>>]

------------------------------------------------------------------------------
(***************************************************************************)
(* A backtracking matcher: all ways to match, the preferred one first.      *)
(* PCRE2 runs forward, matches a lookbehind forward from its width before   *)
(* the position, and calls out.  An ECMAScript engine (ecma) runs a         *)
(* lookbehind from right to left (dir = -1).                                *)
(***************************************************************************)
RECURSIVE MatchBody(_, _, _), MatchBranch(_, _, _), Repeat(_, _, _, _), MatchAtom(_, _, _)

Pcre2(s, lookbehinds) == [dir |-> 1, ecma |-> FALSE, s |-> s, plans |-> lookbehinds]
Ecma(s) == [dir |-> 1, ecma |-> TRUE, s |-> s, plans |-> <<>>]
At(p, caps) == [p |-> p, caps |-> caps]

MatchBody(m, body, st) ==
    FlattenSeq([i \in DOMAIN body |-> MatchBranch(m, body[i], st)])

MatchBranch(m, atoms, st) ==
    IF atoms = <<>> THEN <<st>>
    ELSE LET a == IF m.dir = 1 THEN Head(atoms) ELSE Last(atoms)
             rest == IF m.dir = 1 THEN Tail(atoms) ELSE Front(atoms)
             ways == Repeat(m, a, a.q, st)
         IN  FlattenSeq([i \in DOMAIN ways |-> MatchBranch(m, rest, ways[i])])

\* Greedy, and no empty iteration once the minimum is reached.
Repeat(m, a, q, st) ==
    LET once == IF q[2] = 0 THEN <<>> ELSE MatchAtom(m, a, st)
        useful == SelectSeq(once, LAMBDA w : q[1] > 0 \/ w.p # st.p)
        fewer == <<IF q[1] = 0 THEN 0 ELSE q[1] - 1, q[2] - 1>>
    IN  FlattenSeq([i \in DOMAIN useful |-> Repeat(m, a, fewer, useful[i])])
        \o (IF q[1] = 0 THEN <<st>> ELSE <<>>)

\* n characters, in the direction of m, that are one of the texts.
Consume(m, n, st, texts) ==
    LET to == st.p + m.dir * n
        span == IF m.dir = 1 THEN <<st.p, to>> ELSE <<to, st.p>>
    IN  IF to \in 0..Len(m.s) /\ Text(m.s, span) \in texts THEN <<[st EXCEPT !.p = to]>> ELSE <<>>

RECURSIVE Width(_)
Width(atoms) ==
    LET width(a) == a.q[1] * (IF a.k = "capture" THEN Width(a.body[1])
                              ELSE IF a.k \in {"char", "any"} THEN 1 ELSE 0)
    IN  FoldLeft(LAMBDA sum, a : sum + width(a), 0, atoms)

NativeBehind(m, body, st) ==
    FlattenSeq([i \in DOMAIN body |->
        IF Width(body[i]) > st.p THEN <<>>
        ELSE MatchBranch(m, body[i], [st EXCEPT !.p = @ - Width(body[i])])])

LookAround(m, a, st) ==
    LET ways == IF a.k = "ahead" THEN MatchBody([m EXCEPT !.dir = 1], a.body, st)
                ELSE IF m.ecma THEN MatchBody([m EXCEPT !.dir = -1], a.body, st)
                ELSE NativeBehind(m, a.body, st)
    IN  IF a.negative THEN IF ways = <<>> THEN <<st>> ELSE <<>>
        ELSE IF ways = <<>> THEN <<>> ELSE <<[ways[1] EXCEPT !.p = st.p]>>

\* The callback: the reversed body, anchored at the mirrored position.
Evaluate(m, plan, st) ==
    LET length == Len(m.s)
        ways == MatchBody(Pcre2(Reverse(m.s), <<>>), Spliced(plan.reverse, m.s, st.caps),
                          At(length - st.p, AllUnset))
        accept(found) == <<[st EXCEPT !.caps = WriteBack(plan, length, @, found)]>>
    IN  IF plan.negative THEN IF ways = <<>> THEN accept(AllUnset) ELSE <<>>
        ELSE IF ways = <<>> THEN <<>> ELSE accept(ways[1].caps)

MatchAtom(m, a, st) ==
    CASE a.k = "char" -> Consume(m, 1, st, {<<a.c>>})
      [] a.k = "any" -> Consume(m, 1, st, {<<c>> : c \in ToSet(m.s)})
      [] a.k = "ref" -> Consume(m, Len(Text(m.s, st.caps[a.n])), st, {Text(m.s, st.caps[a.n])})
      [] a.k = "start" -> IF st.p = 0 THEN <<st>> ELSE <<>>
      [] a.k = "end" -> IF st.p = Len(m.s) THEN <<st>> ELSE <<>>
      [] a.k = "capture" ->
            LET ways == MatchBody(m, a.body, st)
                span(p) == IF m.dir = 1 THEN <<st.p, p>> ELSE <<p, st.p>>
            IN  [i \in DOMAIN ways |-> [ways[i] EXCEPT !.caps[a.n] = span(ways[i].p)]]
      [] a.k \in {"ahead", "behind"} -> LookAround(m, a, st)
      [] a.k = "callout" -> Evaluate(m, m.plans[a.n], st)

\* pcre2_match and RegExp.prototype.exec: the first offset that matches.
Search(m, body, from) ==
    LET ways == [p \in from..Len(m.s) |-> MatchBody(m, body, At(p, AllUnset))]
        hits == {p \in DOMAIN ways : ways[p] # <<>>}
        first == CHOOSE p \in hits : \A o \in hits : p <= o
    IN  IF hits = {} THEN NoMatch
        ELSE [at |-> <<first, ways[first][1].p>>, caps |-> ways[first][1].caps]

------------------------------------------------------------------------------
Init ==
    /\ expr \in Expressions /\ subject \in Subjects
    /\ pc = "source"
    /\ main = <<>> /\ plans = <<>>
    /\ start = 0 /\ match = NoMatch

Compile ==
    /\ pc = "source"
    /\ \E r \in {RewriteBody(expr, <<>>)} : main' = r.body /\ plans' = r.plans
    /\ pc' = "compiled"
    /\ UNCHANGED <<expr, subject, start, match>>

\* findCore from any offset, by findWithECMAScriptLookbehinds; nothing of a
\* search stays for the next one.
Find ==
    /\ pc = "compiled"
    /\ \E from \in 0..Len(subject) :
          /\ start' = from
          /\ match' = Search(Pcre2(subject, plans), main, from)
    /\ pc' = "searched"
    /\ UNCHANGED <<expr, subject, main, plans>>

Next == Compile \/ Find

Spec == Init /\ [][Next]_vars

------------------------------------------------------------------------------
(* Properties                                                              *)

\* "The callback writes the reverse match's capture spans into PCRE2's live
\* frame, so later native backreferences and the final result see the
\* JavaScript-compatible values": the match and all its groups are those of
\* an engine that runs lookbehinds from right to left.
LikeECMAScript ==
    pc = "searched" => match = Search(Ecma(subject), expr, start)

\* "Empty captures before the callout reserve the original group numbers":
\* PCRE2, which numbers parentheses as it meets them, gives every group the
\* number it had.
GroupNumbersKept ==
    pc # "source" => Opened(main) = [i \in 1..Len(Opened(expr)) |-> i]
===============================================================================
