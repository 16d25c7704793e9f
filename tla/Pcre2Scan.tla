------------------------------ MODULE Pcre2Scan -----------------------------
(***************************************************************************)
(* The scans that pcre2_compile makes of the finished code to find where a *)
(* match can start: is the pattern anchored, does every match start at the *)
(* start of a line, is there an asserted first code unit.                  *)
(***************************************************************************)
EXTENDS Pcre2Compile

\* The opcode a scan meets: BRAZERO and its like stand before the bracket,
\* KET after the last item of a branch.
Ket == [op |-> "KET"]
OpAt(y) == IF IsBracket(y) THEN IF y.zero = "no" THEN y.op ELSE "BRAZERO"
           ELSE y.op
RECURSIVE FirstSignificant(_, _)
\* After SKIPZERO the code jumps by the length of the bracket's first branch,
\* which for a bracket of several branches ends in its second branch.
FirstSignificant(items, skipassert) ==
  IF items = <<>> THEN Ket ELSE
  LET y == items[1] IN
  CASE IsBracket(y) /\ y.zero = "skip" ->
         FirstSignificant(IF Len(y.alts) = 1 THEN Tail(items) ELSE y.alts[2],
                          skipassert)
    [] skipassert /\ OpAt(y) \in {"ASSERT_NOT", "ASSERTBACK", "ASSERTBACK_NOT",
                                  "WORD_BOUNDARY", "NOT_WORD_BOUNDARY"} ->
         FirstSignificant(Tail(items), skipassert)
    [] OTHER -> y

\* Every item of the code, at any depth.
RECURSIVE ItemsIn(_)
ItemsIn(alts) ==
  LET items == UNION {ToSet(b) : b \in ToSet(alts)}
  IN  items \cup UNION {ItemsIn(y.alts) : y \in {z \in items : IsBracket(z)}}
Referenced(code) == {y.n : y \in {z \in ItemsIn(code) : z.op \in {"REF", "REFI"}}}

\* Where an item is in the code: branch and position, from the outside in.
\* find_bracket finds the first group with a number; the whole pattern is at
\* the empty path.
RECURSIVE PathsTo(_, _, _)
PathsTo(n, alts, path) ==
  UNION {UNION {LET y == alts[i][j]
                    here == path \o <<i, j>>
                IN  IF ~IsBracket(y) THEN {}
                    ELSE IF y.op = "CBRA" /\ y.n = n THEN {here}
                    ELSE PathsTo(n, y.alts, here) :
                j \in DOMAIN alts[i]} : i \in DOMAIN alts}
\* Paths are compared at the first place where they differ.
Before(p, q) ==
  LET differ == {k \in DOMAIN p \cap DOMAIN q : p[k] # q[k]}
      first == CHOOSE k \in differ : \A d \in differ : k <= d
  IN  p[first] < q[first]
FindBracket(n, code) ==
  IF n = 0 THEN <<>>
  ELSE LET paths == PathsTo(n, code, <<>>)
       IN  CHOOSE p \in paths : \A q \in paths \ {p} : Before(p, q)
RECURSIVE At(_, _)
At(alts, path) ==
  LET y == alts[path[1]][path[2]]
  IN  IF Len(path) = 2 THEN y ELSE At(y.alts, SubSeq(path, 3, Len(path)))

\* within: the groups around this point, atomic and inassert whether it is in
\* an atomic group or an assertion.  A possessive bracket counts as a plain
\* one.
RECURSIVE IsAnchored(_, _, _, _)
IsAnchored(alts, refs, within, held) ==
  \A i \in DOMAIN alts :
    LET y == FirstSignificant(alts[i], FALSE)
        op == OpAt(y)
    IN  CASE op = "BRA"    -> IsAnchored(y.alts, refs, within, held)
          [] op = "CBRA"   -> IsAnchored(y.alts, refs, within \cup {y.n}, held)
          [] op \in {"ASSERT", "ONCE"} -> IsAnchored(y.alts, refs, within, TRUE)
          [] op = "COND"   -> /\ Len(y.alts) > 1
                              /\ IsAnchored(y.alts, refs, within, held)
          [] op = "ALLANY" -> IsStar(y) /\ within \cap refs = {} /\ ~held
          [] OTHER -> op \in {"SOD", "SOM", "CIRC"}

RECURSIVE IsStartline(_, _, _, _)
IsStartline(alts, refs, within, held) ==
  \A i \in DOMAIN alts :
    LET y == FirstSignificant(alts[i], FALSE)
        op == OpAt(y)
    IN  CASE op = "BRA"  -> IsStartline(y.alts, refs, within, held)
          [] op = "CBRA" -> IsStartline(y.alts, refs, within \cup {y.n}, held)
          [] op \in {"ASSERT", "ONCE"} -> IsStartline(y.alts, refs, within, TRUE)
          [] op = "ANY"  -> IsStar(y) /\ within \cap refs = {} /\ ~held
          [] OTHER -> op \in {"CIRC", "CIRCM"}

\* find_firstassertedcu: Unset before the first branch, f = "none" when the
\* branches do not agree.
Disagree == [Unset EXCEPT !.f = "none"]
RECURSIVE FirstAsserted(_, _)
FirstAsserted(alts, inassert) ==
  LET asserted(items) ==
        LET y == FirstSignificant(items, TRUE)
            op == OpAt(y)
        IN  CASE op \in {"CHAR", "CHARI"} ->
                   IF inassert /\ y.lo > 0
                   THEN CodeUnit(y.c, op = "CHARI", FALSE) ELSE Disagree
              [] op \in {"CBRA", "ASSERT", "ONCE"} \/ (op = "BRA" /\ ~y.s) ->
                   FirstAsserted(y.alts, inassert \/ op = "ASSERT")
              [] OTHER -> Disagree
      isChar(items) == OpAt(FirstSignificant(items, TRUE)) \in {"CHAR", "CHARI"}
      join(acc, items) ==
        LET cu == asserted(items)
        IN  CASE acc.f = "none" \/ ~IsSet(cu) -> Disagree
              [] acc.f = "unset" -> cu
              [] acc.c = cu.c /\ (isChar(items) \/ acc.i = cu.i) -> acc
              [] OTHER -> Disagree
  IN  FoldLeft(join, Unset, alts)

\* A code unit to look for: [c, i], with c = "" for none.
NoUnit == [c |-> "", i |-> FALSE]
ToFind(cu) == [c |-> cu.c, i |-> cu.i /\ OtherCase(cu.c) # cu.c]

\* The end of pcre2_compile, up to the call of study: r is what compile_regex
\* returned, code the code with its iterators possessified, and anchor whether
\* PCRE2_ANCHORED was given.
\* The first code unit, or the asserted one when it differs from the last.
FinalFirst(r, code) ==
  LET asserted == FirstAsserted(code, FALSE)
  IN  IF ~IsSet(r.first) /\ IsSet(asserted) /\ asserted.c # r.req.c
      THEN asserted ELSE r.first
\* An anchored pattern has a last code unit only after something variable.
FinalLast(r, anchored) ==
  IF IsSet(r.req) /\ (~anchored \/ r.req.vary) THEN ToFind(r.req) ELSE NoUnit
Count(holds) == IF holds THEN 1 ELSE 0
Finish(r, code, anchor) ==
  LET refs == Referenced(code)
      anchored == anchor \/ IsAnchored(code, refs, {}, FALSE)
      first == FinalFirst(r, code)
  IN  [code |-> code, anchored |-> anchored,
       first |-> IF IsSet(first) THEN ToFind(first) ELSE NoUnit,
       startline |-> /\ ~IsSet(first) /\ ~anchored
                     /\ IsStartline(code, refs, {}, FALSE),
       last |-> FinalLast(r, anchored),
       minlength |-> Count(IsSet(first)) + Count(IsSet(r.req)),
       empty |-> r.empty, startbits |-> {}]
=============================================================================
