----------------------------- MODULE Pcre2Bumpalong --------------------------
(***************************************************************************)
(* pcre2_match: the bumpalong loop, which skips the starts where the facts *)
(* found at compile time say that nothing can match, and runs match() at   *)
(* the others.  What a pattern means, what match() finds, and what is in   *)
(* the compiled code are parameters, for which Pcre2Search has the         *)
(* engine's.                                                               *)
(***************************************************************************)
EXTENDS Integers, Sequences, FiniteSets, SequencesExt

CONSTANTS Programs,     \* what is compiled, [p, opts]: a pattern and some of
                        \* "ANCHORED", "FIRSTLINE", "ENDANCHORED",
                        \* "MATCH_UNSET_BACKREF"
          Calls(_),     \* the calls of pcre2_match for each, [s, offset, opts]
          REQ_CU_MAX,   \* how far ahead a required code unit is looked for
          fcc(_),       \* a character in the other case, itself if it has none
          NoCodeUnit,   \* none is known, or none is to be looked for
          match(_, _, _, _, _),
                        \* match() with the code, the subject, the start, and the
                        \* offset and the options of the call: <<>> or <<state>>
          PatternWays(_, _, _, _, _)
                        \* the states in which a pattern can end, in order, on a
                        \* subject, with the call's offset and options, at a start

VARIABLES program,      \* what pcre2_compile was given
          re,           \* the pcre2_real_code
          pc,           \* the stage of the search
          call,         \* the call that is running
          start_match,  \* where the next match() would start
          req_cu_ptr,   \* where the required code unit was last found
          memchr_found, \* where each case of the first code unit was found
          result        \* what the call returns

\* A search begins in the subject.
ASSUME SearchAssumption ==
  /\ \A g \in Programs : \A k \in Calls(g) :
       k.s \in Seq(STRING) /\ k.offset \in 0..Len(k.s)
  /\ REQ_CU_MAX \in Nat

compiling == <<program, re>>
options == program.opts
searching == <<call, start_match, req_cu_ptr, memchr_found, result>>
vars == <<compiling, pc, searching>>

Nowhere == -1
NoMatch == [rc |-> "nomatch"]
Found(from, w) == [rc |-> "match", from |-> from, to |-> w.at, caps |-> w.caps]
NoCall == [s |-> <<>>, offset |-> 0, opts |-> {}]
NotSearching ==
  /\ call = NoCall /\ start_match = 0 /\ req_cu_ptr = Nowhere
  /\ memchr_found = <<Nowhere, Nowhere>>
  /\ result = NoMatch

InitSearch == program \in Programs /\ pc = "ready" /\ NotSearching

-----------------------------------------------------------------------------
(* pcre2_match.                                                            *)

subject == call.s
opts == options \cup call.opts
anchored == re.anchored \/ "ANCHORED" \in opts
firstline == ~anchored /\ "FIRSTLINE" \in options
\* The first newline from a position on, or the end.
LineEnd(s, at) ==
  Min({Len(s)} \cup {i \in at..(Len(s) - 1) : s[i + 1] = "LF"})
\* Where the scans for a start stop.
end_subject == IF firstline THEN LineEnd(subject, start_match) ELSE Len(subject)
\* memchr over the subject before an end, which stands for "not found".
Memchr(chars, from, end) ==
  Min({end} \cup {i \in from..(end - 1) : subject[i + 1] \in chars})
CasesOf(cu) == {cu.c} \cup IF cu.i THEN {fcc(cu.c)} ELSE {}

Start ==
  /\ pc = "ready"
  /\ \E c \in Calls(program) :
       /\ call' = c /\ start_match' = c.offset /\ req_cu_ptr' = c.offset - 1
  /\ memchr_found' = <<Nowhere, Nowhere>> /\ result' = NoMatch
  /\ pc' = "seek"
  /\ UNCHANGED compiling

GiveUp ==
  /\ pc' = "done"
  /\ UNCHANGED <<compiling, call, start_match, req_cu_ptr, memchr_found, result>>
\* On to the checks, from another start.
SeekTo(new) ==
  /\ start_match' = new /\ pc' = "check"
  /\ UNCHANGED <<compiling, call, req_cu_ptr, result>>

\* An anchored pattern looks at the first character only.
SeekAnchored ==
  LET wanted == IF re.first # NoCodeUnit THEN CasesOf(re.first) ELSE re.startbits
  IN  /\ pc = "seek" /\ anchored
      /\ IF wanted # {} /\ ~(/\ start_match < Len(subject)
                            /\ subject[start_match + 1] \in wanted)
         THEN GiveUp
         ELSE SeekTo(start_match) /\ UNCHANGED memchr_found
\* One first code unit in one case.
SeekFirst ==
  LET found == Memchr({re.first.c}, start_match, end_subject)
  IN  /\ pc = "seek" /\ ~anchored /\ re.first # NoCodeUnit /\ ~re.first.i
      /\ IF found >= Len(subject) THEN GiveUp
         ELSE SeekTo(found) /\ UNCHANGED memchr_found
\* Mutant: what an earlier round found is used for good.
StaleNever(k) == memchr_found[k] = Nowhere
\* What an earlier round found is used as long as it is ahead.
Stale(k) == memchr_found[k] = Nowhere \/ start_match > memchr_found[k]
\* In both cases.
SeekFirstCaseless ==
  LET cases == <<re.first.c, fcc(re.first.c)>>
      found == [k \in 1..2 |-> IF Stale(k) THEN Memchr({cases[k]}, start_match, end_subject)
                               ELSE memchr_found[k]]
      first == Min({found[1], found[2]})
  IN  /\ pc = "seek" /\ ~anchored /\ re.first # NoCodeUnit /\ re.first.i
      /\ IF first >= Len(subject) THEN GiveUp
         ELSE SeekTo(first) /\ memchr_found' = found
\* After the first start, the next one after a newline.
SeekStartline ==
  LET after == {i \in start_match..(end_subject - 1) : subject[i] = "LF"}
  IN  /\ pc = "seek" /\ ~anchored /\ re.first = NoCodeUnit /\ re.startline
      /\ SeekTo(IF start_match > call.offset THEN Min(after \cup {end_subject})
                ELSE start_match)
      /\ UNCHANGED memchr_found
SeekStartBits ==
  LET found == Memchr(re.startbits, start_match, end_subject)
  IN  /\ pc = "seek" /\ ~anchored /\ re.first = NoCodeUnit /\ ~re.startline
      /\ re.startbits # {}
      /\ IF found >= Len(subject) THEN GiveUp
         ELSE SeekTo(found) /\ UNCHANGED memchr_found
SeekNothing ==
  /\ pc = "seek" /\ ~anchored /\ re.first = NoCodeUnit /\ ~re.startline
  /\ re.startbits = {}
  /\ SeekTo(start_match) /\ UNCHANGED memchr_found

\* Too little is left, or the required code unit is not in it; a place where
\* it was found is good until the start has passed it.
Check ==
  LET left == Len(subject) - start_match
      from == start_match + IF re.first # NoCodeUnit THEN 1 ELSE 0
      look == /\ re.last # NoCodeUnit /\ from > req_cu_ptr
              /\ left < REQ_CU_MAX \/ (~anchored /\ left < REQ_CU_MAX * 1000)
      found == Memchr(CasesOf(re.last), from, Len(subject))
  IN  /\ pc = "check"
      /\ IF left < re.minlength \/ (look /\ found >= Len(subject)) THEN GiveUp
         ELSE /\ req_cu_ptr' = IF look THEN found ELSE req_cu_ptr
              /\ pc' = "match"
              /\ UNCHANGED <<compiling, call, start_match, memchr_found, result>>

\* The bumpalong stops at the end, where match() has still run.
LastStart == start_match + 1 > Len(subject)

\* match() at a start, and the bumpalong.
Attempt ==
  LET w == match(re.code, subject, start_match, call.offset, opts)
      onLastLine == firstline /\ start_match < Len(subject)
                    /\ subject[start_match + 1] = "LF"
      stop == w # <<>> \/ onLastLine \/ anchored \/ LastStart
  IN  /\ pc = "match"
      /\ result' = IF w # <<>> THEN Found(start_match, w[1]) ELSE NoMatch
      /\ pc' = IF stop THEN "done" ELSE "seek"
      /\ start_match' = IF stop THEN start_match ELSE start_match + 1
      /\ UNCHANGED <<compiling, call, req_cu_ptr, memchr_found>>

Return ==
  /\ pc = "done" /\ pc' = "ready"
  /\ call' = NoCall /\ start_match' = 0 /\ req_cu_ptr' = Nowhere
  /\ memchr_found' = <<Nowhere, Nowhere>> /\ result' = NoMatch
  /\ UNCHANGED compiling

Seek == \/ SeekAnchored \/ SeekFirst \/ SeekFirstCaseless \/ SeekStartline
        \/ SeekStartBits \/ SeekNothing

NextSearch == Start \/ Seek \/ Check \/ Attempt \/ Return
SearchSpec == InitSearch /\ [][NextSearch]_vars

-----------------------------------------------------------------------------
(* What the compiler promises the search.                                  *)

Engine == INSTANCE Pcre2Match
OptsOf(k) == options \cup k.opts
\* The ways in which the pattern can match in the call k at a start, and which of
\* them the call accepts.
WaysAt(k, at) == PatternWays(program.p, k.s, k.offset, OptsOf(k), at)
SpansAt(k, at) ==
  LET ways == WaysAt(k, at) IN [i \in DOMAIN ways |-> Engine!Found(at, ways[i].at)]
TableOf(k) == [try |-> [at \in 0..Len(k.s) |-> SpansAt(k, at)]]
AcceptedAt(k, at) ==
  LET spans == SpansAt(k, at)
  IN  {i \in DOMAIN spans : Engine!Accepts(TableOf(k), spans[i], k.offset, OptsOf(k))}
CanMatch(k, at) == AcceptedAt(k, at) # {}
StartsOf(k) == k.offset..Len(k.s)

\* match() finds the first way that the call accepts.
FindsFirst ==
  \A k \in Calls(program) : \A at \in StartsOf(k) :
    LET ways == WaysAt(k, at)
        accepted == AcceptedAt(k, at)
    IN  /\ DOMAIN ways = 1..Len(ways)
        /\ match(re.code, k.s, at, k.offset, OptsOf(k)) =
             IF accepted = {} THEN <<>> ELSE <<ways[Min(accepted)]>>

\* find_minlength and the required code unit: no way to match is shorter, or
\* does without it.
IsBounded ==
  /\ re.minlength \in Nat
  /\ \A k \in Calls(program) : \A at \in StartsOf(k) : \A w \in ToSet(WaysAt(k, at)) :
       /\ w.at \in (at + re.minlength)..Len(k.s)
       /\ re.last # NoCodeUnit =>
            \E i \in (at + (IF re.first # NoCodeUnit THEN 2 ELSE 1))..w.at : k.s[i] \in CasesOf(re.last)

\* The first code unit, the start bits, is_anchored and is_startline: every
\* match starts with one of the characters, and one inside a line of an
\* unanchored .* pattern would have been found earlier in that line, wherever
\* in it the search began.
StartsWhereSought ==
  \A k \in Calls(program) : \A at \in StartsOf(k) : CanMatch(k, at) =>
    LET first == IF re.first # NoCodeUnit THEN CasesOf(re.first) ELSE re.startbits
        line == Max({k.offset} \cup {i \in (k.offset + 1)..at : k.s[i] = "LF"})
    IN  /\ first # {} => at < Len(k.s) /\ k.s[at + 1] \in first
        /\ re.anchored /\ "ANCHORED" \notin OptsOf(k) => \A j \in k.offset..at : CanMatch(k, j)
        /\ re.startline => \A j \in line..at : CanMatch(k, j)

\* The code and the facts that go with it keep these promises once they are
\* made: match() gives no other answer than the pattern,
MatchFindsFirst == pc = "ready" => FindsFirst
\* no start that is refused untried can match,
BoundsAreSound == pc = "ready" => IsBounded
\* and no start that the scans pass over can match.
StartsAreSound == pc = "ready" => StartsWhereSought

-----------------------------------------------------------------------------
(* What the caller is promised, from the pattern's meaning.                *)

\* What GlobalMatch, CompatIter and the others rely on: the search returns the
\* first acceptable way at the leftmost start that has one, with its captures,
\* whatever was skipped.
OnFirstLine(r) ==
  IF firstline /\ r.from > LineEnd(subject, call.offset) THEN Engine!NoMatch ELSE r
Promised == OnFirstLine(Engine!Search(TableOf(call), call.offset, opts))
\* The state at the end of the first way that ends at to.
FirstEnding(ways, to) == ways[Min({i \in DOMAIN ways : ways[i].at = to})]
IsAsPromised(promised) ==
  /\ result.rc = promised.rc
  /\ result.rc = "match" =>
       /\ <<result.from, result.to>> = <<promised.from, promised.to>>
       /\ result.caps = FirstEnding(WaysAt(call, result.from), result.to).caps
SearchKeepsPromise == pc = "done" => IsAsPromised(Promised)

\* The bumpalong never tries a start twice nor goes back, whatever the scans
\* remember of earlier rounds, and so it ends.
StartsAdvance ==
  [][pc = "match" \/ pc = "seek" =>
       \/ pc' = "done"
       \/ start_match' >= start_match + IF pc = "match" THEN 1 ELSE 0]_vars
=============================================================================
