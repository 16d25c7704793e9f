-------------------------------- MODULE Replace --------------------------------
(***************************************************************************)
(* Replace and ReplaceFunc on top of the iteration of CompatIter: a first  *)
(* search from a byte offset of the caller's string, then FindNextMatch    *)
(* after each match, copying the runes in between.  The evaluator gets the *)
(* match, and with it the matchState that replace goes on with: it may     *)
(* look for other matches, and call SetMatchLimits, before it returns.     *)
(* Offsets are bytes in the subject and runes in the result; where the     *)
(* caller's string is not valid UTF-8 its bytes are not the subject's.     *)
(***************************************************************************)
EXTENDS CompatIter

CONSTANTS Strings,  \* to the boundaries of a subject the boundaries of the
                    \* strings it may be made from
          Counts,   \* counts the caller gives
          MaxEvaluator  \* bound: searches after which the evaluator makes none

ASSUME ReplaceAssumption ==
    /\ Counts \subseteq Int /\ MaxEvaluator \in Nat
    /\ \A e \in Compiled : \A r \in Regexp : \A p \in e[r] : DOMAIN p.try \in DOMAIN Strings
    /\ \A S \in DOMAIN Strings : \A o \in Strings[S] :
          o \subseteq Nat /\ IsFiniteSet(o) /\ Cardinality(o) = Cardinality(S)

VARIABLE rep  \* the call of replace

rvars == <<vars, rep>>

NoReplace == [status |-> "none"]

\* How many boundaries lie before b.
Rank(S, b) == Cardinality({s \in S : s < b})

RuneCount == Cardinality(Starts) - 1

\* Mutant: the fast path for ASCII is taken for any subject.
ByteToRuneUnconverted(b) == b

\* The first rune that starts at b or after it.
ByteToRune(b) == Rank(Starts, b)

\* The offset in the subject of startAt in the string o, -1 for the start.
AlignByteStart(o, startAt) ==
    IF startAt < 0 THEN 0
    ELSE CHOOSE s \in Starts : Rank(Starts, s) = Rank(o, startAt)

Aligned(o, startAt) == startAt < 0 \/ startAt \in o

Text(a, b) == [i \in 1..(b - a) |-> [rune |-> a + i - 1]]

\* What replace does with what a search returned: fail, finish with the rest
\* of the text, or copy up to the match, evaluate, and see if it is the last.
Took(p, m) ==
    LET index == ByteToRune(m.from)
        prevat == ByteToRune(m.to)
        evaluated == [p EXCEPT !.out = p.out \o Text(p.prevat, index) \o <<[eval |-> m]>>,
                               !.prevat = prevat, !.count = @ - 1, !.cur = m]
        finish(q) == [q EXCEPT !.out = q.out \o Text(q.prevat, RuneCount), !.status = "done"]
    IN  IF Failed(m) THEN [p EXCEPT !.out = <<>>, !.status = "failed"]
        ELSE IF m.rc = "nomatch" THEN finish(p)
        ELSE IF index < p.prevat THEN [p EXCEPT !.status = "panic"]
        ELSE IF p.count = 1 THEN finish(evaluated)
        ELSE evaluated

\* The calls that do not search: a count of 0 gives the empty string, and a
\* count below -1 or an offset inside a rune or behind the end an error.
ReplaceRefuses ==
    /\ calls = 0 /\ rep = NoReplace
    /\ \E count \in Counts, o \in Strings[Starts] : \E startAt \in -1 .. Max(o) + 1 :
          /\ count < -1 \/ count = 0 \/ ~Aligned(o, startAt)
          /\ rep' = [status |-> IF count = 0 THEN "empty" ELSE "refused"]
    /\ UNCHANGED vars

ReplaceStart(r) ==
    /\ rep = NoReplace
    /\ \E count \in Counts, o \in Strings[Starts] : \E startAt \in -1 .. Max(o) + 1 :
          /\ count >= -1 /\ count # 0
          /\ Aligned(o, startAt)
          /\ FirstMatch(r, AlignByteStart(o, startAt))
          /\ rep' = Took([status |-> "running", re |-> r, start |-> AlignByteStart(o, startAt),
                          limit |-> count, count |-> count, prevat |-> 0, out |-> <<>>, cur |-> Nil],
                         last'.got)

ReplaceNext ==
    /\ rep.status = "running"
    /\ NextNone(rep.re, rep.cur) \/ NextServed(rep.re, rep.cur) \/ NextSearched(rep.re, rep.cur)
    /\ rep' = Took(rep, last'.got)

\* The caller without replace, or the evaluator.
Caller ==
    /\ rep.status = "none" \/ (rep.status = "running" /\ calls < MaxEvaluator)
    /\ Next
    /\ UNCHANGED rep

ReplaceInit == Init /\ rep = NoReplace

ReplaceStep ==
    \/ Caller
    \/ ReplaceRefuses
    \/ \E r \in Regexp : ReplaceStart(r)
    \/ ReplaceNext

ReplaceSpec == ReplaceInit /\ [][ReplaceStep]_rvars

------------------------------------------------------------------------------
(* Properties                                                              *)

\* What one search with the pattern q finds after the match m.
After(q, m) ==
    LET from == IF ~IsEmpty(m) THEN m.to
                ELSE IF m.to >= End THEN End + 1 ELSE Bump(q, m.to)
    IN  IF from > End THEN Nil ELSE Search(q, from, {})

NoLimit(q) == \A s \in Starts : HitLimit \notin ToSet(q.try[s])

\* The matches that were evaluated among the first n pieces of a result.
Evaluated(pieces, n) == {i \in 1..n : "eval" \in DOMAIN pieces[i]}

\* What one search with q finds after the last of them, or from start.
Following(q, start, pieces, n) ==
    LET before == Evaluated(pieces, n)
    IN  IF before = {} THEN Search(q, start, {}) ELSE After(q, pieces[Max(before)].eval)

\* The runes that a piece of the result stands for: from the first to before Upto.
From(x) == IF "rune" \in DOMAIN x THEN x.rune ELSE ByteToRune(x.eval.from)
Upto(x) == IF "rune" \in DOMAIN x THEN x.rune + 1 ELSE ByteToRune(x.eval.to)

\* The pieces stand for the first n runes, each of them in one piece.
Tile(pieces, n) ==
    /\ pieces = <<>> => n = 0
    /\ pieces # <<>> => From(pieces[1]) = 0 /\ Upto(pieces[Len(pieces)]) = n
    /\ \A i \in 1 .. Len(pieces) - 1 : From(pieces[i + 1]) = Upto(pieces[i])

\* Every rune of the text is copied, or lies in one match that was evaluated, in
\* the order of the text, and replace never slices the text backwards: whatever
\* the evaluator does with the match it is given and with the limits.
NothingLostOrRepeated ==
    /\ rep.status # "panic"
    /\ rep.status = "running" => Tile(rep.out, rep.prevat)
    /\ rep.status = "done" => Tile(rep.out, RuneCount)

\* The result is the whole text, and the matches that replace evaluates are those
\* of one search after the other without a match limit, from the first to the
\* last that count asks for: the two together determine it.
\* Match limits, and SetMatchLimits by the evaluator, may make it fail as a
\* whole, but it returns nothing half replaced.
ReplacedLikeReference ==
    /\ NothingLostOrRepeated
    /\ rep.status = "done" =>
          \A q \in expr[rep.re] : NoLimit(q) =>
            LET found(n) == Following(q, rep.start, rep.out, n)
                all == Evaluated(rep.out, Len(rep.out))
            IN  /\ \A i \in all : rep.out[i].eval = found(i - 1)
                /\ \/ Cardinality(all) = rep.limit
                   \/ found(Len(rep.out)) = Nil /\ (rep.limit < 0 \/ Cardinality(all) < rep.limit)
==============================================================================
