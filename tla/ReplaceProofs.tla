----------------------------- MODULE ReplaceProofs -----------------------------
(***************************************************************************)
(* FindNextMatch may be served from the batched iterator that a matchState *)
(* keeps, or by a search of its own.  For every expression, every subject, *)
(* every batch size and every order of calls, the two cannot be told       *)
(* apart, but for the errors that a match limit or SetMatchLimits causes.  *)
(*                                                                         *)
(* Replace keeps this promise, for its own searches and for those of the   *)
(* evaluator, and assembles its result from the whole text: for every      *)
(* text, valid UTF-8 or not, every expression, every count and every       *)
(* start.  Offsets in the subject become numbers of runes by counting      *)
(* boundaries; the lemmas on Rank say that this keeps their order.         *)
(***************************************************************************)
EXTENDS Replace, ScanTheorems, FiniteSetTheorems

------------------------------------------------------------------------------
(* CompatIter: the inductive invariant.                                    *)


\* The matches there can be on this subject.
OnSubject == MatchesFrom(pat[CHOOSE r \in Regexp : TRUE], 0)

\* The matchState iterators that can be open.
IterStates ==
    [re : Regexp \ Lookbehind, v : Nat, pos : Starts, opts : NextOpts,
     chunk : Seq(OnSubject),
     err : {Nil, HitLimit, ErrClosed}, done : BOOLEAN]

\* The types; each Regexp stands for one of its compiled patterns.
Typed ==
    /\ IsExpression(expr)
    /\ DOMAIN pat = Regexp /\ \A r \in Regexp : pat[r] \in expr[r]
    /\ version \in [Regexp -> Nat]
    /\ active \in BOOLEAN /\ next \in Starts
    /\ iter = NoIter \/ iter \in IterStates
    /\ held \subseteq OnSubject

\* The iterator it, opened with the pattern q, stands after the match that ended
\* at start: its chunk is what one search after the other finds from there, and
\* its cursor is where that goes on.
Follows(it, q, start) ==
    LET full == FullScan(q, start, {})
        rest == FullScan(q, it.pos, it.opts)
    IN  IF it.done THEN full.matches = it.chunk /\ full.status = "end"
        ELSE full.matches = it.chunk \o rest.matches /\ full.status = rest.status

\* The open iterator belongs to the match that may be continued.
InStep ==
    /\ iter.err = Nil /\ iter.v <= version[iter.re]
    /\ \E q \in expr[iter.re] : (Open(iter) => q = pat[iter.re]) /\ Follows(iter, q, next)

\* At most one Regexp is served from iterators.
OneBatched == \A r, s \in Regexp \ Lookbehind : r = s

\* The inductive invariant: a match that may be continued is held and not empty,
\* and the iterator, if there is one, is in step with it.
IndInv ==
    /\ Typed
    /\ Failed(last.got) => ~active
    /\ active => \E m \in held : ~IsEmpty(m) /\ m.to = next
    /\ active /\ iter # NoIter => InStep
    /\ OneBatched => IdenticalWithoutLimits /\ AgreesOrFails

------------------------------------------------------------------------------
(* The subject and the match limits.                                       *)

\* All patterns that the Regexp values may be compiled to are on one subject.
LEMMA OneSubject ==
    ASSUME Typed, NEW r \in Regexp, NEW q \in expr[r]
    PROVE  /\ IsPattern(q) /\ Boundaries(q) = Starts /\ Length(q) = End
           /\ MatchesFrom(q, 0) = OnSubject /\ SameWays(q, pat[r]) /\ SameWays(pat[r], q)
<1>. DEFINE any == CHOOSE s \in Regexp : TRUE
<1>1. any \in Regexp
    BY CompatIterAssumption
<1>2. pat[any] \in expr[any] /\ pat[r] \in expr[r]
    BY <1>1 DEF Typed
<1>3. IsPattern(q) /\ DOMAIN q.try = DOMAIN pat[any].try
    BY <1>1, <1>2 DEF Typed, IsExpression
<1>4. SameWays(q, pat[r]) /\ SameWays(pat[r], q)
    BY <1>2 DEF Typed, IsExpression
<1>. QED BY <1>3, <1>4 DEF Boundaries, Starts, End, Length, MatchesFrom, OnSubject

\* At one offset, one expression matches alike under two match limits, unless it
\* hits one of them.
LEMMA MatchAtAgrees ==
    ASSUME NEW p, NEW q, IsPattern(p), IsPattern(q), Boundaries(p) = Boundaries(q),
           SameWays(p, q), SameWays(q, p), NEW s \in Boundaries(p), NEW pos, NEW opts
    PROVE  \/ MatchAt(p, s, pos, opts) = MatchAt(q, s, pos, opts)
           \/ MatchAt(p, s, pos, opts) = HitLimit
           \/ MatchAt(q, s, pos, opts) = HitLimit
<1>. DEFINE stops(z) == {i \in DOMAIN z.try[s] :
                           z.try[s][i] = HitLimit \/ Accepts(z, z.try[s][i], pos, opts)}
            way(z) == MatchAt(z, s, pos, opts)
            first(z) == Min(stops(z))
<1>0. ASSUME NEW z \in {p, q}
      PROVE  Len(z.try[s]) \in Nat /\ DOMAIN z.try[s] = 1..Len(z.try[s])
  <2>1. z.try[s] \in Seq(MatchesFrom(z, s) \cup {HitLimit})
      BY DEF IsPattern, Boundaries
  <2>2. \A T : \A l \in Seq(T) : Len(l) \in Nat /\ DOMAIN l = 1..Len(l)
      OBVIOUS
  <2>. QED BY <2>1, <2>2
<1>1. \A z : way(z) = IF stops(z) = {} THEN NoMatch ELSE z.try[s][first(z)]
    BY DEF MatchAt
<1>2. ASSUME NEW z \in {p, q}
      PROVE  /\ DOMAIN z.try[s] \subseteq Nat \ {0}
             /\ stops(z) # {} => /\ first(z) \in stops(z)
                                 /\ \A i \in stops(z) : first(z) <= i
  <2>1. DOMAIN z.try[s] \subseteq Nat \ {0}
      BY <1>0
  <2>2. stops(z) \in SUBSET Nat
      BY <2>1
  <2>. HIDE DEF stops
  <2>. QED BY <2>1, <2>2, MinNat
<1>3. \A r : Accepts(p, r, pos, opts) <=> Accepts(q, r, pos, opts)
  <2>1. Length(p) = Length(q)
      BY DEF Length, Boundaries
  <2>. QED BY <2>1 DEF Accepts
<1>4. ASSUME NEW x \in {p, q}, NEW y \in {p, q}, SameWays(x, y), stops(x) # {}
      PROVE  \/ way(x) = HitLimit
             \/ /\ stops(y) # {} /\ first(y) <= first(x)
                /\ first(y) = first(x) => way(x) = way(y) \/ way(y) = HitLimit
  <2>. DEFINE i == first(x)
  <2>1. i \in DOMAIN x.try[s] /\ i \in stops(x) /\ i \in Nat
      BY <1>2, <1>4
  <2>2. /\ way(x) = x.try[s][i]
        /\ stops(y) # {} => way(y) = y.try[s][first(y)]
      BY <1>1, <1>4
  <2>3. \/ i \in DOMAIN y.try[s] /\ y.try[s][i] = x.try[s][i]
        \/ \E j \in 1..i : \/ x.try[s][j] = HitLimit
                           \/ j \in DOMAIN y.try[s] /\ y.try[s][j] = HitLimit
      BY <1>4, <2>1 DEF SameWays, Boundaries
  <2>4. CASE i \in DOMAIN y.try[s] /\ y.try[s][i] = x.try[s][i]
    <3>1. i \in stops(y)
        BY <1>3, <2>1, <2>4
    <3>. HIDE DEF stops, way, first
    <3>2. first(y) <= i
        BY <1>2, <3>1
    <3>. QED BY <2>2, <2>4, <3>1, <3>2 DEF i
  <2>5. ASSUME NEW j \in 1..i, x.try[s][j] = HitLimit
        PROVE  way(x) = HitLimit
    <3>1. j \in stops(x)
      <4>1. j \in DOMAIN x.try[s]
          BY <1>0, <2>1, <2>5
      <4>. QED BY <2>5, <4>1
    <3>2. i <= j
      <4>. HIDE DEF stops
      <4>. QED BY <1>2, <1>4, <3>1
    <3>3. i = j
        BY <2>1, <2>5, <3>2
    <3>. QED BY <2>2, <2>5, <3>3
  <2>6. ASSUME NEW j \in 1..i, j \in DOMAIN y.try[s], y.try[s][j] = HitLimit
        PROVE  /\ stops(y) # {} /\ first(y) <= i
               /\ first(y) = i => way(y) = HitLimit
    <3>1. j \in stops(y)
        BY <2>6
    <3>. HIDE DEF stops, way
    <3>2. stops(y) # {} /\ first(y) <= j /\ first(y) \in Nat
      <4>1. first(y) \in stops(y) /\ \A k \in stops(y) : first(y) <= k
          BY <1>2, <3>1
      <4>2. first(y) \in Nat
          BY <1>2, <4>1 DEF stops
      <4>. QED BY <3>1, <4>1, <4>2
    <3>3. first(y) = i => j = i
        BY <2>1, <2>6, <3>2
    <3>. QED BY <2>1, <2>2, <2>6, <3>2, <3>3
  <2>. HIDE DEF stops, way, first
  <2>. QED BY <2>3, <2>4, <2>5, <2>6 DEF i
<1>. HIDE DEF stops, way, first
<1>5. CASE stops(p) = {} /\ stops(q) = {}
  <2>1. way(p) = way(q)
      BY <1>1, <1>5
  <2>. QED BY <2>1 DEF way
<1>6. CASE stops(p) # {} /\ stops(q) # {}
  <2>1. first(p) \in Nat /\ first(q) \in Nat
      BY <1>2, <1>6 DEF stops
  <2>2. \/ way(p) = HitLimit
        \/ first(q) <= first(p) /\ (first(q) = first(p) => way(p) = way(q) \/ way(q) = HitLimit)
      BY <1>4, <1>6
  <2>3. way(q) = HitLimit \/ first(p) <= first(q)
      BY <1>4, <1>6
  <2>. QED BY <2>1, <2>2, <2>3 DEF way
<1>7. CASE ~(stops(p) = {} <=> stops(q) = {})
  <2>1. way(p) = HitLimit \/ way(q) = HitLimit
      BY <1>4, <1>7
  <2>. QED BY <2>1 DEF way
<1>. QED BY <1>5, <1>6, <1>7

\* So does a search.
LEMMA SearchAgrees ==
    ASSUME NEW p, NEW q, IsPattern(p), IsPattern(q), Boundaries(p) = Boundaries(q),
           SameWays(p, q), SameWays(q, p), NEW pos \in Boundaries(p), NEW opts
    PROVE  \/ Search(p, pos, opts) = Search(q, pos, opts)
           \/ Search(p, pos, opts) = HitLimit
           \/ Search(q, pos, opts) = HitLimit
<1>. DEFINE starts(z) == {s \in Boundaries(p) :
                           /\ s >= pos
                           /\ "ANCHORED" \in opts => s = pos
                           /\ MatchAt(z, s, pos, opts) # NoMatch}
            first(z) == Min(starts(z))
<1>1. \A z \in {p, q} : Search(z, pos, opts) = IF starts(z) = {} THEN NoMatch
                                               ELSE MatchAt(z, first(z), pos, opts)
    BY DEF Search, Boundaries
<1>2. ASSUME NEW z, starts(z) # {}
      PROVE  first(z) \in starts(z) /\ \A s \in starts(z) : first(z) <= s
  <2>1. starts(z) \in SUBSET Nat
      BY DEF IsPattern, Boundaries
  <2>. HIDE DEF starts
  <2>. QED BY <1>2, <2>1, MinNat
<1>3. \A s \in Boundaries(p) : \/ MatchAt(p, s, pos, opts) = MatchAt(q, s, pos, opts)
                               \/ MatchAt(p, s, pos, opts) = HitLimit
                               \/ MatchAt(q, s, pos, opts) = HitLimit
    BY MatchAtAgrees
<1>4. ASSUME NEW x \in {p, q}, NEW y \in {p, q}, starts(x) # {}
      PROVE  \/ MatchAt(x, first(x), pos, opts) = HitLimit
             \/ starts(y) # {} /\ first(y) <= first(x)
  <2>1. first(x) \in starts(x)
      BY <1>2, <1>4
  <2>2. first(x) \in starts(y) \/ MatchAt(x, first(x), pos, opts) = HitLimit
    <3>1. NoMatch # HitLimit
        BY DEF NoMatch, HitLimit
    <3>. HIDE DEF first
    <3>. QED BY <1>3, <2>1, <3>1
  <2>. HIDE DEF starts, first
  <2>. QED BY <1>2, <2>2
<1>5. \A z : starts(z) # {} => first(z) \in Boundaries(p) /\ first(z) \in Nat
    BY <1>2 DEF IsPattern, Boundaries
<1>. HIDE DEF starts, first
<1>. QED BY <1>1, <1>3, <1>4, <1>5

------------------------------------------------------------------------------
(* The iterator.                                                           *)

\* A chunk is filled, or need not be: the iterator then has matches or is done,
\* or it failed because it is closed or because a search hit the match limit.
LEMMA FilledFollows ==
    ASSUME Typed, NEW it \in IterStates, it.err = Nil, NEW q \in expr[it.re],
           Open(it) => q = pat[it.re], NEW start, Follows(it, q, start),
           NEW ready,
           ready = IF it.chunk = <<>> /\ ~it.done /\ it.err = Nil THEN Fill(it) ELSE it
    PROVE  /\ ready \in IterStates /\ ready.re = it.re /\ ready.v = it.v
           /\ \/ ready.err = Nil /\ Follows(ready, q, start) /\ (ready.chunk = <<>> => ready.done)
              \/ ready.chunk = <<>> /\ ready.err = ErrClosed /\ ~Open(it)
              \/ /\ ready.chunk = <<>> /\ ready.err = HitLimit
                 /\ FullScan(q, start, {}).status = "matchlimit"
<1>1. /\ it.re \in Regexp /\ it.pos \in Starts /\ it.opts \in NextOpts /\ it.done \in BOOLEAN
      /\ it.chunk \in Seq(OnSubject)
    BY DEF IterStates
<1>2. IsPattern(q) /\ Boundaries(q) = Starts /\ MatchesFrom(q, 0) = OnSubject
    BY <1>1, OneSubject
<1>3. CASE ~(it.chunk = <<>> /\ ~it.done /\ it.err = Nil)
  <2>1. ready = it
      BY <1>3
  <2>. QED BY <1>1, <1>3, <2>1
<1>4. CASE it.chunk = <<>> /\ ~it.done /\ it.err = Nil /\ ~Open(it)
  <2>1. ready = [it EXCEPT !.err = ErrClosed, !.done = TRUE]
      BY <1>4 DEF Fill
  <2>. QED BY <1>4, <2>1 DEF IterStates
<1>5. CASE it.chunk = <<>> /\ ~it.done /\ it.err = Nil /\ Open(it)
  <2>. DEFINE c == Scan(q, it.pos, it.opts)[Batch]
              full == FullScan(q, start, {})
              rest == FullScan(q, it.pos, it.opts)
  <2>1. ready = TakeChunk(it, c)
      BY <1>5 DEF Fill
  <2>2. Batch \in Nat /\ Batch > 0
      BY CompatIterAssumption
  <2>3. /\ rest \in ScanStates(q, it.opts) /\ c \in ScanStates(q, it.opts)
        /\ rest = IF c.status = "more" THEN Glue(c.matches, FullScan(q, c.pos, c.opts)) ELSE c
      BY <1>1, <1>2, <2>2, FullSplits
  <2>4. c.status = "more" => Len(c.matches) = Batch
      BY <1>1, <1>2, <2>2, MoreFound
  <2>5. full.matches = rest.matches /\ full.status = rest.status
    <3>1. full.matches = it.chunk \o rest.matches /\ full.status = rest.status
        BY <1>5 DEF Follows
    <3>2. rest.matches \in Seq(OnSubject)
        BY <1>2, <2>3 DEF ScanStates
    <3>. HIDE DEF full, rest
    <3>. QED BY <1>5, <3>1, <3>2
  <2>6. /\ c.matches \in Seq(OnSubject) /\ c.pos \in Starts /\ c.opts \in NextOpts
        /\ c.status \in {"more", "end", "matchlimit"}
      BY <1>1, <1>2, <2>3 DEF ScanStates
  <2>. HIDE DEF c, full, rest
  <2>7. CASE c.status \in {"more", "end"}
    <3>1. ready = [it EXCEPT !.chunk = c.matches, !.pos = c.pos, !.opts = c.opts,
                             !.done = (c.status = "end")]
        BY <2>1, <2>7 DEF TakeChunk
    <3>2. /\ ready \in IterStates /\ ready.re = it.re /\ ready.v = it.v /\ ready.err = Nil
          /\ ready.chunk = c.matches /\ ready.pos = c.pos /\ ready.opts = c.opts
          /\ ready.done = (c.status = "end")
        BY <1>5, <2>6, <3>1 DEF IterStates
    <3>3. Follows(ready, q, start)
        BY <2>3, <2>5, <2>7, <3>2 DEF Follows, Glue, full
    <3>4. ready.chunk = <<>> => ready.done
      <4>1. CASE c.status = "end"
          BY <3>2, <4>1
      <4>2. CASE c.status = "more"
        <5>1. Len(ready.chunk) > 0
            BY <2>2, <2>4, <3>2, <4>2
        <5>. QED BY <5>1
      <4>. QED BY <2>7, <4>1, <4>2
    <3>. QED BY <3>2, <3>3, <3>4
  <2>8. CASE c.status = "matchlimit"
    <3>1. [Nil EXCEPT !.rc = c.status] = HitLimit
        BY <2>8 DEF Nil, NoMatch, HitLimit
    <3>2. ready = [it EXCEPT !.err = HitLimit, !.done = TRUE]
        BY <2>1, <2>8, <3>1 DEF TakeChunk
    <3>3. /\ ready \in IterStates /\ ready.re = it.re /\ ready.v = it.v
          /\ ready.chunk = <<>> /\ ready.err = HitLimit
        BY <1>5, <3>2 DEF IterStates
    <3>4. full.status = "matchlimit"
        BY <2>3, <2>5, <2>8
    <3>. QED BY <3>3, <3>4 DEF full
  <2>. QED BY <2>6, <2>7, <2>8
<1>. QED BY <1>3, <1>4, <1>5

\* The head and the tail of a chunk followed by more.
LEMMA HeadTailOfConcat ==
    ASSUME NEW S, NEW s \in Seq(S), NEW t \in Seq(S), s # <<>>
    PROVE  s \o t # <<>> /\ Head(s \o t) = Head(s) /\ Tail(s \o t) = Tail(s) \o t
<1>1. /\ Tail(s) \in Seq(S) /\ Len(Tail(s)) = Len(s) - 1 /\ Len(s) > 0
      /\ s \o t \in Seq(S) /\ Len(s \o t) = Len(s) + Len(t)
    OBVIOUS
<1>2. Tail(s \o t) \in Seq(S) /\ Len(Tail(s \o t)) = Len(Tail(s) \o t)
    BY <1>1
<1>3. ASSUME NEW i \in 1..Len(Tail(s) \o t) PROVE Tail(s \o t)[i] = (Tail(s) \o t)[i]
    BY <1>1
<1>4. s \o t # <<>> /\ Head(s \o t) = Head(s)
    BY <1>1
<1>. QED BY <1>1, <1>2, <1>3, <1>4, SeqEqual

\* What follows the first match of a sequence.
LEMMA TailAfterOne ==
    ASSUME NEW S, NEW x \in S, NEW t \in Seq(S)
    PROVE  Tail(<<x>> \o t) = t
<1>1. <<x>> \in Seq(S) /\ <<x>> # <<>> /\ Tail(<<x>>) = <<>>
    OBVIOUS
<1>2. Tail(<<x>> \o t) = <<>> \o t
    BY <1>1, HeadTailOfConcat
<1>. QED BY <1>2

\* What the iterator serves is what a scan from start finds first, or the reason
\* why it cannot know.
Serves(a, it, q, start) ==
    LET full == FullScan(q, start, {})
    IN  /\ a.it \in IterStates /\ a.it.re = it.re /\ a.it.v = it.v
        /\ \/ a.result = Nil /\ full.matches = <<>> /\ full.status = "end"
           \/ a.result = ErrClosed /\ ~Open(it)
           \/ a.result = HitLimit /\ full.status = "matchlimit"
           \/ /\ a.result \in OnSubject /\ a.it.err = Nil
              /\ full.matches # <<>> /\ a.result = Head(full.matches)
              /\ ~IsEmpty(a.result) => Follows(a.it, q, a.result.to)

\* After a non-empty match the scan goes on where it ended.
LEMMA FullAfterNonEmpty ==
    ASSUME NEW q, IsPattern(q), NEW start \in Boundaries(q), NEW full,
           full = FullScan(q, start, {}), full.matches # <<>>, ~IsEmpty(Head(full.matches))
    PROVE  LET h == Head(full.matches)
           IN  /\ h.to \in Boundaries(q)
               /\ full.matches = <<h>> \o FullScan(q, h.to, {}).matches
               /\ full.status = FullScan(q, h.to, {}).status
<1>. DEFINE r == Search(q, start, {})
            n == NextCursor(q, r, start)
            h == Head(full.matches)
<1>1. BeginsWith(q, start, {}, r, n)
    BY FullByFirstSearch
<1>2. CASE /\ r \in MatchesFrom(q, start) /\ n.more
           /\ full = Glue(<<r>>, FullScan(q, n.pos, n.opts))
  <2>1. full.matches = <<r>> \o FullScan(q, n.pos, n.opts).matches
        /\ full.status = FullScan(q, n.pos, n.opts).status
      BY <1>2 DEF Glue
  <2>2. n.pos \in Boundaries(q)
      BY <1>1, <1>2 DEF BeginsWith
  <2>3. FullScan(q, n.pos, n.opts).matches \in Seq(MatchesFrom(q, 0))
      BY <2>2, FullIsState
  <2>4. r \in MatchesFrom(q, 0)
      BY <1>2, MatchesGrow
  <2>5. h = r
    <3>. HIDE DEF r, n
    <3>. QED BY <2>1, <2>3, <2>4
  <2>6. n.pos = r.to /\ n.opts = {}
    <3>1. ~IsEmpty(r) /\ ~(r.from # start /\ r.to = start)
        BY <1>2, <2>5, MatchShape DEF IsEmpty
    <3>. HIDE DEF r
    <3>. QED BY <3>1 DEF NextCursor
  <2>. QED BY <2>1, <2>2, <2>5, <2>6
<1>3. CASE /\ r \in MatchesFrom(q, start) /\ ~n.more /\ full.matches = <<r>>
  <2>1. h = r
      BY <1>3
  <2>2. ~IsEmpty(r) /\ ~(r.from # start /\ r.to = start)
      BY <1>3, <2>1, MatchShape DEF IsEmpty
  <2>3. n.more
    <3>. HIDE DEF r
    <3>. QED BY <2>2 DEF NextCursor
  <2>. QED BY <1>3, <2>3
<1>. QED BY <1>1, <1>2, <1>3 DEF BeginsWith

\* An iterator in step serves the next match of the scan, or says why not, and
\* is in step with it afterwards.
LEMMA AdvanceServes ==
    ASSUME Typed, NEW it \in IterStates, it.err = Nil, NEW q \in expr[it.re],
           Open(it) => q = pat[it.re], NEW start \in Starts, Follows(it, q, start)
    PROVE  Serves(Advance(it), it, q, start)
<1>. DEFINE ready == IF it.chunk = <<>> /\ ~it.done /\ it.err = Nil THEN Fill(it) ELSE it
            a == Advance(it)
            full == FullScan(q, start, {})
<1>1. /\ ready \in IterStates /\ ready.re = it.re /\ ready.v = it.v
      /\ \/ ready.err = Nil /\ Follows(ready, q, start) /\ (ready.chunk = <<>> => ready.done)
         \/ ready.chunk = <<>> /\ ready.err = ErrClosed /\ ~Open(it)
         \/ ready.chunk = <<>> /\ ready.err = HitLimit /\ full.status = "matchlimit"
    BY FilledFollows
<1>2. a = Pop(ready)
    BY DEF Advance
<1>3. IsPattern(q) /\ Boundaries(q) = Starts /\ MatchesFrom(q, 0) = OnSubject
    BY OneSubject DEF IterStates
<1>4. full.matches \in Seq(OnSubject)
    BY <1>3, FullIsState
<1>. HIDE DEF ready, a, full
<1>5. CASE ready.chunk = <<>>
  <2>1. a.it = ready /\ a.result = ready.err
      BY <1>2, <1>5 DEF Pop
  <2>2. CASE ready.err = Nil /\ Follows(ready, q, start) /\ ready.done
    <3>1. full.matches = <<>> /\ full.status = "end"
        BY <1>5, <2>2 DEF Follows, full
    <3>. QED BY <1>1, <2>1, <2>2, <3>1 DEF Serves, a, full
  <2>3. CASE ready.err = ErrClosed /\ ~Open(it)
      BY <1>1, <2>1, <2>3 DEF Serves, a
  <2>4. CASE ready.err = HitLimit /\ full.status = "matchlimit"
      BY <1>1, <2>1, <2>4 DEF Serves, a, full
  <2>. QED BY <1>1, <1>5, <2>2, <2>3, <2>4
<1>6. CASE ready.chunk # <<>>
  <2>1. /\ ready.err = Nil /\ Follows(ready, q, start)
        /\ ready.chunk \in Seq(OnSubject) /\ ready.pos \in Starts /\ ready.done \in BOOLEAN
      BY <1>1, <1>6 DEF IterStates
  <2>2. a.it = [ready EXCEPT !.chunk = Tail(@)] /\ a.result = Head(ready.chunk)
      BY <1>2, <1>6 DEF Pop
  <2>3. Tail(ready.chunk) \in Seq(OnSubject) /\ Head(ready.chunk) \in OnSubject
      BY <1>6, <2>1
  <2>4. /\ a.it \in IterStates /\ a.it.re = it.re /\ a.it.v = it.v /\ a.it.err = Nil
        /\ a.it.chunk = Tail(ready.chunk) /\ a.it.pos = ready.pos /\ a.it.opts = ready.opts
        /\ a.it.done = ready.done
      BY <1>1, <2>1, <2>2, <2>3 DEF IterStates
  <2>. DEFINE rest == FullScan(q, ready.pos, ready.opts)
  <2>5. rest.matches \in Seq(OnSubject)
      BY <1>3, <2>1, FullIsState
  <2>. HIDE DEF rest
  <2>6. IF ready.done THEN full.matches = ready.chunk /\ full.status = "end"
        ELSE full.matches = ready.chunk \o rest.matches /\ full.status = rest.status
      BY <2>1 DEF Follows, full, rest
  <2>7. full.matches # <<>> /\ Head(full.matches) = a.result
    <3>1. ready.chunk \o rest.matches # <<>> /\ Head(ready.chunk \o rest.matches) = Head(ready.chunk)
        BY <1>6, <2>1, <2>5, HeadTailOfConcat
    <3>. QED BY <1>6, <2>2, <2>6, <3>1
  <2>8. ASSUME ~IsEmpty(a.result) PROVE Follows(a.it, q, a.result.to)
    <3>. DEFINE after == FullScan(q, a.result.to, {})
    <3>1. /\ a.result.to \in Boundaries(q)
          /\ full.matches = <<a.result>> \o after.matches
          /\ full.status = after.status
        BY <1>3, <2>7, <2>8, FullAfterNonEmpty DEF full
    <3>2. after.matches \in Seq(OnSubject)
        BY <1>3, <3>1, FullIsState
    <3>. HIDE DEF after
    <3>3. after.matches = Tail(full.matches)
      <4>1. a.result \in OnSubject
          BY <2>2, <2>3
      <4>2. Tail(<<a.result>> \o after.matches) = after.matches
          BY <3>2, <4>1, TailAfterOne
      <4>. QED BY <3>1, <4>2
    <3>4. CASE ready.done
        BY <2>4, <2>6, <3>1, <3>3, <3>4 DEF Follows, after
    <3>5. CASE ~ready.done
      <4>1. Tail(full.matches) = Tail(ready.chunk) \o rest.matches
        <5>1. Tail(ready.chunk \o rest.matches) = Tail(ready.chunk) \o rest.matches
            BY <1>6, <2>1, <2>5, HeadTailOfConcat
        <5>. QED BY <2>6, <3>5, <5>1
      <4>. QED BY <2>4, <2>6, <3>1, <3>3, <3>5, <4>1 DEF Follows, after, rest
    <3>. QED BY <3>4, <3>5
  <2>. QED BY <2>2, <2>3, <2>4, <2>7, <2>8 DEF Serves, a, full
<1>. QED BY <1>5, <1>6

------------------------------------------------------------------------------
(* The calls.                                                              *)

\* A new matchState has no iterator and no matches.
LEMMA InitHolds == Init => IndInv
<1>. SUFFICES ASSUME Init PROVE IndInv
    OBVIOUS
<1>1. IsExpression(expr) /\ \A r \in Regexp : pat[r] \in expr[r]
    BY CompatIterAssumption DEF Init
<1>2. (CHOOSE r \in Regexp : TRUE) \in Regexp
    BY CompatIterAssumption
<1>3. 0 \in Starts
    BY <1>1, <1>2 DEF IsExpression, IsPattern, Starts
<1>4. Typed
    BY <1>1, <1>3 DEF Init, Typed
<1>5. last.got = Nil /\ last.want = Nil /\ ~Failed(Nil)
    BY DEF Init, Failed, Nil, NoMatch
<1>. QED BY <1>4, <1>5 DEF Init, IndInv, IdenticalWithoutLimits, AgreesOrFails

\* Codes of the results there are.
LEMMA ResultCodes ==
    /\ \A m \in OnSubject : m.rc = "match" /\ ~Failed(m)
    /\ Nil.rc = "nomatch" /\ ~Failed(Nil)
    /\ Failed(HitLimit) /\ Failed(ErrClosed)
    /\ HitLimit.rc # "match" /\ ErrClosed.rc # "match"
<1>1. \A m \in OnSubject : m.rc = "match"
    BY DEF OnSubject, MatchesFrom, Found
<1>. QED BY <1>1 DEF Failed, Nil, NoMatch, HitLimit, ErrClosed

\* A match of this subject begins and ends on it.
LEMMA OnSubjectShape ==
    ASSUME Typed, NEW m \in OnSubject
    PROVE  /\ m.from \in Starts /\ m.to \in Starts
           /\ m.from \in Nat /\ m.to \in Nat /\ m.from <= m.to /\ m.to <= End /\ End \in Nat
<1>. DEFINE any == CHOOSE r \in Regexp : TRUE
<1>1. any \in Regexp /\ pat[any] \in expr[any]
    BY CompatIterAssumption DEF Typed
<1>2. IsPattern(pat[any]) /\ Boundaries(pat[any]) = Starts /\ Length(pat[any]) = End
      /\ MatchesFrom(pat[any], 0) = OnSubject
    BY <1>1, OneSubject
<1>3. 0 \in Boundaries(pat[any])
    BY <1>2 DEF IsPattern, Boundaries
<1>. QED BY <1>2, <1>3, MatchShape, LengthIsLast

\* One Find gives a match of the subject, none, or the match limit.
LEMMA FindFinds ==
    ASSUME Typed, NEW r \in Regexp, NEW start \in Starts
    PROVE  /\ Find(r, start) = Search(pat[r], start, {})
           /\ Find(r, start) \in OnSubject \cup {Nil, HitLimit}
<1>1. pat[r] \in expr[r]
    BY DEF Typed
<1>2. /\ IsPattern(pat[r]) /\ Boundaries(pat[r]) = Starts /\ Length(pat[r]) = End
      /\ MatchesFrom(pat[r], 0) = OnSubject
    BY <1>1, OneSubject
<1>3. ~(start > End)
    BY <1>2, LengthIsLast
<1>4. Search(pat[r], start, {}) \in Results(pat[r], start)
    BY <1>2, SearchFinds
<1>. QED BY <1>2, <1>3, <1>4, MatchesGrow DEF Find, Results, Nil

\* The start of the next search, and what one Find from there finds.
LEMMA FindNextFinds ==
    ASSUME Typed, NEW r \in Regexp, NEW m \in OnSubject
    PROVE  Find(r, NextStart(r, m)) \in OnSubject \cup {Nil, HitLimit}
<1>1. /\ m.to \in Starts /\ m.to \in Nat /\ m.to <= End /\ End \in Nat
    BY OnSubjectShape
<1>2. CASE ~IsEmpty(m)
    BY <1>1, <1>2, FindFinds DEF NextStart
<1>3. CASE IsEmpty(m) /\ m.to >= End
    BY <1>1, <1>3 DEF NextStart, Find
<1>4. CASE IsEmpty(m) /\ ~(m.to >= End)
  <2>1. pat[r] \in expr[r]
      BY DEF Typed
  <2>2. IsPattern(pat[r]) /\ Boundaries(pat[r]) = Starts /\ Length(pat[r]) = End
      BY <2>1, OneSubject
  <2>3. Bump(pat[r], m.to) \in Starts
      BY <1>1, <1>4, <2>2, BumpAdvances
  <2>. QED BY <1>4, <2>3, FindFinds DEF NextStart
<1>. QED BY <1>2, <1>3, <1>4

\* What does not concern the iterator leaves the subject as it is.
LEMMA SubjectKept ==
    ASSUME Typed, UNCHANGED <<expr, pat, version>>, next' \in Starts,
           active' \in BOOLEAN, iter' = NoIter \/ iter' \in IterStates, held' \subseteq OnSubject
    PROVE  Typed'
<1>1. Starts' = Starts /\ OnSubject' = OnSubject
    BY DEF Starts, OnSubject
<1>2. IterStates' = IterStates
    BY <1>1 DEF IterStates
<1>. QED BY <1>1, <1>2 DEF Typed, IsExpression

\* A call that is one Find gets what one Find returns; it leaves no iterator, or
\* arms one for the matches after its own.
LEMMA SearchedKeeps ==
    ASSUME IndInv, NEW r \in Regexp, NEW m, NEW got \in OnSubject \cup {Nil, HitLimit},
           Return(m, got, got), DisarmOrArm(r, got), UNCHANGED <<expr, pat, version>>
    PROVE  IndInv'
<1>1. /\ Typed
      /\ last'.got = got /\ last'.want = got
      /\ held' = IF got.rc = "match" THEN held \cup {got} ELSE held
    BY DEF IndInv, Return
<1>2. \/ /\ got.rc = "match" /\ ~IsEmpty(got) /\ active' = TRUE /\ next' = got.to
         /\ iter' = NoIter
      \/ active' = FALSE /\ next' = next /\ iter' = iter
    BY DEF DisarmOrArm
<1>3. got.rc = "match" => got \in OnSubject
    BY ResultCodes
<1>4. next' \in Starts
    BY <1>1, <1>2, <1>3, OnSubjectShape DEF Typed
<1>5. Typed'
  <2>1. active' \in BOOLEAN /\ (iter' = NoIter \/ iter' \in IterStates) /\ held' \subseteq OnSubject
      BY <1>1, <1>2, <1>3 DEF Typed
  <2>. QED BY <1>1, <1>4, <2>1, SubjectKept
<1>6. Failed(last'.got) => ~active'
    BY <1>1, <1>2 DEF Failed
<1>7. active' => \E w \in held' : ~IsEmpty(w) /\ w.to = next'
    BY <1>1, <1>2
<1>8. ~(active' /\ iter' # NoIter)
    BY <1>2
<1>9. (IdenticalWithoutLimits /\ AgreesOrFails)'
    BY <1>1 DEF IdenticalWithoutLimits, AgreesOrFails
<1>. QED BY <1>5, <1>6, <1>7, <1>8, <1>9 DEF IndInv

\* FindStringMatch is one Find.
LEMMA FirstMatchKeeps ==
    ASSUME IndInv, NEW r \in Regexp, NEW start \in Starts, FirstMatch(r, start)
    PROVE  IndInv'
<1>1. PICK got \in {Find(r, start)} : Return(Nil, got, got) /\ DisarmOrArm(r, got)
    BY DEF FirstMatch
<1>2. got \in OnSubject \cup {Nil, HitLimit} /\ UNCHANGED <<expr, pat, version>>
    BY <1>1, FindFinds DEF FirstMatch, IndInv
<1>. QED BY <1>1, <1>2, SearchedKeeps

\* So is FindNextMatch on every deviation.
LEMMA NextSearchedKeeps ==
    ASSUME IndInv, NEW r \in Regexp, NEW m \in held, NextSearched(r, m)
    PROVE  IndInv'
<1>1. PICK got \in {Find(r, NextStart(r, m))} : Return(m, got, got) /\ DisarmOrArm(r, got)
    BY DEF NextSearched
<1>2. got \in OnSubject \cup {Nil, HitLimit} /\ UNCHANGED <<expr, pat, version>>
    BY <1>1, FindNextFinds DEF NextSearched, IndInv, Typed
<1>. QED BY <1>1, <1>2, SearchedKeeps

\* After an empty match at the end there is nothing to find, and no iterator
\* stands there.
LEMMA NextNoneKeeps ==
    ASSUME IndInv, NEW r \in Regexp, NEW m \in held, NextNone(r, m)
    PROVE  IndInv' /\ last'.got = last'.want
<1>1. /\ IsEmpty(m) /\ m.to >= End /\ Return(m, Nil, Find(r, NextStart(r, m)))
      /\ UNCHANGED <<expr, pat, version, active, next, iter>>
    BY DEF NextNone, ms
<1>2. Typed /\ m \in OnSubject
    BY DEF IndInv, Typed
<1>3. Find(r, NextStart(r, m)) = Nil
    BY <1>1, <1>2, OnSubjectShape DEF NextStart, Find
<1>4. last'.got = Nil /\ last'.want = Nil /\ held' = held
    BY <1>1, <1>3, ResultCodes DEF Return
<1>5. Typed'
    BY <1>1, <1>2, <1>4, SubjectKept DEF Typed
<1>6. (active /\ iter # NoIter => InStep) => (active' /\ iter' # NoIter => InStep')
    BY <1>1 DEF InStep, Open
<1>7. (IdenticalWithoutLimits /\ AgreesOrFails)'
    BY <1>4 DEF IdenticalWithoutLimits, AgreesOrFails
<1>8. active' => \E w \in held' : ~IsEmpty(w) /\ w.to = next'
    BY <1>1, <1>4 DEF IndInv
<1>9. Failed(last'.got) => ~active'
    BY <1>4, ResultCodes
<1>. QED BY <1>4, <1>5, <1>6, <1>7, <1>8, <1>9 DEF IndInv

\* SetMatchLimits closes the pattern of an iterator, but what that has buffered
\* stays in step.
LEMMA SetMatchLimitsKeeps ==
    ASSUME IndInv, NEW r \in Regexp, SetMatchLimits(r) PROVE IndInv'
<1>1. PICK p \in expr[r] : pat' = [pat EXCEPT ![r] = p]
    BY DEF SetMatchLimits
<1>2. /\ version' = [version EXCEPT ![r] = @ + 1]
      /\ UNCHANGED <<expr, active, next, iter, held, last>>
    BY DEF SetMatchLimits, ms
<1>3. Typed
    BY DEF IndInv
<1>4. /\ DOMAIN pat' = Regexp /\ \A s \in Regexp : pat'[s] \in expr[s]
      /\ version' \in [Regexp -> Nat]
      /\ \A s \in Regexp : version[s] <= version'[s] /\ version'[s] \in Nat
      /\ version'[r] = version[r] + 1
    BY <1>1, <1>2, <1>3 DEF Typed
<1>5. Starts' = Starts /\ OnSubject' = OnSubject
  <2>. DEFINE any == CHOOSE s \in Regexp : TRUE
  <2>1. any \in Regexp
      BY CompatIterAssumption
  <2>2. pat[any] \in expr[any] /\ pat'[any] \in expr[any]
      BY <1>3, <1>4, <2>1 DEF Typed
  <2>3. DOMAIN pat[any].try = DOMAIN pat'[any].try
      BY <1>3, <2>1, <2>2 DEF Typed, IsExpression
  <2>. QED BY <2>3 DEF Starts, OnSubject, MatchesFrom
<1>6. IterStates' = IterStates
    BY <1>5 DEF IterStates
<1>7. Typed'
    BY <1>2, <1>3, <1>4, <1>5, <1>6 DEF Typed, IsExpression
<1>8. ASSUME active, iter # NoIter PROVE InStep'
  <2>1. iter \in IterStates /\ InStep
      BY <1>8 DEF IndInv, Typed
  <2>2. iter.re \in Regexp /\ iter.v \in Nat
      BY <2>1 DEF IterStates
  <2>3. PICK q \in expr[iter.re] : (Open(iter) => q = pat[iter.re]) /\ Follows(iter, q, next)
      BY <2>1 DEF InStep
  <2>4. iter.v <= version[iter.re] /\ version[iter.re] \in Nat
      BY <1>3, <2>1, <2>2 DEF InStep, Typed
  <2>5. iter.v <= version'[iter.re]
      BY <1>4, <2>2, <2>4
  <2>6. iter.v = version'[iter.re] => q = pat'[iter.re]
    <3>1. CASE iter.re = r
        BY <1>4, <2>2, <2>4, <3>1
    <3>2. CASE iter.re # r
        BY <1>1, <1>2, <1>3, <2>2, <2>3, <3>2 DEF Typed, Open
    <3>. QED BY <3>1, <3>2
  <2>. QED BY <1>2, <2>1, <2>3, <2>5, <2>6 DEF InStep, Open
<1>9. ~(\A s \in Regexp : version'[s] = 0)
  <2>1. version'[r] = version[r] + 1 /\ version[r] \in Nat
      BY <1>3, <1>4 DEF Typed
  <2>. QED BY <2>1
<1>10. OneBatched => (IdenticalWithoutLimits /\ AgreesOrFails)'
    BY <1>2, <1>9 DEF IndInv, IdenticalWithoutLimits, AgreesOrFails
<1>. QED BY <1>2, <1>7, <1>8, <1>10 DEF IndInv

\* The iterator that a call is served from, armed now or before.
LEMMA ServedFrom ==
    ASSUME IndInv, NEW r \in Regexp, NEW m \in held, NextServed(r, m),
           NEW it, it = IF iter = NoIter THEN NewIter(r, next) ELSE iter
    PROVE  /\ it \in IterStates /\ it.err = Nil /\ it.v <= version[it.re]
           /\ r \notin Lookbehind /\ ~IsEmpty(m) /\ m.to = next
           /\ \E q \in expr[it.re] : (Open(it) => q = pat[it.re]) /\ Follows(it, q, next)
<1>1. Typed /\ Served(r, m)
    BY DEF IndInv, NextServed
<1>2. r \notin Lookbehind /\ ~IsEmpty(m) /\ m.to = next /\ active
    BY <1>1 DEF Served
<1>3. CASE iter = NoIter
  <2>1. it = [re |-> r, v |-> version[r], pos |-> next, opts |-> {}, chunk |-> <<>>,
              err |-> Nil, done |-> FALSE]
      BY <1>3 DEF NewIter
  <2>2. version[r] \in Nat /\ next \in Starts /\ pat[r] \in expr[r] /\ {} \in NextOpts
      BY <1>1 DEF Typed, NextOpts
  <2>3. it \in IterStates
    <3>. DEFINE buffers == Seq(OnSubject)
                flags == BOOLEAN
                empty == <<>>
                no == FALSE
    <3>1. empty \in buffers /\ no \in flags
        OBVIOUS
    <3>2. IterStates = [re : Regexp \ Lookbehind, v : Nat, pos : Starts, opts : NextOpts,
                        chunk : buffers, err : {Nil, HitLimit, ErrClosed}, done : flags]
        BY DEF IterStates
    <3>3. it = [re |-> r, v |-> version[r], pos |-> next, opts |-> {}, chunk |-> empty,
                err |-> Nil, done |-> no]
        BY <2>1
    <3>. HIDE DEF buffers, flags, empty, no
    <3>. QED BY <1>2, <2>2, <3>1, <3>2, <3>3
  <2>4. Follows(it, pat[r], next)
    <3>1. IsPattern(pat[r]) /\ Boundaries(pat[r]) = Starts
        BY <1>1, <2>2, OneSubject
    <3>2. FullScan(pat[r], next, {}).matches \in Seq(MatchesFrom(pat[r], 0))
        BY <2>2, <3>1, FullIsState
    <3>3. <<>> \o FullScan(pat[r], next, {}).matches = FullScan(pat[r], next, {}).matches
        BY <3>2
    <3>4. it.done = FALSE /\ it.chunk = <<>> /\ it.pos = next /\ it.opts = {}
        BY <2>1
    <3>. QED BY <3>3, <3>4 DEF Follows
  <2>5. it.err = Nil /\ it.re = r /\ it.v = version[r]
      BY <2>1
  <2>. QED BY <1>2, <2>2, <2>3, <2>4, <2>5
<1>4. CASE iter # NoIter
  <2>1. InStep /\ it = iter /\ iter \in IterStates
      BY <1>1, <1>2, <1>4 DEF IndInv, Typed
  <2>. QED BY <1>2, <2>1 DEF InStep
<1>. QED BY <1>3, <1>4

\* The full scan gives what its first search gives.
Begun(found, full) ==
    \/ found \in OnSubject /\ full.matches # <<>> /\ Head(full.matches) = found
    \/ found = Nil /\ full.matches = <<>> /\ full.status = "end"
    \/ found = HitLimit /\ full.matches = <<>> /\ full.status = "matchlimit"

\* Whatever the first search gives.
LEMMA FullBegins ==
    ASSUME Typed, NEW r \in Regexp, NEW q \in expr[r], NEW start \in Starts
    PROVE  Begun(Search(q, start, {}), FullScan(q, start, {}))
<1>. DEFINE found == Search(q, start, {})
            n == NextCursor(q, found, start)
            full == FullScan(q, start, {})
<1>1. IsPattern(q) /\ Boundaries(q) = Starts /\ MatchesFrom(q, 0) = OnSubject
    BY OneSubject
<1>2. BeginsWith(q, start, {}, found, n)
    BY <1>1, FullByFirstSearch
<1>3. found \in OnSubject \cup {NoMatch, HitLimit}
    BY <1>1, SearchFinds, MatchesGrow DEF Results
<1>4. ASSUME full = Glue(<<found>>, FullScan(q, n.pos, n.opts)), n.pos \in Boundaries(q),
             found.rc = "match"
      PROVE  found \in OnSubject /\ full.matches # <<>> /\ Head(full.matches) = found
  <2>1. found \in OnSubject
      BY <1>3, <1>4, ResultCodes DEF Nil
  <2>2. FullScan(q, n.pos, n.opts).matches \in Seq(OnSubject)
      BY <1>1, <1>4, FullIsState
  <2>. DEFINE rest == FullScan(q, n.pos, n.opts)
  <2>. HIDE DEF found, rest
  <2>3. <<found>> \o rest.matches # <<>> /\ Head(<<found>> \o rest.matches) = found
      BY <2>1, <2>2 DEF rest
  <2>4. full.matches = <<found>> \o rest.matches
      BY <1>4 DEF Glue, rest
  <2>. QED BY <2>1, <2>3, <2>4
<1>5. ASSUME full.matches = <<found>>, found.rc = "match"
      PROVE  found \in OnSubject /\ full.matches # <<>> /\ Head(full.matches) = found
  <2>1. found \in OnSubject
      BY <1>3, <1>5, ResultCodes DEF Nil
  <2>. HIDE DEF found, full
  <2>2. <<found>> # <<>> /\ Head(<<found>>) = found
      OBVIOUS
  <2>. QED BY <1>5, <2>1, <2>2
<1>6. /\ found.rc = "nomatch" => found = Nil
      /\ found.rc = "matchlimit" => found = HitLimit
    BY <1>3, ResultCodes DEF Nil, HitLimit, NoMatch
<1>7. Begun(found, full)
  <2>. HIDE DEF found, n, full
  <2>. QED BY <1>2, <1>4, <1>5, <1>6 DEF BeginsWith, Begun, full
<1>. QED BY <1>7

\* A call served from the iterator: its result against that of one Find, and
\* the iterator it leaves.
LEMMA NextServedKeeps ==
    ASSUME IndInv, NEW r \in Regexp, NEW m \in held, NextServed(r, m)
    PROVE  IndInv'
<1>. DEFINE it == IF iter = NoIter THEN NewIter(r, next) ELSE iter
            a == Advance(it)
            want == Find(r, NextStart(r, m))
            armed == a.result.rc = "match" /\ ~IsEmpty(a.result)
<1>1. /\ Serve(a) /\ Return(m, a.result, want) /\ UNCHANGED <<expr, pat, version>>
    BY DEF NextServed
<1>2. Typed /\ next \in Starts /\ m \in OnSubject
    BY DEF IndInv, Typed
<1>3. PICK q \in expr[it.re] :
        /\ it \in IterStates /\ it.err = Nil /\ it.v <= version[it.re]
        /\ r \notin Lookbehind /\ ~IsEmpty(m) /\ m.to = next
        /\ Open(it) => q = pat[it.re]
        /\ Follows(it, q, next)
    BY ServedFrom
<1>4. Serves(a, it, q, next)
    BY <1>2, <1>3, AdvanceServes
<1>5. want = Search(pat[r], next, {}) /\ want \in OnSubject \cup {Nil, HitLimit}
  <2>1. NextStart(r, m) = next
      BY <1>3 DEF NextStart
  <2>. QED BY <1>2, <2>1, FindFinds
<1>6. /\ iter' = a.it /\ active' = armed
      /\ next' = IF armed THEN a.result.to ELSE next
    BY <1>1 DEF Serve
<1>7. /\ last'.got = a.result /\ last'.want = want
      /\ held' = IF a.result.rc = "match" THEN held \cup {a.result} ELSE held
    BY <1>1 DEF Return
<1>8. /\ a.it \in IterStates /\ a.it.re = it.re /\ a.it.v = it.v
      /\ a.result \in OnSubject \cup {Nil, ErrClosed, HitLimit}
      /\ a.result.rc = "match" => /\ a.result \in OnSubject /\ a.it.err = Nil
                                  /\ ~IsEmpty(a.result) => Follows(a.it, q, a.result.to)
    BY <1>4, ResultCodes DEF Serves
<1>. HIDE DEF it, a, want
<1>9. Typed'
  <2>1. next' \in Starts
      BY <1>2, <1>6, <1>8, OnSubjectShape
  <2>2. active' \in BOOLEAN /\ iter' \in IterStates /\ held' \subseteq OnSubject
      BY <1>2, <1>6, <1>7, <1>8 DEF Typed
  <2>. QED BY <1>1, <1>2, <2>1, <2>2, SubjectKept
<1>10. Failed(last'.got) => ~active'
    BY <1>6, <1>7 DEF Failed
<1>11. active' => \E w \in held' : ~IsEmpty(w) /\ w.to = next'
    BY <1>6, <1>7
<1>12. ASSUME active' PROVE InStep'
  <2>1. armed /\ next' = a.result.to /\ iter' = a.it
      BY <1>6, <1>12
  <2>2. a.it.err = Nil /\ Follows(a.it, q, next')
      BY <1>8, <2>1
  <2>3. q \in expr'[iter'.re] /\ iter'.v <= version'[iter'.re]
      BY <1>1, <1>3, <1>8, <2>1
  <2>4. iter'.v = version'[iter'.re] => q = pat'[iter'.re]
      BY <1>1, <1>3, <1>8, <2>1 DEF Open
  <2>. QED BY <2>1, <2>2, <2>3, <2>4 DEF InStep, Open
<1>13. ASSUME OneBatched PROVE (IdenticalWithoutLimits /\ AgreesOrFails)'
  <2>. DEFINE p == pat[r]
              found == Search(q, next, {})
              full == FullScan(q, next, {})
  <2>1. it.re = r
      BY <1>3, <1>13 DEF OneBatched, IterStates
  <2>2. /\ p \in expr[r] /\ q \in expr[r] /\ version[r] \in Nat /\ it.v \in Nat
      BY <1>2, <1>3, <2>1 DEF Typed, IterStates
  <2>3. /\ IsPattern(p) /\ IsPattern(q) /\ Boundaries(p) = Starts /\ Boundaries(q) = Starts
        /\ SameWays(p, q) /\ SameWays(q, p) /\ MatchesFrom(q, 0) = OnSubject
      BY <1>2, <2>2, OneSubject
  <2>4. want = found \/ want = HitLimit \/ found = HitLimit
      BY <1>2, <1>5, <2>3, SearchAgrees
  <2>5. Begun(found, full)
      BY <1>2, <1>3, FullBegins DEF IterStates
  <2>6. \/ a.result = found /\ ~Failed(found)
        \/ a.result = ErrClosed /\ ~Open(it)
        \/ a.result = HitLimit /\ full.status = "matchlimit"
      BY <1>4, <2>5, ResultCodes DEF Serves, Begun
  <2>7. ~Failed(a.result) => a.result = found /\ ~Failed(found)
      BY <2>6, ResultCodes
  <2>8. (\A s \in Regexp : version[s] = 0) => Open(it) /\ q = p
    <3>1. ASSUME version[r] = 0 PROVE Open(it)
        BY <1>3, <2>1, <2>2, <3>1 DEF Open
    <3>. QED BY <1>3, <2>1, <3>1
  <2>9. AgreesOrFails'
    <3>1. ~Failed(a.result) /\ ~Failed(want) => a.result = want
        BY <2>4, <2>7, ResultCodes
    <3>2. ASSUME Failed(want), \A s \in Regexp : version[s] = 0 PROVE Failed(a.result)
      <4>1. want = found
          BY <1>5, <2>8, <3>2
      <4>. QED BY <2>7, <3>2, <4>1
    <3>. QED BY <1>1, <1>7, <3>1, <3>2 DEF AgreesOrFails
  <2>10. IdenticalWithoutLimits'
    <3>1. SUFFICES ASSUME \A s \in Regexp : version[s] = 0,
                          \A s \in Starts : HitLimit \notin ToSet(p.try[s])
                   PROVE  a.result = want
      <4>1. Starts' = Starts
          BY <1>1 DEF Starts
      <4>. QED BY <1>1, <1>7, <4>1 DEF IdenticalWithoutLimits
    <3>2. want = found /\ q = p /\ Open(it)
        BY <1>5, <2>8, <3>1
    <3>3. full.status = "end"
      <4>1. \A s \in Boundaries(p), w \in Boundaries(p) : \A o : MatchAt(p, s, w, o) # HitLimit
          BY <2>3, <3>1, NoLimitAtStart
      <4>. QED BY <1>2, <2>3, <3>2, <4>1, NoLimitNoError
    <3>. HIDE DEF found
    <3>. QED BY <2>6, <3>2, <3>3
  <2>. QED BY <2>9, <2>10
<1>. QED BY <1>9, <1>10, <1>11, <1>12, <1>13 DEF IndInv

\* A step without the bound on the number of calls.
AnyCall ==
    \E r \in Regexp :
        \/ SetMatchLimits(r)
        \/ \E start \in Starts : FirstMatch(r, start)
        \/ \E m \in held : NextNone(r, m) \/ NextServed(r, m) \/ NextSearched(r, m)

\* Every call keeps the invariant.
LEMMA AnyCallKeeps ==
    ASSUME IndInv, [AnyCall]_vars PROVE IndInv'
<1>1. CASE UNCHANGED vars
  <2>1. /\ UNCHANGED <<expr, pat, version, active, next, iter, held, calls, last>>
        /\ Starts' = Starts /\ OnSubject' = OnSubject
      BY <1>1 DEF vars, ms, Starts, OnSubject
  <2>2. Typed'
      BY <2>1, SubjectKept DEF IndInv, Typed
  <2>3. InStep => InStep'
      BY <2>1 DEF InStep, Open
  <2>4. IdenticalWithoutLimits /\ AgreesOrFails => (IdenticalWithoutLimits /\ AgreesOrFails)'
      BY <2>1 DEF IdenticalWithoutLimits, AgreesOrFails
  <2>. QED BY <2>1, <2>2, <2>3, <2>4 DEF IndInv
<1>2. CASE AnyCall
    BY <1>2, SetMatchLimitsKeeps, FirstMatchKeeps, NextNoneKeeps, NextServedKeeps,
       NextSearchedKeeps DEF AnyCall
<1>. QED BY <1>1, <1>2

\* The bound plays no part.
LEMMA NextIsAnyCall == [Next]_vars => [AnyCall]_vars
BY DEF Next, AnyCall

\* The invariant holds in every state of every behaviour.
LEMMA IndInvHolds == Spec => []IndInv
<1>. QED BY InitHolds, NextIsAnyCall, AnyCallKeeps, PTL DEF Spec

------------------------------------------------------------------------------
(* The theorems on CompatIter.                                             *)

\* What the invariant says of the properties.
LEMMA IndInvImplies ==
    IndInv => IterInStep /\ (OneBatched => IdenticalWithoutLimits /\ AgreesOrFails)
<1>1. ASSUME IndInv, active, iter # NoIter
      PROVE  /\ Open(iter) => IsPrefix(iter.chunk, FullScan(pat[iter.re], next, {}).matches)
             /\ iter.err = Nil
             /\ \E m \in held : ~IsEmpty(m) /\ m.to = next
  <2>1. Typed /\ InStep /\ iter \in IterStates
      BY <1>1 DEF IndInv, Typed
  <2>2. PICK q \in expr[iter.re] : (Open(iter) => q = pat[iter.re]) /\ Follows(iter, q, next)
      BY <2>1 DEF InStep
  <2>. DEFINE full == FullScan(q, next, {})
              rest == FullScan(q, iter.pos, iter.opts)
  <2>3. /\ iter.re \in Regexp /\ iter.pos \in Starts /\ iter.chunk \in Seq(OnSubject)
        /\ iter.done \in BOOLEAN
      BY <2>1 DEF IterStates
  <2>4. IsPattern(q) /\ Boundaries(q) = Starts /\ MatchesFrom(q, 0) = OnSubject
      BY <2>1, <2>3, OneSubject
  <2>5. rest.matches \in Seq(OnSubject)
      BY <2>3, <2>4, FullIsState
  <2>6. IF iter.done THEN full.matches = iter.chunk ELSE full.matches = iter.chunk \o rest.matches
      BY <2>2 DEF Follows
  <2>7. IsPrefix(iter.chunk, full.matches)
    <3>. HIDE DEF full, rest
    <3>1. CASE iter.done
        BY <2>3, <2>6, <3>1 DEF IsPrefix
    <3>2. CASE ~iter.done
        BY <2>3, <2>5, <2>6, <3>2, PrefixOfConcat
    <3>. QED BY <3>1, <3>2
  <2>. QED BY <1>1, <2>1, <2>2, <2>7 DEF IndInv, InStep
<1>. QED BY <1>1 DEF IterInStep, IndInv

\* The buffered matches are those that follow the last match served, whatever
\* the order of the calls and of the calls of SetMatchLimits between them.
THEOREM InStepAlways == Spec => []IterInStep
<1>. QED BY IndInvImplies, IndInvHolds, PTL

\* Without match limits and SetMatchLimits, FindNextMatch returns what one Find
\* returns: the promise of findCore, for the matches of at most one Regexp
\* that is served from iterators.
THEOREM Identical ==
    ASSUME OneBatched
    PROVE  Spec => []IdenticalWithoutLimits
<1>1. IndInv => IdenticalWithoutLimits
    BY IndInvImplies
<1>. QED BY <1>1, IndInvHolds, PTL

\* With them, it returns that or an error: it never skips a match, invents one
\* or ends the iteration early.
THEOREM AgreesOrReports ==
    ASSUME OneBatched
    PROVE  Spec => []AgreesOrFails
<1>1. IndInv => AgreesOrFails
    BY IndInvImplies
<1>. QED BY <1>1, IndInvHolds, PTL

\* After an error the next call is one Find.
LEMMA AnyCallAfterError ==
    ASSUME IndInv, [AnyCall]_vars
    PROVE  [Failed(last.got) => last'.got = last'.want]_calls
<1>1. SUFFICES ASSUME Failed(last.got), calls' # calls, AnyCall
               PROVE  last'.got = last'.want
    BY DEF vars
<1>2. ~active
    BY <1>1 DEF IndInv
<1>3. PICK r \in Regexp : \/ \E start \in Starts : FirstMatch(r, start)
                          \/ \E m \in held : NextNone(r, m) \/ NextSearched(r, m)
    BY <1>1, <1>2 DEF AnyCall, SetMatchLimits, NextServed, Served
<1>4. CASE \E start \in Starts : FirstMatch(r, start)
    BY <1>4 DEF FirstMatch, Return
<1>5. CASE \E m \in held : NextNone(r, m)
    BY <1>5, NextNoneKeeps
<1>6. CASE \E m \in held : NextSearched(r, m)
    BY <1>6 DEF NextSearched, Return
<1>. QED BY <1>3, <1>4, <1>5, <1>6

\* The call after an error is not served from an iterator.
THEOREM ErrorsPass == Spec => ErrorsDoNotStick
<1>1. IndInv /\ [Next]_vars => [Failed(last.got) => last'.got = last'.want]_calls
    BY NextIsAnyCall, AnyCallAfterError
<1>. QED BY <1>1, IndInvHolds, PTL DEF ErrorsDoNotStick, Spec

------------------------------------------------------------------------------
(* Replace: the inductive invariant.                                       *)


\* The matches, wherever they lie.
MatchShapes == [rc : {"match"}, from : Nat, to : Nat]

\* What a result is made of.
Pieces == [rune : Nat] \cup [eval : MatchShapes]

\* A replace that goes on.
Jobs == [status : {"running"}, re : Regexp, start : Starts, limit : Int, count : Int,
         prevat : Nat, out : Seq(Pieces), cur : MatchShapes \cup {Nil}]

\* The matches in the pieces are those of one search with q after the other.
InSequence(pieces, q, start) ==
    \A i \in Evaluated(pieces, Len(pieces)) :
        pieces[i].eval = Following(q, start, pieces, i - 1)

\* count is what is left of limit; a negative limit never gets to 0.
Counting(d) ==
    /\ Cardinality(Evaluated(d.out, Len(d.out))) = d.limit - d.count
    /\ d.count > 0 \/ (d.limit < 0 /\ d.count < 0)

\* The call d, seen by the pattern q: m is what follows, or it is done.
Expects(d, q, m) ==
    InSequence(d.out, q, d.start) /\ Following(q, d.start, d.out, Len(d.out)) = m

\* The matches of d are all that q has, or as many as the count allows.
LikeReference(d, q) ==
    /\ InSequence(d.out, q, d.start)
    /\ LET n == Cardinality(Evaluated(d.out, Len(d.out)))
       IN  \/ n = d.limit
           \/ Expects(d, q, Nil) /\ (d.limit < 0 \/ n < d.limit)

\* The matches of d, when those of a second Regexp do not get in between.
Sequential(d) ==
    \A q \in expr[d.re] : NoLimit(q) =>
        /\ d.status = "done" => LikeReference(d, q)
        /\ d.status = "running" => Counting(d) /\ Expects(d, q, After(q, d.cur))

\* The caller holding the matches h, d goes on from one of them, and what it has
\* is the text up to there.
Placed(d, h) ==
    /\ d.status # "panic"
    /\ d.status = "done" => Tile(d.out, RuneCount)
    /\ d.status = "running" => /\ d \in Jobs /\ Tile(d.out, d.prevat)
                               /\ d.cur \in h /\ d.prevat = ByteToRune(d.cur.to)

Settled(d, h) == Placed(d, h) /\ (OneBatched => Sequential(d))

\* The inductive invariant, on top of the one of CompatIter.
RepInv == IndInv /\ Starts \in DOMAIN Strings /\ Settled(rep, held)

------------------------------------------------------------------------------
(* Offsets and runes.                                                      *)

\* Rank counts in order, and each boundary once.
LEMMA RankCounts ==
    ASSUME NEW S \in SUBSET Nat, IsFiniteSet(S)
    PROVE  /\ \A b \in Nat : Rank(S, b) \in Nat /\ Rank(S, b) <= Cardinality(S)
           /\ \A a, b \in Nat : a <= b => Rank(S, a) <= Rank(S, b)
           /\ \A a \in S, b \in Nat : a < b => Rank(S, a) < Rank(S, b)
           /\ \A a \in S : Rank(S, a) < Cardinality(S)
<1>. DEFINE below(b) == {s \in S : s < b}
<1>0. (\A s \in S : s \in Nat) /\ \A b : below(b) \in SUBSET S
    OBVIOUS
<1>1. \A b : IsFiniteSet(below(b)) /\ Rank(S, b) \in Nat /\ Rank(S, b) = Cardinality(below(b))
    BY FS_Subset, FS_CardinalityType DEF Rank
<1>2. Cardinality(S) \in Nat
    BY FS_CardinalityType
<1>3. ASSUME NEW b \in Nat PROVE Rank(S, b) <= Cardinality(S)
  <2>. HIDE DEF below
  <2>. QED BY <1>0, <1>1, FS_Subset
<1>4. ASSUME NEW a \in Nat, NEW b \in Nat, a <= b PROVE Rank(S, a) <= Rank(S, b)
  <2>1. \A s \in S : s < a => s < b
      BY <1>0, <1>4
  <2>2. below(a) \in SUBSET below(b)
      BY <2>1
  <2>. HIDE DEF below
  <2>. QED BY <1>1, <2>2, FS_Subset
<1>5. ASSUME NEW a \in S, NEW T \in SUBSET S, below(a) \subseteq T, a \in T, IsFiniteSet(T)
      PROVE  Rank(S, a) < Cardinality(T)
  <2>1. a \notin below(a)
      OBVIOUS
  <2>. HIDE DEF below
  <2>2. Cardinality(below(a) \cup {a}) = Cardinality(below(a)) + 1
      BY <1>1, <2>1, FS_AddElement
  <2>3. Cardinality(below(a) \cup {a}) <= Cardinality(T)
      BY <1>5, FS_Subset
  <2>4. Cardinality(T) \in Nat
      BY <1>5, FS_CardinalityType
  <2>. QED BY <1>1, <2>2, <2>3, <2>4
<1>6. ASSUME NEW a \in S, NEW b \in Nat, a < b PROVE Rank(S, a) < Rank(S, b)
  <2>1. a \in Nat /\ \A s \in S : s < a => s < b
      BY <1>0, <1>6
  <2>2. below(a) \subseteq below(b) /\ a \in below(b) /\ below(b) \subseteq S
      BY <1>6, <2>1
  <2>. HIDE DEF below
  <2>. QED BY <1>1, <1>5, <2>2
<1>7. ASSUME NEW a \in S PROVE Rank(S, a) < Cardinality(S)
    BY <1>5
<1>. HIDE DEF below
<1>. QED BY <1>1, <1>2, <1>3, <1>4, <1>6, <1>7

\* There is a boundary of each rank.
LEMMA RankFills ==
    ASSUME NEW S \in SUBSET Nat, IsFiniteSet(S), NEW k \in Nat, k < Cardinality(S)
    PROVE  \E s \in S : Rank(S, s) = k
<1>. DEFINE n == Cardinality(S)
            ranks == 0 .. n - 1
            rank == [s \in S |-> Rank(S, s)]
<1>1. n \in Nat /\ \A s \in S : Rank(S, s) \in ranks
  <2>1. n \in Nat
      BY FS_CardinalityType
  <2>2. \A s \in S : Rank(S, s) \in Nat /\ Rank(S, s) < n
      BY RankCounts
  <2>. HIDE DEF n
  <2>. QED BY <2>1, <2>2
<1>2. rank \in Injection(S, ranks)
  <2>1. rank \in [S -> ranks]
      BY <1>1
  <2>2. ASSUME NEW s \in S, NEW t \in S, rank[s] = rank[t] PROVE s = t
    <3>1. Rank(S, s) = Rank(S, t) /\ s \in Nat /\ t \in Nat
        BY <2>2
    <3>2. ~(s < t) /\ ~(t < s)
        BY <3>1, RankCounts
    <3>. QED BY <3>1, <3>2
  <2>. QED BY <2>1, <2>2 DEF Injection, IsInjective
<1>3. IsFiniteSet(ranks) /\ Cardinality(ranks) = n
  <2>. HIDE DEF n
  <2>1. /\ IsFiniteSet(0 .. n - 1)
        /\ Cardinality(0 .. n - 1) = IF 0 > n - 1 THEN 0 ELSE n - 1 - 0 + 1
      BY <1>1, FS_Interval
  <2>. QED BY <1>1, <2>1
<1>4. rank \in Surjection(S, ranks)
    BY <1>2, <1>3, FS_Injection
<1>5. k \in ranks
  <2>. HIDE DEF n
  <2>. QED BY <1>1 DEF n
<1>. QED BY <1>4, <1>5 DEF Surjection

\* The boundaries of the subject.
LEMMA StartsCount ==
    ASSUME Typed
    PROVE  /\ Starts \subseteq Nat /\ IsFiniteSet(Starts) /\ 0 \in Starts /\ RuneCount \in Nat
           /\ \A b \in Starts : ByteToRune(b) \in Nat /\ ByteToRune(b) <= RuneCount
           /\ \A a, b \in Starts : a <= b => ByteToRune(a) <= ByteToRune(b)
<1>. DEFINE p == pat[CHOOSE r \in Regexp : TRUE]
<1>1. IsPattern(p) /\ Boundaries(p) = Starts
  <2>1. p \in expr[CHOOSE r \in Regexp : TRUE] /\ (CHOOSE r \in Regexp : TRUE) \in Regexp
      BY CompatIterAssumption DEF Typed
  <2>. QED BY <2>1, OneSubject
<1>2. Starts \subseteq Nat /\ 0 \in Starts
    BY <1>1 DEF IsPattern, Boundaries
<1>3. PICK end \in Starts : \A b \in Starts : b <= end
    BY <1>1 DEF IsPattern, Boundaries
<1>4. IsFiniteSet(Starts)
    BY <1>2, <1>3, FS_BoundedSetOfNaturals
<1>5. Cardinality(Starts) \in Nat /\ \A b \in Starts : Rank(Starts, b) \in Nat /\ Rank(Starts, b) < Cardinality(Starts)
    BY <1>2, <1>4, FS_CardinalityType, RankCounts
<1>6. RuneCount \in Nat /\ \A b \in Starts : Rank(Starts, b) <= RuneCount
    BY <1>2, <1>5 DEF RuneCount
<1>. QED BY <1>2, <1>4, <1>5, <1>6, RankCounts DEF ByteToRune

\* alignByteStart: a boundary of the string is one of the subject.
LEMMA AlignedIsStart ==
    ASSUME Typed, Starts \in DOMAIN Strings, NEW o \in Strings[Starts], NEW startAt,
           Aligned(o, startAt)
    PROVE  AlignByteStart(o, startAt) \in Starts
<1>1. Starts \subseteq Nat /\ IsFiniteSet(Starts) /\ 0 \in Starts
    BY StartsCount
<1>2. CASE startAt < 0
    BY <1>1, <1>2 DEF AlignByteStart
<1>3. CASE ~(startAt < 0)
  <2>1. startAt \in o /\ o \subseteq Nat /\ IsFiniteSet(o) /\ Cardinality(o) = Cardinality(Starts)
      BY <1>3, ReplaceAssumption DEF Aligned
  <2>2. Rank(o, startAt) \in Nat /\ Rank(o, startAt) < Cardinality(Starts)
      BY <2>1, RankCounts
  <2>3. \E s \in Starts : Rank(Starts, s) = Rank(o, startAt)
      BY <1>1, <2>2, RankFills
  <2>. QED BY <1>3, <2>3 DEF AlignByteStart
<1>. QED BY <1>2, <1>3

------------------------------------------------------------------------------
(* The pieces of the result.                                               *)

\* The pieces of two results, one after the other.
LEMMA Joined ==
    ASSUME NEW out \in Seq(Pieces), NEW more \in Seq(Pieces), NEW both, both = out \o more
    PROVE  /\ both \in Seq(Pieces)
           /\ Len(out) \in Nat /\ Len(more) \in Nat /\ Len(both) = Len(out) + Len(more)
           /\ \A i \in 1..Len(out) : both[i] = out[i]
           /\ \A i \in 1..Len(more) : both[Len(out) + i] = more[i]
<1>. DEFINE n == Len(out)
            k == Len(more)
<1>1. \A i \in 1 .. n + k : both[i] = IF i <= n THEN out[i] ELSE more[i - n]
    OBVIOUS
<1>2. n \in Nat /\ k \in Nat /\ both \in Seq(Pieces) /\ Len(both) = n + k
    OBVIOUS
<1>3. /\ \A i \in 1..n : both[i] = out[i]
      /\ \A i \in 1..k : both[n + i] = more[i]
  <2>. HIDE DEF n, k
  <2>. QED BY <1>1, <1>2
<1>. QED BY <1>2, <1>3

\* Pieces that go on where the others end tile the text with them.
LEMMA TilesJoin ==
    ASSUME NEW out \in Seq(Pieces), NEW more \in Seq(Pieces), more # <<>>,
           Tile(out, From(more[1])),
           \A i \in 1 .. Len(more) - 1 : From(more[i + 1]) = Upto(more[i])
    PROVE  out \o more \in Seq(Pieces) /\ Tile(out \o more, Upto(more[Len(more)]))
<1>. DEFINE both == out \o more
            n == Len(out)
            k == Len(more)
<1>1. /\ both \in Seq(Pieces) /\ n \in Nat /\ k \in Nat /\ k > 0 /\ Len(both) = n + k
      /\ \A i \in 1..n : both[i] = out[i]
      /\ \A i \in 1..k : both[n + i] = more[i]
  <2>1. k > 0
      OBVIOUS
  <2>. QED BY <2>1, Joined
<1>2. out = <<>> <=> n = 0
    OBVIOUS
<1>3. both # <<>>
    BY <1>1
<1>4. /\ n = 0 => From(more[1]) = 0
      /\ n # 0 => From(out[1]) = 0 /\ Upto(out[n]) = From(more[1])
      /\ \A i \in 1 .. n - 1 : From(out[i + 1]) = Upto(out[i])
    BY <1>2 DEF Tile
<1>. HIDE DEF both, n, k
<1>5. From(both[1]) = 0
  <2>1. CASE n = 0
    <3>1. both[1] = more[1]
        BY <1>1, <2>1
    <3>. QED BY <1>4, <2>1, <3>1
  <2>2. CASE n # 0
      BY <1>1, <1>4, <2>2
  <2>. QED BY <2>1, <2>2
<1>6. Upto(both[Len(both)]) = Upto(more[k])
    BY <1>1
<1>7. ASSUME NEW i \in 1 .. n + k - 1 PROVE From(both[i + 1]) = Upto(both[i])
  <2>1. CASE i < n
      BY <1>1, <1>4, <2>1
  <2>2. CASE i = n
    <3>1. both[n + 1] = more[1] /\ both[n] = out[n] /\ n # 0
        BY <1>1, <2>2
    <3>. QED BY <1>4, <2>2, <3>1
  <2>3. CASE i > n
    <3>1. i - n \in 1 .. k - 1 /\ i - n + 1 \in 1..k
        BY <1>1, <2>3
    <3>2. both[n + (i - n)] = more[i - n] /\ both[n + (i - n + 1)] = more[i - n + 1]
        BY <1>1, <3>1
    <3>3. n + (i - n) = i /\ n + (i - n + 1) = i + 1
        BY <1>1, <2>3
    <3>4. From(more[i - n + 1]) = Upto(more[i - n])
        BY <3>1 DEF k
    <3>. QED BY <3>2, <3>3, <3>4
  <2>. QED BY <1>1, <2>1, <2>2, <2>3
<1>8. Tile(both, Upto(more[k]))
    BY <1>1, <1>3, <1>5, <1>6, <1>7 DEF Tile
<1>. QED BY <1>1, <1>8 DEF both, k

\* What the shape of a piece says.
LEMMA PieceShapes ==
    /\ \A n \in Nat : LET x == [rune |-> n] IN x \in Pieces /\ From(x) = n /\ Upto(x) = n + 1
    /\ \A m \in MatchShapes :
          LET x == [eval |-> m]
          IN  x \in Pieces /\ From(x) = ByteToRune(m.from) /\ Upto(x) = ByteToRune(m.to)
BY DEF Pieces, From, Upto

\* The text from rune a to before rune b.
LEMMA TextShape ==
    ASSUME NEW a \in Nat, NEW b \in Nat, a <= b
    PROVE  /\ Text(a, b) \in Seq(Pieces) /\ Len(Text(a, b)) = b - a /\ b - a \in Nat
           /\ \A i \in 1 .. b - a : /\ "eval" \notin DOMAIN Text(a, b)[i]
                                   /\ From(Text(a, b)[i]) = a + i - 1
                                   /\ Upto(Text(a, b)[i]) = a + i
<1>. DEFINE text == Text(a, b)
<1>1. b - a \in Nat
    OBVIOUS
<1>2. \A i \in 1 .. b - a : text[i] = [rune |-> a + i - 1]
    BY DEF Text
<1>3. ASSUME NEW i \in 1 .. b - a
      PROVE  /\ text[i] \in Pieces /\ "eval" \notin DOMAIN text[i]
             /\ From(text[i]) = a + i - 1 /\ Upto(text[i]) = a + i
  <2>1. a + i - 1 \in Nat /\ a + i - 1 + 1 = a + i
      OBVIOUS
  <2>2. \A n : "eval" \notin DOMAIN [rune |-> n]
      OBVIOUS
  <2>. QED BY <1>2, <2>1, <2>2, PieceShapes
<1>4. text \in Seq(Pieces) /\ Len(text) = b - a
  <2>1. text = [i \in 1 .. b - a |-> text[i]]
      BY DEF Text
  <2>. HIDE DEF text
  <2>. QED BY <1>1, <1>3, <2>1
<1>. HIDE DEF text
<1>. QED BY <1>1, <1>3, <1>4 DEF text

\* Copying text tiles it.
LEMMA TextTiles ==
    ASSUME NEW out \in Seq(Pieces), NEW a \in Nat, NEW b \in Nat, a <= b, Tile(out, a)
    PROVE  out \o Text(a, b) \in Seq(Pieces) /\ Tile(out \o Text(a, b), b)
<1>. DEFINE text == Text(a, b)
<1>1. /\ text \in Seq(Pieces) /\ Len(text) = b - a
      /\ \A i \in 1 .. b - a : From(text[i]) = a + i - 1 /\ Upto(text[i]) = a + i
  <2>1. text \in Seq(Pieces) /\ Len(text) = b - a
      BY TextShape
  <2>2. ASSUME NEW i \in 1 .. b - a PROVE From(text[i]) = a + i - 1 /\ Upto(text[i]) = a + i
      BY TextShape
  <2>. HIDE DEF text
  <2>. QED BY <2>1, <2>2
<1>. HIDE DEF text
<1>2. CASE a = b
  <2>1. text = <<>>
      BY <1>1, <1>2
  <2>2. out \o text = out
      BY <2>1
  <2>. QED BY <1>2, <2>2 DEF text
<1>3. CASE a < b
  <2>1. text # <<>> /\ From(text[1]) = a /\ Upto(text[Len(text)]) = b
      BY <1>1, <1>3
  <2>2. \A i \in 1 .. Len(text) - 1 : From(text[i + 1]) = Upto(text[i])
      BY <1>1
  <2>3. out \o text \in Seq(Pieces) /\ Tile(out \o text, Upto(text[Len(text)]))
      BY <1>1, <2>1, <2>2, TilesJoin
  <2>. QED BY <2>1, <2>3 DEF text
<1>. QED BY <1>2, <1>3

\* A match evaluated stands for the runes it covers.
LEMMA MatchTiles ==
    ASSUME NEW out \in Seq(Pieces), NEW m \in MatchShapes,
           Tile(out, ByteToRune(m.from))
    PROVE  /\ out \o <<[eval |-> m]>> \in Seq(Pieces)
           /\ Tile(out \o <<[eval |-> m]>>, ByteToRune(m.to))
<1>. DEFINE x == [eval |-> m]
            more == <<x>>
<1>1. x \in Pieces /\ From(x) = ByteToRune(m.from) /\ Upto(x) = ByteToRune(m.to)
    BY PieceShapes
<1>. HIDE DEF x
<1>2. more \in Seq(Pieces) /\ more # <<>> /\ Len(more) = 1 /\ more[1] = x
    BY <1>1
<1>. HIDE DEF more
<1>3. out \o more \in Seq(Pieces) /\ Tile(out \o more, Upto(more[Len(more)]))
    BY <1>1, <1>2, TilesJoin
<1>. QED BY <1>1, <1>2, <1>3 DEF more, x

------------------------------------------------------------------------------
(* The matches in the result.                                              *)

\* Matches evaluated among the first n pieces: finitely many, the last of them
\* among them.
LEMMA LastEvaluated ==
    ASSUME NEW pieces, NEW n \in Nat
    PROVE  LET E == Evaluated(pieces, n)
           IN  /\ E \subseteq 1..n /\ IsFiniteSet(E) /\ Cardinality(E) \in Nat
               /\ E # {} => Max(E) \in E /\ \A i \in E : i <= Max(E)
<1>. DEFINE E == Evaluated(pieces, n)
            gaps == {n - i : i \in E}
<1>1. E \subseteq 1..n /\ IsFiniteSet(1..n)
  <2>1. IsFiniteSet(1..n)
      BY FS_Interval
  <2>. QED BY <2>1 DEF Evaluated
<1>. HIDE DEF E
<1>2. IsFiniteSet(E) /\ Cardinality(E) \in Nat
    BY <1>1, FS_Subset, FS_CardinalityType
<1>3. ASSUME E # {} PROVE Max(E) \in E /\ \A i \in E : i <= Max(E)
  <2>1. \A i \in E : i \in Nat /\ n - i \in Nat
      BY <1>1
  <2>2. gaps \in SUBSET Nat /\ gaps # {}
      BY <1>3, <2>1
  <2>3. Min(gaps) \in gaps /\ \A g \in gaps : Min(gaps) <= g
      BY <2>2, MinNat
  <2>4. PICK e \in E : Min(gaps) = n - e
      BY <2>3
  <2>5. \A i \in E : n - e <= n - i
      BY <2>3, <2>4
  <2>. HIDE DEF gaps
  <2>6. \A i \in E : e >= i
      BY <2>1, <2>5
  <2>7. Max(E) \in E /\ \A i \in E : Max(E) >= i
      BY <2>6 DEF Max
  <2>. QED BY <2>1, <2>7
<1>. QED BY <1>1, <1>2, <1>3 DEF E

Alike(a, b, n) == \A i \in 1..n : a[i] = b[i]

\* What the first pieces say does not depend on the rest.
LEMMA FirstPieces ==
    ASSUME NEW a, NEW b, NEW n \in Nat, Alike(a, b, n), NEW q, NEW start
    PROVE  /\ Evaluated(a, n) = Evaluated(b, n)
           /\ Following(q, start, a, n) = Following(q, start, b, n)
<1>. DEFINE E == Evaluated(a, n)
<1>1. Evaluated(b, n) = E
    BY DEF Evaluated, Alike
<1>2. E # {} => a[Max(E)] = b[Max(E)]
    BY LastEvaluated DEF Alike
<1>. HIDE DEF E
<1>. QED BY <1>1, <1>2 DEF Following, E

\* Pieces of text at the end do not count.
LEMMA LastPieces ==
    ASSUME NEW pieces, NEW q, NEW start, NEW n \in Nat, NEW k \in Nat, n <= k,
           \A i \in n + 1 .. k : "eval" \notin DOMAIN pieces[i]
    PROVE  /\ Evaluated(pieces, k) = Evaluated(pieces, n)
           /\ Following(q, start, pieces, k) = Following(q, start, pieces, n)
<1>1. ASSUME NEW i \in 1..k, "eval" \in DOMAIN pieces[i] PROVE i \in 1..n
    BY <1>1
<1>2. 1..n \subseteq 1..k
    OBVIOUS
<1>3. Evaluated(pieces, k) = Evaluated(pieces, n)
    BY <1>1, <1>2 DEF Evaluated
<1>. QED BY <1>3 DEF Following

\* The result out, in sequence, with a text copied to its end.
Copied(copied, out, text, q, start) ==
    /\ copied = out \o text /\ out \in Seq(Pieces) /\ text \in Seq(Pieces)
    /\ \A i \in 1..Len(text) : "eval" \notin DOMAIN text[i]
    /\ InSequence(out, q, start)

\* The matches in copied are those in out.
SameMatches(copied, out, q, start) ==
    /\ copied \in Seq(Pieces) /\ InSequence(copied, q, start)
    /\ Evaluated(copied, Len(copied)) = Evaluated(out, Len(out))
    /\ Following(q, start, copied, Len(copied)) = Following(q, start, out, Len(out))

\* A result in sequence stays so when text is copied.
LEMMA CopyKeepsSequence ==
    ASSUME NEW out, NEW text, NEW copied, NEW q, NEW start, Copied(copied, out, text, q, start)
    PROVE  SameMatches(copied, out, q, start)
<1>. DEFINE n == Len(out)
            k == Len(copied)
<1>0. /\ copied = out \o text /\ out \in Seq(Pieces) /\ text \in Seq(Pieces)
      /\ \A i \in 1..Len(text) : "eval" \notin DOMAIN text[i]
      /\ InSequence(out, q, start)
    BY DEF Copied
<1>1. /\ copied \in Seq(Pieces) /\ n \in Nat /\ Len(text) \in Nat /\ k = n + Len(text)
      /\ \A i \in 1..n : copied[i] = out[i]
      /\ \A i \in 1..Len(text) : copied[n + i] = text[i]
    BY <1>0, Joined
<1>. HIDE DEF n, k
<1>2. ASSUME NEW i \in n + 1 .. k PROVE "eval" \notin DOMAIN copied[i]
  <2>1. i - n \in 1..Len(text) /\ n + (i - n) = i
      BY <1>1
  <2>. QED BY <1>0, <1>1, <2>1
<1>3. /\ Evaluated(copied, k) = Evaluated(copied, n)
      /\ Following(q, start, copied, k) = Following(q, start, copied, n)
  <2>1. n \in Nat /\ k \in Nat /\ n <= k
      BY <1>1
  <2>. QED BY <1>2, <2>1, LastPieces
<1>4. ASSUME NEW j \in 0..n
      PROVE  /\ Evaluated(copied, j) = Evaluated(out, j)
             /\ Following(q, start, copied, j) = Following(q, start, out, j)
  <2>1. j \in Nat /\ 1..j \subseteq 1..n
      BY <1>1
  <2>2. Alike(copied, out, j)
      BY <1>1, <2>1 DEF Alike
  <2>. QED BY <2>1, <2>2, FirstPieces
<1>5. n \in 0..n
    BY <1>1
<1>6. ASSUME NEW i \in Evaluated(copied, k)
      PROVE  copied[i].eval = Following(q, start, copied, i - 1)
  <2>1. i \in Evaluated(out, n) /\ i \in 1..n
      BY <1>1, <1>3, <1>4, <1>5, LastEvaluated
  <2>2. i - 1 \in 0..n
      BY <1>1, <2>1
  <2>. QED BY <1>0, <1>1, <1>4, <2>1, <2>2 DEF InSequence, n
<1>7. InSequence(copied, q, start)
    BY <1>6 DEF InSequence, k
<1>8. /\ Evaluated(copied, k) = Evaluated(out, n)
      /\ Following(q, start, copied, k) = Following(q, start, out, n)
    BY <1>3, <1>4, <1>5
<1>. QED BY <1>1, <1>7, <1>8 DEF SameMatches, n, k

\* The match that was to follow is the next in sequence.
LEMMA EvaluateKeepsSequence ==
    ASSUME NEW out \in Seq(Pieces), NEW m \in MatchShapes, NEW q, NEW start,
           InSequence(out, q, start), Following(q, start, out, Len(out)) = m
    PROVE  LET grown == out \o <<[eval |-> m]>>
           IN  /\ InSequence(grown, q, start)
               /\ Following(q, start, grown, Len(grown)) = After(q, m)
               /\ Cardinality(Evaluated(grown, Len(grown)))
                     = Cardinality(Evaluated(out, Len(out))) + 1
<1>. DEFINE x == [eval |-> m]
            one == <<x>>
            grown == out \o one
            n == Len(out)
            E == Evaluated(grown, n + 1)
<1>1. x.eval = m /\ "eval" \in DOMAIN x /\ x \in Pieces
    BY PieceShapes
<1>. HIDE DEF x
<1>2. one \in Seq(Pieces) /\ Len(one) = 1 /\ one[1] = x
    BY <1>1
<1>. HIDE DEF one
<1>3. /\ n \in Nat /\ Len(grown) = n + 1 /\ grown[n + 1] = x
      /\ \A i \in 1..n : grown[i] = out[i]
  <2>1. grown = out \o one /\ one \in Seq(Pieces)
      BY <1>2
  <2>. HIDE DEF grown
  <2>2. /\ n \in Nat /\ Len(grown) = n + Len(one)
        /\ \A i \in 1..n : grown[i] = out[i]
        /\ \A i \in 1..Len(one) : grown[n + i] = one[i]
      BY <2>1, Joined
  <2>. HIDE DEF n
  <2>. QED BY <1>2, <2>2
<1>. HIDE DEF n, grown
<1>4. ASSUME NEW j \in 0..n
      PROVE  /\ Evaluated(grown, j) = Evaluated(out, j)
             /\ Following(q, start, grown, j) = Following(q, start, out, j)
  <2>1. j \in Nat /\ 1..j \subseteq 1..n
      BY <1>3
  <2>2. Alike(grown, out, j)
      BY <1>3, <2>1 DEF Alike
  <2>. QED BY <2>1, <2>2, FirstPieces
<1>5. n \in 0..n
    BY <1>3
<1>6. E = Evaluated(out, n) \cup {n + 1} /\ n + 1 \notin Evaluated(out, n)
  <2>1. 1 .. n + 1 = 1..n \cup {n + 1}
      BY <1>3
  <2>2. E = Evaluated(grown, n) \cup {n + 1}
      BY <1>1, <1>3, <2>1 DEF Evaluated
  <2>3. n + 1 \notin Evaluated(out, n)
      BY <1>3 DEF Evaluated
  <2>. QED BY <1>4, <1>5, <2>2, <2>3
<1>7. Cardinality(E) = Cardinality(Evaluated(out, n)) + 1
  <2>1. IsFiniteSet(Evaluated(out, n))
      BY <1>3, LastEvaluated
  <2>. HIDE DEF E
  <2>. QED BY <1>6, <2>1, FS_AddElement
<1>8. Following(q, start, grown, n + 1) = After(q, m)
  <2>1. E # {} /\ Max(E) \in E /\ n + 1 <= Max(E) /\ E \subseteq 1 .. n + 1
    <3>1. n + 1 \in E /\ n + 1 \in Nat
        BY <1>3, <1>6
    <3>. QED BY <3>1, LastEvaluated
  <2>2. Max(E) = n + 1
    <3>1. Max(E) \in 1 .. n + 1
        BY <2>1
    <3>. HIDE DEF E
    <3>. QED BY <1>3, <2>1, <3>1
  <2>. QED BY <1>1, <1>3, <2>1, <2>2 DEF Following
<1>9. ASSUME NEW i \in E PROVE grown[i].eval = Following(q, start, grown, i - 1)
  <2>1. CASE i = n + 1
    <3>1. i - 1 = n
        BY <1>3, <2>1
    <3>. QED BY <1>1, <1>3, <1>4, <1>5, <2>1, <3>1 DEF n
  <2>2. CASE i # n + 1
    <3>1. i \in Evaluated(out, n) /\ i \in 1..n
        BY <1>3, <1>6, <1>9, <2>2, LastEvaluated
    <3>2. i - 1 \in 0..n
        BY <1>3, <3>1
    <3>. QED BY <1>3, <1>4, <3>1, <3>2 DEF InSequence, n
  <2>. QED BY <2>1, <2>2
<1>10. InSequence(grown, q, start)
    BY <1>3, <1>9 DEF InSequence
<1>11. /\ Following(q, start, grown, Len(grown)) = After(q, m)
       /\ Cardinality(Evaluated(grown, Len(grown))) = Cardinality(Evaluated(out, n)) + 1
    BY <1>3, <1>7, <1>8
<1>. QED BY <1>10, <1>11 DEF grown, one, x, n

------------------------------------------------------------------------------
(* One round of replace.                                                   *)

\* What is left of the job p after a search.
Proceeds(p, m, d) ==
    \/ d.status = "failed"
    \/ d.status = "done" /\ d.re = p.re /\ Tile(d.out, RuneCount)
    \/ /\ d \in Jobs /\ d.re = p.re /\ Tile(d.out, d.prevat) /\ d.prevat = ByteToRune(m.to)
       /\ d.cur = m /\ m \in OnSubject

\* Given a match that does not begin before the last one ended, replace goes on,
\* is done or fails, and its result stays gapless.
LEMMA TookProceeds ==
    ASSUME Typed, NEW p \in Jobs, Tile(p.out, p.prevat), p.prevat <= RuneCount,
           NEW m \in OnSubject \cup {Nil, HitLimit, ErrClosed},
           m.rc = "match" => p.prevat <= ByteToRune(m.from)
    PROVE  Proceeds(p, m, Took(p, m))
<1>. DEFINE index == ByteToRune(m.from)
            prevat == ByteToRune(m.to)
            copied == p.out \o Text(p.prevat, index)
            grown == copied \o <<[eval |-> m]>>
            evaluated == [p EXCEPT !.out = grown, !.prevat = prevat, !.count = @ - 1, !.cur = m]
            finish(q) == [q EXCEPT !.out = q.out \o Text(q.prevat, RuneCount), !.status = "done"]
            d == Took(p, m)
<1>1. /\ p.out \in Seq(Pieces) /\ p.prevat \in Nat /\ RuneCount \in Nat
    BY StartsCount DEF Jobs
<1>2. CASE Failed(m)
  <2>1. d = [p EXCEPT !.out = <<>>, !.status = "failed"]
      BY <1>2 DEF Took
  <2>. QED BY <2>1 DEF Proceeds, Jobs
<1>3. ASSUME NEW q \in Jobs, Tile(q.out, q.prevat), q.prevat <= RuneCount, q.re = p.re,
             d = finish(q)
      PROVE  Proceeds(p, m, d)
  <2>1. q.out \in Seq(Pieces) /\ q.prevat \in Nat
      BY DEF Jobs
  <2>2. Tile(q.out \o Text(q.prevat, RuneCount), RuneCount)
      BY <1>1, <1>3, <2>1, TextTiles
  <2>3. d.status = "done" /\ d.re = p.re /\ d.out = q.out \o Text(q.prevat, RuneCount)
      BY <1>3 DEF Jobs
  <2>. QED BY <2>2, <2>3 DEF Proceeds
<1>4. CASE ~Failed(m) /\ m.rc = "nomatch"
  <2>1. d = finish(p)
      BY <1>4 DEF Took
  <2>. QED BY <1>3, <2>1
<1>5. CASE m.rc = "match"
  <2>1. m \in OnSubject /\ ~Failed(m)
      BY <1>5, ResultCodes
  <2>2. /\ m \in MatchShapes /\ m.from \in Starts /\ m.to \in Starts
        /\ m.from \in Nat /\ m.to \in Nat
    <3>1. m.from \in Starts /\ m.to \in Starts /\ m.from \in Nat /\ m.to \in Nat
        BY <2>1, OnSubjectShape
    <3>2. m = [rc |-> "match", from |-> m.from, to |-> m.to]
        BY <2>1 DEF OnSubject, MatchesFrom, Found
    <3>. QED BY <3>1, <3>2 DEF MatchShapes
  <2>3. index \in Nat /\ prevat \in Nat /\ prevat <= RuneCount /\ p.prevat <= index
      BY <1>5, <2>2, StartsCount
  <2>. HIDE DEF index, prevat
  <2>4. copied \in Seq(Pieces) /\ Tile(copied, index)
      BY <1>1, <2>3, TextTiles
  <2>. HIDE DEF copied
  <2>5. grown \in Seq(Pieces) /\ Tile(grown, prevat)
      BY <2>2, <2>4, MatchTiles DEF index, prevat
  <2>. HIDE DEF grown
  <2>6. /\ evaluated \in Jobs /\ evaluated.out = grown /\ evaluated.prevat = prevat
        /\ evaluated.cur = m /\ evaluated.re = p.re
    <3>1. p.count - 1 \in Int
        BY DEF Jobs
    <3>. QED BY <2>2, <2>3, <2>5, <3>1 DEF Jobs
  <2>7. d = finish(evaluated) \/ d = evaluated
      BY <1>1, <1>5, <2>1, <2>3 DEF Took, index, prevat, copied, grown
  <2>. HIDE DEF evaluated, finish, d
  <2>8. Tile(evaluated.out, evaluated.prevat) /\ evaluated.prevat <= RuneCount
      BY <2>3, <2>5, <2>6
  <2>9. d = finish(evaluated) => Proceeds(p, m, d)
      BY <1>3, <2>6, <2>8
  <2>10. d = evaluated => Proceeds(p, m, d)
      BY <2>1, <2>6, <2>8 DEF Proceeds, prevat
  <2>. QED BY <2>7, <2>9, <2>10 DEF d
<1>6. Failed(m) \/ (~Failed(m) /\ m.rc = "nomatch") \/ m.rc = "match"
    BY DEF Failed
<1>. QED BY <1>2, <1>4, <1>5, <1>6

\* The job d after the search that gave m, seen by the pattern q.
Ordered(d, q, m) ==
    /\ d.status = "done" => LikeReference(d, q)
    /\ d.status = "running" => Counting(d) /\ Expects(d, q, After(q, m))

\* Given the match that was to follow, replace goes on with it, or has them all.
LEMMA TookOrders ==
    ASSUME Typed, NEW p \in Jobs, p.prevat <= RuneCount, Counting(p),
           NEW m \in OnSubject \cup {Nil, HitLimit, ErrClosed},
           m.rc = "match" => p.prevat <= ByteToRune(m.from),
           NEW q, ~Failed(m) => Expects(p, q, m)
    PROVE  Ordered(Took(p, m), q, m)
<1>. DEFINE index == ByteToRune(m.from)
            prevat == ByteToRune(m.to)
            copied == p.out \o Text(p.prevat, index)
            grown == copied \o <<[eval |-> m]>>
            evaluated == [p EXCEPT !.out = grown, !.prevat = prevat, !.count = @ - 1, !.cur = m]
            finish(j) == [j EXCEPT !.out = j.out \o Text(j.prevat, RuneCount), !.status = "done"]
            d == Took(p, m)
            number(j) == Cardinality(Evaluated(j.out, Len(j.out)))
<1>1. /\ p.out \in Seq(Pieces) /\ p.prevat \in Nat /\ RuneCount \in Nat
      /\ p.limit \in Int /\ p.count \in Int
    BY StartsCount DEF Jobs
<1>2. CASE Failed(m)
  <2>1. d.status = "failed"
      BY <1>2 DEF Took, Jobs
  <2>. QED BY <2>1 DEF Ordered
<1>3. ASSUME NEW j \in Jobs, j.prevat <= RuneCount, NEW then, Expects(j, q, then),
             NEW f, f = finish(j)
      PROVE  /\ f.status = "done" /\ f.re = j.re /\ f.limit = j.limit
             /\ number(f) = number(j) /\ Expects(f, q, then)
  <2>1. /\ f.out = j.out \o Text(j.prevat, RuneCount)
        /\ f.status = "done" /\ f.re = j.re /\ f.start = j.start /\ f.limit = j.limit
        /\ j.out \in Seq(Pieces) /\ j.prevat \in Nat
      BY <1>3 DEF Jobs
  <2>2. /\ InSequence(f.out, q, f.start)
        /\ Evaluated(f.out, Len(f.out)) = Evaluated(j.out, Len(j.out))
        /\ Following(q, f.start, f.out, Len(f.out)) = then
    <3>. DEFINE out == j.out
                start == j.start
                from == j.prevat
                more == f.out
    <3>1. /\ out \in Seq(Pieces) /\ from \in Nat /\ from <= RuneCount
          /\ InSequence(out, q, start) /\ Following(q, start, out, Len(out)) = then
          /\ more = out \o Text(from, RuneCount)
        BY <1>3, <2>1 DEF Expects
    <3>. DEFINE text == Text(from, RuneCount)
    <3>2. text \in Seq(Pieces) /\ \A i \in 1..Len(text) : "eval" \notin DOMAIN text[i]
        BY <1>1, <3>1, TextShape
    <3>. HIDE DEF out, start, from, more, text
    <3>3. /\ InSequence(more, q, start) /\ Evaluated(more, Len(more)) = Evaluated(out, Len(out))
          /\ Following(q, start, more, Len(more)) = then
      <4>1. Copied(more, out, text, q, start)
          BY <3>1, <3>2 DEF Copied, text
      <4>2. SameMatches(more, out, q, start)
          BY <4>1, CopyKeepsSequence
      <4>. QED BY <3>1, <4>2 DEF SameMatches
    <3>. QED BY <2>1, <3>3 DEF out, start, more
  <2>. HIDE DEF finish
  <2>. QED BY <2>1, <2>2 DEF Expects
<1>4. CASE ~Failed(m) /\ m.rc = "nomatch"
  <2>1. d = finish(p)
      BY <1>4 DEF Took
  <2>2. m = Nil
      BY <1>4, ResultCodes
  <2>. HIDE DEF d, finish
  <2>3. /\ d.status = "done" /\ d.re = p.re /\ d.limit = p.limit /\ number(d) = number(p)
        /\ Expects(d, q, Nil)
      BY <1>3, <1>4, <2>1, <2>2
  <2>4. number(p) = p.limit - p.count
      BY DEF Counting
  <2>5. p.limit < 0 \/ number(d) < p.limit
    <3>. HIDE DEF number
    <3>. QED BY <1>1, <2>3, <2>4 DEF Counting
  <2>6. LikeReference(d, q)
      BY <2>3, <2>5 DEF LikeReference, Expects
  <2>. QED BY <2>3, <2>6 DEF Ordered, d
<1>5. CASE m.rc = "match"
  <2>1. m \in OnSubject /\ ~Failed(m) /\ Expects(p, q, m)
      BY <1>5, ResultCodes
  <2>2. /\ m \in MatchShapes /\ m.from \in Starts /\ m.to \in Starts
        /\ m.from \in Nat /\ m.to \in Nat
    <3>1. m.from \in Starts /\ m.to \in Starts /\ m.from \in Nat /\ m.to \in Nat
        BY <2>1, OnSubjectShape
    <3>2. m = [rc |-> "match", from |-> m.from, to |-> m.to]
        BY <2>1 DEF OnSubject, MatchesFrom, Found
    <3>. QED BY <3>1, <3>2 DEF MatchShapes
  <2>3. index \in Nat /\ prevat \in Nat /\ prevat <= RuneCount /\ p.prevat <= index
      BY <1>5, <2>2, StartsCount
  <2>. HIDE DEF index, prevat
  <2>4. /\ copied \in Seq(Pieces) /\ InSequence(copied, q, p.start)
        /\ Evaluated(copied, Len(copied)) = Evaluated(p.out, Len(p.out))
        /\ Following(q, p.start, copied, Len(copied)) = m
    <3>. DEFINE out == p.out
                start == p.start
                from == p.prevat
    <3>1. /\ out \in Seq(Pieces) /\ from \in Nat /\ index \in Nat /\ from <= index
          /\ InSequence(out, q, start) /\ Following(q, start, out, Len(out)) = m
          /\ copied = out \o Text(from, index)
        BY <1>1, <2>1, <2>3 DEF Expects
    <3>. DEFINE text == Text(from, index)
    <3>2. text \in Seq(Pieces) /\ \A i \in 1..Len(text) : "eval" \notin DOMAIN text[i]
        BY <3>1, TextShape
    <3>. HIDE DEF out, start, from, copied, text
    <3>3. /\ copied \in Seq(Pieces) /\ InSequence(copied, q, start)
          /\ Evaluated(copied, Len(copied)) = Evaluated(out, Len(out))
          /\ Following(q, start, copied, Len(copied)) = m
      <4>1. Copied(copied, out, text, q, start)
          BY <3>1, <3>2 DEF Copied, text
      <4>2. SameMatches(copied, out, q, start)
          BY <4>1, CopyKeepsSequence
      <4>. QED BY <3>1, <4>2 DEF SameMatches
    <3>. QED BY <3>3 DEF out, start
  <2>. HIDE DEF copied
  <2>5. /\ grown \in Seq(Pieces) /\ InSequence(grown, q, p.start)
        /\ Following(q, p.start, grown, Len(grown)) = After(q, m)
        /\ Cardinality(Evaluated(grown, Len(grown))) = number(p) + 1
    <3>1. [eval |-> m] \in Pieces
        BY <2>2, PieceShapes
    <3>2. grown \in Seq(Pieces) /\ grown = copied \o <<[eval |-> m]>>
        BY <2>4, <3>1
    <3>. DEFINE start == p.start
    <3>3. InSequence(copied, q, start) /\ Following(q, start, copied, Len(copied)) = m
        BY <2>4
    <3>. HIDE DEF grown, start
    <3>4. /\ InSequence(grown, q, start)
          /\ Following(q, start, grown, Len(grown)) = After(q, m)
          /\ Cardinality(Evaluated(grown, Len(grown)))
                = Cardinality(Evaluated(copied, Len(copied))) + 1
        BY <2>2, <2>4, <3>2, <3>3, EvaluateKeepsSequence
    <3>. QED BY <2>4, <3>2, <3>4 DEF start
  <2>. HIDE DEF grown
  <2>6. /\ evaluated \in Jobs /\ evaluated.out = grown /\ evaluated.prevat = prevat
        /\ evaluated.re = p.re /\ evaluated.limit = p.limit /\ evaluated.count = p.count - 1
        /\ evaluated.status = "running" /\ evaluated.start = p.start
    <3>1. p.count - 1 \in Int
        BY <1>1
    <3>. QED BY <2>2, <2>3, <2>5, <3>1 DEF Jobs
  <2>7. IF p.count = 1 THEN d = finish(evaluated) ELSE d = evaluated
      BY <1>1, <1>5, <2>1, <2>3 DEF Took, index, prevat, copied, grown
  <2>. HIDE DEF evaluated, finish, d
  <2>8. /\ Expects(evaluated, q, After(q, m)) /\ number(evaluated) = number(p) + 1
        /\ number(p) = p.limit - p.count
      BY <2>5, <2>6 DEF Expects, Counting
  <2>. HIDE DEF number
  <2>9. CASE p.count = 1
    <3>1. /\ d.status = "done" /\ d.re = p.re /\ Expects(d, q, After(q, m))
          /\ d.limit = p.limit /\ number(d) = number(evaluated)
        BY <1>3, <2>3, <2>6, <2>7, <2>8, <2>9
    <3>2. number(d) = d.limit
        BY <1>1, <2>8, <2>9, <3>1
    <3>. QED BY <3>1, <3>2 DEF Ordered, LikeReference, Expects, number, d
  <2>10. CASE p.count # 1
    <3>1. d = evaluated
        BY <2>7, <2>10
    <3>2. number(d) = d.limit - d.count /\ (d.count > 0 \/ (d.limit < 0 /\ d.count < 0))
        BY <1>1, <2>6, <2>8, <2>10, <3>1 DEF Counting
    <3>. QED BY <2>6, <2>8, <3>1, <3>2 DEF Ordered, Counting, number, d
  <2>. QED BY <2>9, <2>10
<1>6. Failed(m) \/ (~Failed(m) /\ m.rc = "nomatch") \/ m.rc = "match"
    BY DEF Failed
<1>. QED BY <1>2, <1>4, <1>5, <1>6

\* What is so for every pattern without a limit is so for the call.
LEMMA OrderedIsSequential ==
    ASSUME NEW p, NEW m, NEW d, Proceeds(p, m, d),
           \A q \in expr[p.re] : NoLimit(q) => Ordered(d, q, m)
    PROVE  Sequential(d)
<1>1. d.status = "running" => d.cur = m /\ d.re = p.re
    BY DEF Proceeds
<1>2. d.status = "done" => d.re = p.re
    BY DEF Proceeds, Jobs
<1>. QED BY <1>1, <1>2 DEF Sequential, Ordered

------------------------------------------------------------------------------
(* The searches of replace.                                                *)

\* One search of an expression is one of the same expression without a limit,
\* unless it fails.
LEMMA SearchWithoutLimit ==
    ASSUME Typed, NEW r \in Regexp, NEW p \in expr[r], NEW q \in expr[r], NoLimit(q),
           NEW pos \in Starts, ~Failed(Search(p, pos, {}))
    PROVE  Search(p, pos, {}) = Search(q, pos, {})
<1>1. /\ IsPattern(p) /\ IsPattern(q) /\ Boundaries(p) = Starts /\ Boundaries(q) = Starts
    BY OneSubject
<1>2. SameWays(p, q) /\ SameWays(q, p)
    BY DEF Typed, IsExpression
<1>3. Search(p, pos, {}) # HitLimit
    BY ResultCodes
<1>4. Search(q, pos, {}) # HitLimit
  <2>1. SUFFICES ASSUME Search(q, pos, {}) = HitLimit PROVE FALSE
      OBVIOUS
  <2>2. HitLimit # NoMatch
      BY DEF HitLimit, NoMatch
  <2>3. PICK s \in Boundaries(q) : Search(q, pos, {}) = MatchAt(q, s, pos, {})
      BY <1>1, <2>1, <2>2, SearchIsMatchAt
  <2>. QED BY <1>1, <2>1, <2>3, NoLimitAtStart DEF NoLimit
<1>. QED BY <1>1, <1>2, <1>3, <1>4, SearchAgrees

\* The search after a match starts where the match ended or later, whatever the
\* limit.
LEMMA AfterIsSearch ==
    ASSUME Typed, NEW m \in OnSubject
    PROVE  \/ \A r \in Regexp : \A q \in expr[r] : After(q, m) = Nil
           \/ \E pos \in Starts : /\ m.to <= pos
                                 /\ \A r \in Regexp : \A q \in expr[r] :
                                       After(q, m) = Search(q, pos, {})
<1>. DEFINE any == pat[CHOOSE r \in Regexp : TRUE]
<1>1. m.to \in Starts /\ m.to \in Nat /\ m.to <= End /\ End \in Nat
    BY OnSubjectShape
<1>2. IsPattern(any) /\ Boundaries(any) = Starts /\ Length(any) = End
  <2>1. any \in expr[CHOOSE r \in Regexp : TRUE] /\ (CHOOSE r \in Regexp : TRUE) \in Regexp
      BY CompatIterAssumption DEF Typed
  <2>. QED BY <2>1, OneSubject
<1>3. \A s \in Starts : s \in Nat /\ s <= End
    BY <1>2, LengthIsLast
<1>4. CASE ~IsEmpty(m)
  <2>1. \A q : After(q, m) = Search(q, m.to, {})
      BY <1>1, <1>4 DEF After
  <2>. QED BY <1>1, <2>1
<1>5. CASE IsEmpty(m) /\ m.to >= End
  <2>1. End + 1 > End
      BY <1>1
  <2>. QED BY <1>5, <2>1 DEF After
<1>6. CASE IsEmpty(m) /\ ~(m.to >= End)
  <2>. DEFINE pos == Bump(any, m.to)
  <2>1. pos \in Starts /\ pos > m.to
      BY <1>1, <1>2, <1>6, BumpAdvances
  <2>2. pos \in Nat /\ ~(pos > End) /\ m.to <= pos
      BY <1>1, <1>3, <2>1
  <2>3. ASSUME NEW r \in Regexp, NEW q \in expr[r] PROVE After(q, m) = Search(q, pos, {})
    <3>1. Bump(q, m.to) = pos
        BY <1>2, OneSubject DEF Bump, Boundaries
    <3>. HIDE DEF pos
    <3>. QED BY <1>6, <2>2, <3>1 DEF After
  <2>. HIDE DEF pos
  <2>. QED BY <2>1, <2>2, <2>3
<1>. QED BY <1>4, <1>5, <1>6

\* FindNextMatch fails or returns what one search after m finds, with some match
\* limit, by the Regexp asked or by that the iterator belongs to.
LEMMA NextFinds ==
    ASSUME IndInv, NEW r \in Regexp, NEW m \in held,
           NextNone(r, m) \/ NextServed(r, m) \/ NextSearched(r, m)
    PROVE  /\ last'.got \in OnSubject \cup {Nil, HitLimit, ErrClosed}
           /\ last'.got.rc = "match" => last'.got \in held'
           /\ ~Failed(last'.got) =>
                 \E s \in Regexp : /\ OneBatched => s = r
                                  /\ \E q \in expr[s] : last'.got = After(q, m)
<1>1. Typed /\ m \in OnSubject /\ pat[r] \in expr[r]
    BY DEF IndInv, Typed
<1>2. m.to \in Starts /\ m.to \in Nat /\ m.to <= End /\ End \in Nat
    BY <1>1, OnSubjectShape
<1>3. CASE NextNone(r, m)
  <2>1. last'.got = Nil /\ IsEmpty(m) /\ m.to >= End
      BY <1>3 DEF NextNone, Return
  <2>2. After(pat[r], m) = Nil
      BY <1>2, <2>1 DEF After
  <2>. QED BY <1>1, <2>1, <2>2, ResultCodes
<1>4. CASE NextSearched(r, m)
  <2>. DEFINE got == Find(r, NextStart(r, m))
  <2>1. last'.got = got /\ held' = IF got.rc = "match" THEN held \cup {got} ELSE held
      BY <1>4 DEF NextSearched, Return
  <2>2. got \in OnSubject \cup {Nil, HitLimit}
      BY <1>1, FindNextFinds
  <2>3. got = After(pat[r], m)
      BY DEF Find, NextStart, After
  <2>. HIDE DEF got
  <2>. QED BY <1>1, <2>1, <2>2, <2>3
<1>5. CASE NextServed(r, m)
  <2>. DEFINE it == IF iter = NoIter THEN NewIter(r, next) ELSE iter
              a == Advance(it)
  <2>1. last'.got = a.result
        /\ held' = IF a.result.rc = "match" THEN held \cup {a.result} ELSE held
      BY <1>5 DEF NextServed, Return
  <2>2. PICK q \in expr[it.re] :
          /\ it \in IterStates /\ it.err = Nil
          /\ r \notin Lookbehind /\ ~IsEmpty(m) /\ m.to = next
          /\ Open(it) => q = pat[it.re]
          /\ Follows(it, q, next)
      BY <1>5, ServedFrom
  <2>3. /\ next \in Starts /\ it.re \in Regexp
        /\ OneBatched => it.re = r
      BY <1>1, <2>2 DEF Typed, IterStates, OneBatched
  <2>4. Serves(a, it, q, next)
      BY <1>1, <2>2, <2>3, AdvanceServes
  <2>. DEFINE found == Search(q, next, {})
              full == FullScan(q, next, {})
  <2>5. Begun(found, full)
      BY <1>1, <2>3, FullBegins
  <2>6. found = After(q, m)
      BY <1>2, <2>2 DEF After
  <2>. HIDE DEF it, a, found, full
  <2>7. /\ a.result \in OnSubject \cup {Nil, HitLimit, ErrClosed}
        /\ ~Failed(a.result) => a.result = found
      BY <2>4, <2>5, ResultCodes DEF Serves, Begun, found, full
  <2>. QED BY <2>1, <2>2, <2>3, <2>6, <2>7
<1>. QED BY <1>3, <1>4, <1>5

\* So it never goes back: what it finds begins where m ended or later.
LEMMA NextGoesForward ==
    ASSUME IndInv, NEW r \in Regexp, NEW m \in held,
           NextNone(r, m) \/ NextServed(r, m) \/ NextSearched(r, m),
           last'.got.rc = "match"
    PROVE  last'.got.from >= m.to
<1>1. Typed /\ m \in OnSubject
    BY DEF IndInv, Typed
<1>2. last'.got \in OnSubject /\ ~Failed(last'.got)
  <2>1. last'.got \in OnSubject \cup {Nil, HitLimit, ErrClosed}
      BY NextFinds
  <2>. QED BY <2>1, ResultCodes
<1>3. PICK s \in Regexp : \E q \in expr[s] : last'.got = After(q, m)
    BY <1>2, NextFinds
<1>4. PICK q \in expr[s] : last'.got = After(q, m)
    BY <1>3
<1>5. PICK pos \in Starts : m.to <= pos /\ last'.got = Search(q, pos, {})
    BY <1>1, <1>2, <1>4, AfterIsSearch, ResultCodes
<1>6. IsPattern(q) /\ Boundaries(q) = Starts
    BY <1>1, OneSubject
<1>7. last'.got \in MatchesFrom(q, pos)
    BY <1>2, <1>5, <1>6, SearchFinds, ResultCodes DEF Results, Nil
<1>8. pos <= last'.got.from /\ pos \in Nat /\ last'.got.from \in Nat
    BY <1>6, <1>7, MatchShape
<1>9. m.to \in Nat
    BY <1>1, OnSubjectShape
<1>. QED BY <1>5, <1>8, <1>9

------------------------------------------------------------------------------
(* The invariant.                                                          *)

\* No call changes the subject, or takes a match back.
LEMMA SubjectStays ==
    ASSUME IndInv, [AnyCall]_vars
    PROVE  Starts' = Starts /\ End' = End /\ expr' = expr /\ held \subseteq held'
<1>. DEFINE any == CHOOSE r \in Regexp : TRUE
            Stays == Starts' = Starts /\ expr' = expr /\ held \subseteq held'
<1>1. Typed /\ any \in Regexp
    BY CompatIterAssumption DEF IndInv
<1>2. ASSUME UNCHANGED <<expr, pat>>, held \subseteq held' PROVE Stays
    BY <1>2 DEF Starts
<1>3. ASSUME NEW r \in Regexp, SetMatchLimits(r) PROVE Stays
  <2>1. PICK p \in expr[r] : pat' = [pat EXCEPT ![r] = p]
      BY <1>3 DEF SetMatchLimits
  <2>2. pat'[any] \in expr[any]
      BY <1>1, <2>1 DEF Typed
  <2>3. Boundaries(pat'[any]) = Starts
      BY <1>1, <2>2, OneSubject
  <2>. QED BY <1>3, <2>3 DEF Starts, Boundaries, SetMatchLimits
<1>4. ASSUME NEW r \in Regexp, NEW start, FirstMatch(r, start) PROVE Stays
  <2>1. UNCHANGED <<expr, pat>> /\ held \subseteq held'
      BY <1>4 DEF FirstMatch, Return
  <2>. QED BY <1>2, <2>1
<1>5. ASSUME NEW r \in Regexp, NEW m, NextNone(r, m) \/ NextServed(r, m) \/ NextSearched(r, m)
      PROVE  Stays
  <2>1. UNCHANGED <<expr, pat>> /\ held \subseteq held'
      BY <1>5 DEF NextNone, NextServed, NextSearched, Return
  <2>. QED BY <1>2, <2>1
<1>6. ASSUME UNCHANGED vars PROVE Stays
    BY <1>2, <1>6 DEF vars
<1>7. Stays
  <2>. HIDE DEF Stays
  <2>. QED BY <1>3, <1>4, <1>5, <1>6 DEF AnyCall
<1>8. End' = End
    BY <1>7 DEF End, Length, Starts
<1>. QED BY <1>7, <1>8

\* So a call of replace that is settled stays so.
LEMMA SettledKeeps ==
    ASSUME RepInv, [AnyCall]_vars, Settled(rep', held')
    PROVE  RepInv'
<1>1. IndInv' /\ Starts' = Starts /\ End' = End /\ expr' = expr
    BY SubjectStays, AnyCallKeeps DEF RepInv
<1>2. Placed(rep, held)'
  <2>1. RuneCount' = RuneCount /\ Jobs' = Jobs
      BY <1>1 DEF RuneCount, Jobs
  <2>2. rep'.status = "done" => Tile(rep.out, RuneCount)'
      BY <1>1, <2>1 DEF Settled, Placed, Tile, From, Upto, ByteToRune
  <2>3. rep'.status = "running" => Tile(rep.out, rep.prevat)'
      BY <1>1 DEF Settled, Placed, Tile, From, Upto, ByteToRune
  <2>4. rep'.status = "running" => rep'.prevat = ByteToRune(rep.cur.to)'
      BY <1>1 DEF Settled, Placed, ByteToRune
  <2>5. /\ rep'.status # "panic"
        /\ rep'.status = "running" => rep' \in Jobs' /\ rep'.cur \in held'
      BY <2>1 DEF Settled, Placed
  <2>. QED BY <2>2, <2>3, <2>4, <2>5 DEF Placed
<1>3. ASSUME OneBatched PROVE Sequential(rep)'
  <2>1. Sequential(rep') /\ Starts' = Starts /\ End' = End /\ expr' = expr
      BY <1>1, <1>3 DEF Settled
  <2>2. ASSUME NEW q \in expr[rep'.re], NoLimit(q)'
        PROVE  /\ rep'.status = "done" => LikeReference(rep, q)'
               /\ rep'.status = "running" => Counting(rep)' /\ Expects(rep, q, After(q, rep.cur))'
    <3>1. NoLimit(q)
        BY <2>1, <2>2 DEF NoLimit
    <3>2. rep'.status = "done" => LikeReference(rep, q)'
        BY <2>1, <2>2, <3>1 DEF Sequential, LikeReference, Expects, InSequence, Following, After
    <3>3. rep'.status = "running" => Counting(rep)'
        BY <2>1, <2>2, <3>1 DEF Sequential, Counting
    <3>4. rep'.status = "running" => Expects(rep, q, After(q, rep.cur))'
        BY <2>1, <2>2, <3>1 DEF Sequential, Expects, InSequence, Following, After
    <3>. QED BY <3>2, <3>3, <3>4
  <2>. QED BY <2>1, <2>2 DEF Sequential
<1>. QED BY <1>1, <1>2, <1>3 DEF RepInv, Settled, OneBatched

\* A round that proceeds leaves the call in its place.
LEMMA ProceedsPlaces ==
    ASSUME NEW p, NEW m, NEW d, Proceeds(p, m, d), m.rc = "match" => m \in held'
    PROVE  Placed(d, held')
<1>1. d \in Jobs => d.status = "running"
    BY DEF Jobs
<1>. QED BY <1>1, ResultCodes DEF Proceeds, Placed

\* The first round.
LEMMA ReplaceStartKeeps ==
    ASSUME RepInv, NEW r \in Regexp, ReplaceStart(r)
    PROVE  RepInv' /\ AnyCall
<1>. DEFINE job(start, count) ==
              [status |-> "running", re |-> r, start |-> start, limit |-> count,
               count |-> count, prevat |-> 0, out |-> <<>>, cur |-> Nil]
<1>1. PICK count \in Counts, o \in Strings[Starts] : \E startAt \in -1 .. Max(o) + 1 :
        /\ count >= -1 /\ count # 0
        /\ Aligned(o, startAt)
        /\ FirstMatch(r, AlignByteStart(o, startAt))
        /\ rep' = Took(job(AlignByteStart(o, startAt), count), last'.got)
    BY DEF ReplaceStart
<1>2. PICK startAt \in -1 .. Max(o) + 1 :
        /\ Aligned(o, startAt)
        /\ FirstMatch(r, AlignByteStart(o, startAt))
        /\ rep' = Took(job(AlignByteStart(o, startAt), count), last'.got)
    BY <1>1
<1>. DEFINE start == AlignByteStart(o, startAt)
            p == job(start, count)
            m == last'.got
<1>3. Typed /\ start \in Starts /\ count \in Int
    BY <1>2, AlignedIsStart, ReplaceAssumption DEF RepInv, IndInv
<1>4. AnyCall
    BY <1>2, <1>3 DEF AnyCall
<1>5. p \in Jobs /\ p.out = <<>> /\ p.prevat = 0
  <2>. DEFINE pieces == Seq(Pieces)
              empty == <<>>
              running == {"running"}
              status == "running"
  <2>1. empty \in pieces /\ status \in running
      OBVIOUS
  <2>2. Jobs = [status : running, re : Regexp, start : Starts, limit : Int, count : Int,
                prevat : Nat, out : pieces, cur : MatchShapes \cup {Nil}]
      BY DEF Jobs
  <2>3. p = [status |-> status, re |-> r, start |-> start, limit |-> count,
             count |-> count, prevat |-> 0, out |-> empty, cur |-> Nil]
      OBVIOUS
  <2>4. p.out = <<>> /\ p.prevat = 0
      OBVIOUS
  <2>. HIDE DEF pieces, empty, running, status, start, p
  <2>. QED BY <1>3, <2>1, <2>2, <2>3, <2>4
<1>6. m = Find(r, start) /\ (m.rc = "match" => m \in held')
    BY <1>2 DEF FirstMatch, Return
<1>. HIDE DEF start, p, m
<1>7. m \in OnSubject \cup {Nil, HitLimit}
    BY <1>3, <1>6, FindFinds
<1>8. m.rc = "match" => 0 <= ByteToRune(m.from)
  <2>1. m.rc = "match" => m \in OnSubject
      BY <1>7, ResultCodes
  <2>. QED BY <1>3, <2>1, OnSubjectShape, StartsCount
<1>9. Tile(p.out, p.prevat) /\ p.prevat <= RuneCount
    BY <1>3, <1>5, StartsCount DEF Tile
<1>10. rep' = Took(p, m)
    BY <1>2 DEF p, start, m
<1>11. Proceeds(p, m, rep')
    BY <1>3, <1>5, <1>7, <1>8, <1>9, <1>10, TookProceeds
<1>12. Sequential(rep')
  <2>1. p.re = r /\ p.start = start /\ p.cur = Nil /\ p.limit = count /\ p.count = count
      BY DEF p
  <2>2. Len(p.out) = 0 /\ Evaluated(p.out, 0) = {} /\ Cardinality({}) = 0
      BY <1>5, FS_EmptySet DEF Evaluated
  <2>3. Counting(p)
    <3>1. count >= -1 /\ count # 0
        BY <1>1
    <3>2. Cardinality(Evaluated(p.out, Len(p.out))) = 0
        BY <2>2
    <3>3. p.limit - p.count = 0 /\ (p.count > 0 \/ (p.limit < 0 /\ p.count < 0))
        BY <1>3, <2>1, <3>1
    <3>. QED BY <3>2, <3>3 DEF Counting
  <2>4. ASSUME NEW q \in expr[r], NoLimit(q) PROVE Ordered(rep', q, m)
    <3>1. ASSUME ~Failed(m) PROVE Expects(p, q, m)
      <4>1. pat[r] \in expr[r] /\ m = Search(pat[r], start, {})
          BY <1>3, <1>6, FindFinds DEF Typed
      <4>2. m = Search(q, start, {})
          BY <1>3, <2>4, <3>1, <4>1, SearchWithoutLimit
      <4>. QED BY <1>5, <2>1, <2>2, <4>2 DEF Expects, InSequence, Following
    <3>. QED BY <1>3, <1>5, <1>7, <1>8, <1>9, <1>10, <2>3, <3>1, TookOrders
  <2>. QED BY <1>11, <2>1, <2>4, OrderedIsSequential
<1>. QED BY <1>4, <1>6, <1>11, <1>12, ProceedsPlaces, SettledKeeps DEF Settled

\* The rounds after it.
LEMMA ReplaceNextKeeps ==
    ASSUME RepInv, ReplaceNext
    PROVE  RepInv' /\ AnyCall
<1>. DEFINE r == rep.re
            m == rep.cur
            got == last'.got
<1>1. /\ IndInv /\ Typed /\ rep \in Jobs /\ Tile(rep.out, rep.prevat)
      /\ m \in held /\ m \in OnSubject /\ rep.prevat = ByteToRune(m.to)
      /\ r \in Regexp
    BY DEF RepInv, Settled, Placed, ReplaceNext, IndInv, Typed, Jobs
<1>2. NextNone(r, m) \/ NextServed(r, m) \/ NextSearched(r, m)
    BY DEF ReplaceNext
<1>3. AnyCall
    BY <1>1, <1>2 DEF AnyCall
<1>4. rep' = Took(rep, got)
    BY DEF ReplaceNext
<1>. HIDE DEF r, m, got
<1>5. /\ got \in OnSubject \cup {Nil, HitLimit, ErrClosed}
      /\ got.rc = "match" => got \in held' /\ got.from >= m.to
    BY <1>1, <1>2, NextFinds, NextGoesForward DEF got
<1>6. m.to \in Starts /\ m.to \in Nat
    BY <1>1, OnSubjectShape
<1>7. ASSUME got.rc = "match" PROVE rep.prevat <= ByteToRune(got.from)
  <2>1. got \in OnSubject
      BY <1>5, <1>7, ResultCodes
  <2>2. got.from \in Starts /\ got.from \in Nat
      BY <1>1, <2>1, OnSubjectShape
  <2>3. m.to <= got.from
      BY <1>5, <1>6, <1>7, <2>2
  <2>. QED BY <1>1, <1>6, <2>2, <2>3, StartsCount
<1>8. rep.prevat <= RuneCount
    BY <1>1, <1>6, StartsCount
<1>9. Proceeds(rep, got, rep')
    BY <1>1, <1>4, <1>5, <1>7, <1>8, TookProceeds
<1>10. ASSUME OneBatched PROVE Sequential(rep')
  <2>1. ASSUME NEW q \in expr[r], NoLimit(q) PROVE Ordered(rep', q, got)
    <3>1. Counting(rep) /\ Expects(rep, q, After(q, m))
        BY <1>10, <2>1 DEF RepInv, Settled, Sequential, ReplaceNext, r, m
    <3>2. ASSUME ~Failed(got) PROVE got = After(q, m)
      <4>1. PICK p \in expr[r] : got = After(p, m)
          BY <1>1, <1>2, <1>10, <3>2, NextFinds DEF got
      <4>2. CASE \E pos \in Starts : After(p, m) = Search(p, pos, {}) /\ After(q, m) = Search(q, pos, {})
          BY <1>1, <2>1, <3>2, <4>1, <4>2, SearchWithoutLimit
      <4>3. CASE After(p, m) = Nil /\ After(q, m) = Nil
          BY <4>1, <4>3
      <4>. QED BY <1>1, <4>2, <4>3, AfterIsSearch
    <3>. QED BY <1>1, <1>4, <1>5, <1>7, <1>8, <3>1, <3>2, TookOrders
  <2>. QED BY <1>9, <2>1, OrderedIsSequential DEF r
<1>. QED BY <1>3, <1>5, <1>9, <1>10, ProceedsPlaces, SettledKeeps DEF Settled

\* A step of the caller, of the evaluator, or of replace: it keeps the
\* invariant, and for the matchState it is one call or none.
LEMMA ReplaceKeeps ==
    ASSUME RepInv, [ReplaceStep]_rvars
    PROVE  RepInv' /\ [AnyCall]_vars
<1>1. CASE Caller \/ UNCHANGED rvars
  <2>1. [AnyCall]_vars /\ rep' = rep
      BY <1>1, NextIsAnyCall DEF Caller, rvars
  <2>2. held \subseteq held'
      BY <2>1, SubjectStays DEF RepInv
  <2>3. Settled(rep', held')
      BY <2>1, <2>2 DEF RepInv, Settled, Placed
  <2>. QED BY <2>1, <2>3, SettledKeeps
<1>2. CASE ReplaceRefuses
  <2>1. UNCHANGED vars /\ rep'.status \in {"empty", "refused"}
      BY <1>2 DEF ReplaceRefuses
  <2>2. Settled(rep', held')
      BY <2>1 DEF Settled, Placed, Sequential
  <2>. QED BY <2>1, <2>2, SettledKeeps
<1>3. CASE \E r \in Regexp : ReplaceStart(r)
    BY <1>3, ReplaceStartKeeps
<1>4. CASE ReplaceNext
    BY <1>4, ReplaceNextKeeps
<1>. QED BY <1>1, <1>2, <1>3, <1>4 DEF ReplaceStep

\* The invariant holds before the first call.
LEMMA ReplaceBegins == ReplaceInit => RepInv
<1>1. SUFFICES ASSUME ReplaceInit PROVE RepInv
    OBVIOUS
<1>2. Init /\ rep.status = "none" /\ IndInv
    BY <1>1, InitHolds DEF ReplaceInit, NoReplace
<1>3. PICK r \in Regexp : r = CHOOSE s \in Regexp : TRUE
    BY CompatIterAssumption
<1>4. expr \in Compiled /\ pat[r] \in expr[r] /\ Starts = DOMAIN pat[r].try
    BY <1>2, <1>3 DEF Init, Starts
<1>5. Starts \in DOMAIN Strings
    BY <1>4, ReplaceAssumption
<1>. QED BY <1>2, <1>5 DEF RepInv, Settled, Placed, Sequential

\* It holds in every state of every behaviour.
LEMMA RepInvHolds == ReplaceSpec => []RepInv
<1>1. RepInv /\ [ReplaceStep]_rvars => RepInv'
    BY ReplaceKeeps
<1>. QED BY <1>1, ReplaceBegins, PTL DEF ReplaceSpec

------------------------------------------------------------------------------
(* The theorems on Replace.                                                *)

\* Every rune of the input is copied once or lies in one match that was
\* evaluated, the pieces of the result are in the order of the text, and replace
\* never slices the text backwards: for every text and every expression, whatever
\* the evaluator and SetMatchLimits do in between.
THEOREM WholeText == ReplaceSpec => []NothingLostOrRepeated
<1>1. RepInv => NothingLostOrRepeated
    BY DEF RepInv, Settled, Placed, NothingLostOrRepeated
<1>. QED BY <1>1, RepInvHolds, PTL

\* The matches that replace evaluates are those of one search after the other
\* without a limit, all of them or the first that count asks for; a limit makes
\* it fail, but never skip a match or end early.
THEOREM ReplacesReference ==
    ASSUME OneBatched
    PROVE  ReplaceSpec => []ReplacedLikeReference
<1>1. RepInv => NothingLostOrRepeated
    BY DEF RepInv, Settled, Placed, NothingLostOrRepeated
<1>2. RepInv => ReplacedLikeReference
    BY <1>1 DEF RepInv, Settled, Sequential, LikeReference, Expects, InSequence,
       ReplacedLikeReference
<1>. QED BY <1>2, RepInvHolds, PTL

\* The iterator stays in step with the matchState when replace and the evaluator
\* share it.
THEOREM InStepInReplace == ReplaceSpec => []IterInStep
<1>1. RepInv => IterInStep
    BY IndInvImplies DEF RepInv
<1>. QED BY <1>1, RepInvHolds, PTL

\* The searches of replace, and of the evaluator on its matches, return what one
\* Find returns when no limit is in reach.
THEOREM IdenticalInReplace ==
    ASSUME OneBatched
    PROVE  ReplaceSpec => []IdenticalWithoutLimits
<1>1. RepInv => IdenticalWithoutLimits
    BY IndInvImplies DEF RepInv
<1>. QED BY <1>1, RepInvHolds, PTL

\* With limits they return that or an error.
THEOREM AgreesInReplace ==
    ASSUME OneBatched
    PROVE  ReplaceSpec => []AgreesOrFails
<1>1. RepInv => AgreesOrFails
    BY IndInvImplies DEF RepInv
<1>. QED BY <1>1, RepInvHolds, PTL

\* An error that the evaluator met does not reach the next search of replace, nor
\* the other way round.
THEOREM ErrorsPassInReplace == ReplaceSpec => ErrorsDoNotStick
<1>1. RepInv /\ [ReplaceStep]_rvars => [Failed(last.got) => last'.got = last'.want]_calls
    BY ReplaceKeeps, AnyCallAfterError DEF RepInv
<1>. QED BY <1>1, RepInvHolds, PTL DEF ErrorsDoNotStick, ReplaceSpec
==============================================================================
