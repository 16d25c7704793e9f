----------------------------- MODULE ScanTheorems -----------------------------
(***************************************************************************)
(* Searches, cursors and scans, for every pattern on every subject.  The   *)
(* theorems of the library on induction and recursion are about operators; *)
(* here they are about sets and functions, from the well-foundedness of    *)
(* the natural numbers.                                                    *)
(***************************************************************************)
EXTENDS Pcre2Match, WellFoundedInduction, SequenceTheorems, TLAPS

------------------------------------------------------------------------------
(* Natural numbers.                                                        *)

\* A set of natural numbers has a least element.
LEMMA LeastNatural ==
    ASSUME NEW T \in SUBSET Nat, T # {}
    PROVE  \E n \in T : \A m \in T : n <= m
<1>1. PICK n \in T : \A m \in T : ~(<<m, n>> \in OpToRel(<, Nat))
    BY NatLessThanWellFounded, WFMin
<1>2. \A m \in T : ~(m < n)
    BY <1>1 DEF OpToRel
<1>. QED BY <1>2

\* Induction: a set that has 0, and n + 1 with n, has them all.
LEMMA Induction ==
    ASSUME NEW S, 0 \in S, \A n \in Nat : n \in S => n + 1 \in S
    PROVE  \A n \in Nat : n \in S
<1>1. SUFFICES ASSUME Nat \ S # {} PROVE FALSE
    OBVIOUS
<1>2. PICK n \in Nat \ S : \A m \in Nat \ S : n <= m
    BY <1>1, LeastNatural
<1>3. n - 1 \in Nat /\ n - 1 \in S
    BY <1>2
<1>. QED BY <1>2, <1>3

\* Recursion: f[0] and a step from f[n] to f[n + 1] define a function.
LEMMA Recursion ==
    ASSUME NEW D, NEW first \in D, NEW step \in [D -> D]
    PROVE  \E f \in [Nat -> D] : f[0] = first /\ \A n \in Nat : f[n + 1] = step[f[n]]
<1>. DEFINE Upto(n) == {g \in [0..n -> D] :
                          g[0] = first /\ \A i \in 0..(n - 1) : g[i + 1] = step[g[i]]}
            Some == {n \in Nat : Upto(n) # {}}
<1>1. \A n \in Nat : n \in Some
  <2>1. 0 \in Some
    <3>1. [i \in 0..0 |-> first] \in Upto(0)
        OBVIOUS
    <3>. QED BY <3>1
  <2>2. ASSUME NEW n \in Nat, n \in Some PROVE n + 1 \in Some
    <3>1. PICK g \in Upto(n) : TRUE
        BY <2>2
    <3>. DEFINE h == [i \in 0..(n + 1) |-> IF i <= n THEN g[i] ELSE step[g[n]]]
    <3>2. h \in [0..(n + 1) -> D]
        BY <3>1
    <3>3. h[0] = first
        BY <3>1
    <3>4. ASSUME NEW i \in 0..(n + 1 - 1) PROVE h[i + 1] = step[h[i]]
        BY <3>1, <3>4
    <3>5. h \in Upto(n + 1)
        BY <3>2, <3>3, <3>4
    <3>. HIDE DEF Upto, h
    <3>. QED BY <3>5
  <2>. HIDE DEF Some
  <2>. QED BY <2>1, <2>2, Induction
<1>2. ASSUME NEW n \in Nat, NEW m \in Nat, NEW g \in Upto(n), NEW h \in Upto(m)
      PROVE  \A i \in Nat : i <= n /\ i <= m => g[i] = h[i]
  <2>. DEFINE Same == {i \in Nat : i <= n /\ i <= m => g[i] = h[i]}
  <2>1. 0 \in Same
      OBVIOUS
  <2>2. ASSUME NEW i \in Nat, i \in Same PROVE i + 1 \in Same
      BY <2>2
  <2>3. \A i \in Nat : i \in Same
    <3>. HIDE DEF Same
    <3>. QED BY <2>1, <2>2, Induction
  <2>. QED BY <2>3
<1>. DEFINE g(n) == CHOOSE h \in Upto(n) : TRUE
            f == [n \in Nat |-> g(n)[n]]
<1>3. \A n \in Nat : g(n) \in Upto(n)
    BY <1>1
<1>. HIDE DEF g
<1>4. f \in [Nat -> D]
    BY <1>3
<1>5. f[0] = first
    BY <1>3
<1>6. ASSUME NEW n \in Nat PROVE f[n + 1] = step[f[n]]
  <2>1. g(n + 1)[n + 1] = step[g(n + 1)[n]]
      BY <1>3
  <2>2. g(n + 1)[n] = g(n)[n]
    <3>1. g(n) \in Upto(n) /\ g(n + 1) \in Upto(n + 1) /\ n + 1 \in Nat
        BY <1>3
    <3>. HIDE DEF Upto
    <3>. QED BY <3>1, <1>2
  <2>. QED BY <2>1, <2>2
<1>. QED BY <1>4, <1>5, <1>6

\* Min and Max of the community modules give what they promise.
LEMMA MinNat ==
    ASSUME NEW T \in SUBSET Nat, T # {}
    PROVE  Min(T) \in T /\ \A m \in T : Min(T) <= m
BY LeastNatural DEF Min

------------------------------------------------------------------------------
(* One search.                                                             *)

\* The character boundaries of the subject.
Boundaries(p) == DOMAIN p.try

\* What a search from pos can return.
Results(p, pos) == MatchesFrom(p, pos) \cup {NoMatch, HitLimit}

\* A match is an ordered pair of character boundaries.
LEMMA MatchShape ==
    ASSUME NEW p, IsPattern(p), NEW pos \in Boundaries(p), NEW r \in MatchesFrom(p, pos)
    PROVE  /\ r.rc = "match"
           /\ r.from \in Boundaries(p) /\ r.to \in Boundaries(p)
           /\ pos \in Nat /\ r.from \in Nat /\ r.to \in Nat
           /\ pos <= r.from /\ r.from <= r.to
<1>1. PICK f \in Boundaries(p), t \in Boundaries(p) : r = Found(f, t)
    BY DEF MatchesFrom, Boundaries
<1>2. r.rc = "match" /\ r.from = f /\ r.to = t
    BY <1>1 DEF Found
<1>. QED BY <1>1, <1>2 DEF IsPattern, Boundaries, MatchesFrom

\* The end of the subject is its last boundary.
LEMMA LengthIsLast ==
    ASSUME NEW p, IsPattern(p)
    PROVE  /\ Length(p) \in Boundaries(p) /\ Length(p) \in Nat
           /\ \A b \in Boundaries(p) : b \in Nat /\ b <= Length(p)
<1>1. PICK end \in Boundaries(p) : \A b \in Boundaries(p) : end >= b
    BY DEF IsPattern, Boundaries
<1>2. Length(p) \in Boundaries(p) /\ \A b \in Boundaries(p) : Length(p) >= b
    BY <1>1 DEF Length, Max, Boundaries
<1>. QED BY <1>2 DEF IsPattern, Boundaries

\* A bumpalong before the end goes to a later boundary.
LEMMA BumpAdvances ==
    ASSUME NEW p, IsPattern(p), NEW pos \in Boundaries(p), pos < Length(p)
    PROVE  Bump(p, pos) \in Boundaries(p) /\ Bump(p, pos) > pos
<1>. DEFINE T == {s \in Boundaries(p) : s > pos}
<1>1. T \in SUBSET Nat /\ T # {}
    BY LengthIsLast DEF IsPattern, Boundaries
<1>2. Min(T) \in T
    BY <1>1, MinNat
<1>. QED BY <1>2 DEF Bump, Boundaries

\* match() at a start gives one of the pattern's ways there, and none that the
\* options reject.
LEMMA MatchAtStart ==
    ASSUME NEW p, IsPattern(p), NEW s \in Boundaries(p), NEW pos, NEW opts
    PROVE  /\ MatchAt(p, s, pos, opts) \in Results(p, s)
           /\ MatchAt(p, s, pos, opts).rc = "match" => Accepts(p, MatchAt(p, s, pos, opts), pos, opts)
<1>. DEFINE stops == {i \in DOMAIN p.try[s] :
                        \/ p.try[s][i] = HitLimit
                        \/ Accepts(p, p.try[s][i], pos, opts)}
<1>1. p.try[s] \in Seq(MatchesFrom(p, s) \cup {HitLimit})
    BY DEF IsPattern, Boundaries, MatchesFrom
<1>2. CASE stops = {}
    BY <1>2 DEF MatchAt, Results, NoMatch
<1>3. CASE stops # {}
  <2>1. stops \in SUBSET Nat
      BY <1>1
  <2>2. Min(stops) \in stops
      BY <1>3, <2>1, MinNat
  <2>3. p.try[s][Min(stops)] \in MatchesFrom(p, s) \cup {HitLimit}
    <3>1. ASSUME NEW S, NEW q \in Seq(S), NEW i \in DOMAIN q PROVE q[i] \in S
        BY <3>1
    <3>. QED BY <1>1, <2>2, <3>1
  <2>4. MatchAt(p, s, pos, opts) = p.try[s][Min(stops)]
      BY <1>3 DEF MatchAt
  <2>5. HitLimit.rc # "match"
      BY DEF HitLimit
  <2>. HIDE DEF stops
  <2>6. p.try[s][Min(stops)] = HitLimit \/ Accepts(p, p.try[s][Min(stops)], pos, opts)
      BY <2>2 DEF stops
  <2>. QED BY <2>3, <2>4, <2>5, <2>6 DEF Results
<1>. QED BY <1>2, <1>3

\* Where no way to match is the match limit, match() does not report it.
LEMMA NoLimitAtStart ==
    ASSUME NEW p, IsPattern(p), NEW s \in Boundaries(p), HitLimit \notin ToSet(p.try[s]),
           NEW pos, NEW opts
    PROVE  MatchAt(p, s, pos, opts) # HitLimit
<1>. DEFINE stops == {i \in DOMAIN p.try[s] :
                        \/ p.try[s][i] = HitLimit
                        \/ Accepts(p, p.try[s][i], pos, opts)}
<1>1. MatchAt(p, s, pos, opts) = IF stops = {} THEN NoMatch ELSE p.try[s][Min(stops)]
    BY DEF MatchAt
<1>2. NoMatch # HitLimit
    BY DEF NoMatch, HitLimit
<1>3. CASE stops # {}
  <2>1. p.try[s] \in Seq(MatchesFrom(p, s) \cup {HitLimit})
      BY DEF IsPattern, Boundaries
  <2>2. stops \in SUBSET Nat
    <3>1. DOMAIN p.try[s] \subseteq Nat
        BY <2>1
    <3>. QED BY <3>1
  <2>3. Min(stops) \in DOMAIN p.try[s]
    <3>. HIDE DEF stops
    <3>1. Min(stops) \in stops
        BY <1>3, <2>2, MinNat
    <3>. QED BY <3>1 DEF stops
  <2>4. p.try[s][Min(stops)] # HitLimit
    <3>. HIDE DEF stops
    <3>. QED BY <2>3 DEF ToSet
  <2>. QED BY <1>1, <1>3, <2>4
<1>. QED BY <1>1, <1>2, <1>3

\* What starts at s or later starts at pos or later.
LEMMA ResultsGrow ==
    ASSUME NEW p, IsPattern(p), NEW pos \in Boundaries(p), NEW s \in Boundaries(p), s >= pos
    PROVE  Results(p, s) \subseteq Results(p, pos)
BY DEF IsPattern, Results, MatchesFrom, Found, Boundaries

\* A search returns what match() does at some start.
LEMMA SearchIsMatchAt ==
    ASSUME NEW p, IsPattern(p), NEW pos \in Boundaries(p), NEW opts,
           Search(p, pos, opts) # NoMatch
    PROVE  \E s \in Boundaries(p) : Search(p, pos, opts) = MatchAt(p, s, pos, opts)
<1>. DEFINE starts == {s \in Boundaries(p) :
                         /\ s >= pos
                         /\ "ANCHORED" \in opts => s = pos
                         /\ MatchAt(p, s, pos, opts) # NoMatch}
<1>1. starts # {} /\ Search(p, pos, opts) = MatchAt(p, Min(starts), pos, opts)
    BY DEF Search, Boundaries
<1>2. starts \in SUBSET Nat
    BY DEF IsPattern, Boundaries
<1>. QED BY <1>1, <1>2, MinNat

\* A search from pos finds nothing, hits the limit, or finds a match that starts
\* at pos or later and that the options accept.
LEMMA SearchFinds ==
    ASSUME NEW p, IsPattern(p), NEW pos \in Boundaries(p), NEW opts
    PROVE  /\ Search(p, pos, opts) \in Results(p, pos)
           /\ Search(p, pos, opts).rc = "match" => Accepts(p, Search(p, pos, opts), pos, opts)
<1>. DEFINE starts == {s \in Boundaries(p) :
                         /\ s >= pos
                         /\ "ANCHORED" \in opts => s = pos
                         /\ MatchAt(p, s, pos, opts) # NoMatch}
<1>1. CASE starts = {}
    BY <1>1 DEF Search, Results, NoMatch, Boundaries
<1>2. CASE starts # {}
  <2>1. starts \in SUBSET Nat
      BY DEF IsPattern, Boundaries
  <2>2. Min(starts) \in Boundaries(p) /\ Min(starts) >= pos
      BY <1>2, <2>1, MinNat
  <2>3. Search(p, pos, opts) = MatchAt(p, Min(starts), pos, opts)
      BY <1>2 DEF Search, Boundaries
  <2>. QED BY <2>2, <2>3, MatchAtStart, ResultsGrow
<1>. QED BY <1>1, <1>2

------------------------------------------------------------------------------
(* The cursor.                                                             *)

\* What pcre2_next_match may forbid the next search.
NextOpts == {{}, {"NOTEMPTY_ATSTART"}}

\* pcre2_next_match moves on, or forbids the empty match where it stays; so the
\* next search cannot find the same match again.
LEMMA NextCursorAdvances ==
    ASSUME NEW p, IsPattern(p), NEW pos \in Boundaries(p), NEW opts,
           NEW r \in MatchesFrom(p, pos), Accepts(p, r, pos, opts),
           NEW n, n = NextCursor(p, r, pos)
    PROVE  /\ n.more \in BOOLEAN /\ n.pos \in Boundaries(p) /\ n.opts \in NextOpts
           /\ n.more => \/ n.pos > pos
                        \/ n.pos = pos /\ "NOTEMPTY_ATSTART" \in n.opts \ opts
<1>1. /\ r.from \in Boundaries(p) /\ r.to \in Boundaries(p)
      /\ r.from \in Nat /\ r.to \in Nat /\ pos \in Nat
      /\ pos <= r.from /\ r.from <= r.to
    BY MatchShape
<1>2. ~(r.from # pos /\ r.to = pos)
    BY <1>1
<1>3. CASE ~IsEmpty(r)
    BY <1>1, <1>2, <1>3 DEF NextCursor, NextOpts, IsEmpty
<1>4. CASE IsEmpty(r) /\ r.from >= Length(p)
    BY <1>1, <1>2, <1>4 DEF NextCursor, NextOpts, IsEmpty
<1>5. CASE IsEmpty(r) /\ ~(r.from >= Length(p))
    BY <1>1, <1>2, <1>5 DEF NextCursor, NextOpts, IsEmpty, Accepts
<1>. QED BY <1>3, <1>4, <1>5

------------------------------------------------------------------------------
(* Scans.                                                                  *)

\* The states of a scan that began with the options o.
ScanStates(p, o) ==
    [matches : Seq(MatchesFrom(p, 0)), pos : Boundaries(p), opts : {o} \cup NextOpts,
     status : {"more", "end", "matchlimit"}]

\* The matches from an offset are matches of the subject.
LEMMA MatchesGrow ==
    ASSUME NEW p, IsPattern(p), NEW pos \in Boundaries(p)
    PROVE  MatchesFrom(p, pos) \subseteq MatchesFrom(p, 0)
BY DEF IsPattern, MatchesFrom, Found, Boundaries

\* What the next search, with the result r and the cursor n after it, makes of
\* the scan c.
GoesOn(p, c, r, n, d) ==
    \/ /\ r.rc = "match" /\ r \in MatchesFrom(p, c.pos) /\ n.more
       /\ d = [matches |-> Append(c.matches, r), pos |-> n.pos, opts |-> n.opts,
               status |-> "more"]
       /\ n.pos \in Boundaries(p) /\ n.opts \in NextOpts
       /\ n.pos > c.pos \/ (n.pos = c.pos /\ "NOTEMPTY_ATSTART" \in n.opts \ c.opts)
    \/ /\ r.rc = "match" /\ r \in MatchesFrom(p, c.pos) /\ ~n.more
       /\ d = [matches |-> Append(c.matches, r), pos |-> n.pos, opts |-> n.opts,
               status |-> "end"]
       /\ n.pos \in Boundaries(p) /\ n.opts \in NextOpts
    \/ r.rc = "nomatch" /\ d = [c EXCEPT !.status = "end"]
    \/ r.rc = "matchlimit" /\ d = [c EXCEPT !.status = "matchlimit"]

\* A search moves the scan on, or ends it with its last match, with none, or at
\* the match limit.
LEMMA GoOnByCases ==
    ASSUME NEW p, IsPattern(p), NEW o, NEW c \in ScanStates(p, o), c.status = "more",
           NEW r, r = Search(p, c.pos, c.opts), NEW n, n = NextCursor(p, r, c.pos)
    PROVE  GoesOn(p, c, r, n, GoOn(p, c))
<1>1. c.pos \in Boundaries(p)
    BY DEF ScanStates
<1>2. r \in Results(p, c.pos) /\ (r.rc = "match" => Accepts(p, r, c.pos, c.opts))
    BY <1>1, SearchFinds
<1>3. GoOn(p, c) = Continue(p, c, r)
    BY DEF GoOn
<1>4. CASE r = NoMatch
    BY <1>3, <1>4 DEF NoMatch, Continue, GoesOn
<1>5. CASE r = HitLimit
    BY <1>3, <1>5 DEF HitLimit, Continue, GoesOn
<1>6. CASE r \in MatchesFrom(p, c.pos)
  <2>1. r.rc = "match"
      BY <1>1, <1>6, MatchShape
  <2>2. /\ n.more \in BOOLEAN /\ n.pos \in Boundaries(p) /\ n.opts \in NextOpts
        /\ n.more => \/ n.pos > c.pos
                     \/ n.pos = c.pos /\ "NOTEMPTY_ATSTART" \in n.opts \ c.opts
      BY <1>1, <1>2, <1>6, <2>1, NextCursorAdvances
  <2>3. GoOn(p, c) = Extend(c, r, n)
      BY <1>3, <2>1 DEF Continue
  <2>. QED BY <1>6, <2>1, <2>2, <2>3 DEF Extend, GoesOn
<1>. QED BY <1>2, <1>4, <1>5, <1>6 DEF Results

\* One more search keeps the type of a scan ...
LEMMA GoOnIsState ==
    ASSUME NEW p, IsPattern(p), NEW o, NEW c \in ScanStates(p, o)
    PROVE  GoOn(p, c) \in ScanStates(p, o)
<1>1. CASE c.status # "more"
    BY <1>1 DEF GoOn
<1>2. CASE c.status = "more"
  <2>. DEFINE r == Search(p, c.pos, c.opts)
              n == NextCursor(p, r, c.pos)
  <2>1. c.pos \in Boundaries(p) /\ c.matches \in Seq(MatchesFrom(p, 0))
      BY DEF ScanStates
  <2>2. r \in MatchesFrom(p, c.pos) => Append(c.matches, r) \in Seq(MatchesFrom(p, 0))
      BY <2>1, MatchesGrow
  <2>3. \/ /\ r \in MatchesFrom(p, c.pos) /\ n.pos \in Boundaries(p) /\ n.opts \in NextOpts
           /\ \E s \in {"more", "end"} :
                 GoOn(p, c) = [matches |-> Append(c.matches, r), pos |-> n.pos,
                               opts |-> n.opts, status |-> s]
        \/ \E s \in {"end", "matchlimit"} : GoOn(p, c) = [c EXCEPT !.status = s]
    <3>1. GoesOn(p, c, r, n, GoOn(p, c))
        BY <1>2, GoOnByCases
    <3>. QED BY <3>1 DEF GoesOn
  <2>. HIDE DEF r, n
  <2>4. CASE \E s \in {"end", "matchlimit"} : GoOn(p, c) = [c EXCEPT !.status = s]
      BY <2>4 DEF ScanStates
  <2>5. ASSUME r \in MatchesFrom(p, c.pos), n.pos \in Boundaries(p), n.opts \in NextOpts,
               NEW s \in {"more", "end"},
               GoOn(p, c) = [matches |-> Append(c.matches, r), pos |-> n.pos,
                             opts |-> n.opts, status |-> s]
        PROVE  GoOn(p, c) \in ScanStates(p, o)
    <3>. DEFINE found == Append(c.matches, r)
    <3>1. found \in Seq(MatchesFrom(p, 0))
        BY <2>2, <2>5
    <3>. HIDE DEF found
    <3>2. GoOn(p, c) = [matches |-> found, pos |-> n.pos, opts |-> n.opts, status |-> s]
        BY <2>5 DEF found
    <3>. QED BY <2>5, <3>1, <3>2 DEF ScanStates
  <2>. QED BY <2>3, <2>4, <2>5
<1>. QED BY <1>1, <1>2

\* ... and a scan starts with it.
LEMMA NoneYetIsState ==
    ASSUME NEW p, IsPattern(p), NEW pos \in Boundaries(p), NEW o
    PROVE  NoneYet(pos, o) \in ScanStates(p, o)
BY DEF NoneYet, ScanStates

\* The recursive definition of Scan says what it seems to say.
LEMMA ScanUnfolds ==
    ASSUME NEW p, IsPattern(p), NEW pos \in Boundaries(p), NEW o
    PROVE  /\ Scan(p, pos, o) \in [Nat -> ScanStates(p, o)]
           /\ Scan(p, pos, o)[0] = NoneYet(pos, o)
           /\ \A k \in Nat : Scan(p, pos, o)[k + 1] = GoOn(p, Scan(p, pos, o)[k])
<1>. DEFINE D == ScanStates(p, o)
            step == [c \in D |-> GoOn(p, c)]
            Is(f) == f = [k \in Nat |-> IF k = 0 THEN NoneYet(pos, o) ELSE GoOn(p, f[k - 1])]
<1>1. NoneYet(pos, o) \in D /\ step \in [D -> D]
    BY NoneYetIsState, GoOnIsState
<1>2. PICK f \in [Nat -> D] : f[0] = NoneYet(pos, o) /\ \A n \in Nat : f[n + 1] = step[f[n]]
  <2>. HIDE DEF D, step
  <2>. QED BY <1>1, Recursion
<1>3. Is(f)
  <2>1. ASSUME NEW k \in Nat, k # 0 PROVE f[k] = GoOn(p, f[k - 1])
    <3>1. k - 1 \in Nat /\ k - 1 + 1 = k
        BY <2>1
    <3>2. f[k - 1 + 1] = step[f[k - 1]] /\ f[k - 1] \in D
      <4>. HIDE DEF D, step
      <4>. QED BY <1>2, <3>1
    <3>3. f[k] = step[f[k - 1]]
        BY <3>1, <3>2
    <3>. HIDE DEF D
    <3>. QED BY <3>2, <3>3
  <2>. QED BY <1>2, <2>1
<1>4. Scan(p, pos, o) = CHOOSE g : Is(g)
    BY DEF Scan
<1>5. Is(Scan(p, pos, o))
    BY <1>3, <1>4
<1>. DEFINE g == Scan(p, pos, o)
<1>. HIDE DEF g
<1>6. g = [k \in Nat |-> IF k = 0 THEN NoneYet(pos, o) ELSE GoOn(p, g[k - 1])]
    BY <1>5 DEF g
<1>7. g[0] = NoneYet(pos, o) /\ \A k \in Nat : g[k + 1] = GoOn(p, g[k])
  <2>1. ASSUME NEW k \in Nat PROVE g[k + 1] = GoOn(p, g[k])
    <3>1. k + 1 \in Nat /\ k + 1 # 0 /\ k + 1 - 1 = k
        OBVIOUS
    <3>. QED BY <1>6, <3>1
  <2>. QED BY <1>6, <2>1
<1>8. \A k \in Nat : g[k] \in D
  <2>. DEFINE T == {k \in Nat : g[k] \in D}
  <2>1. 0 \in T
      BY <1>1, <1>7
  <2>2. ASSUME NEW k \in Nat, k \in T PROVE k + 1 \in T
      BY <1>7, <2>2, GoOnIsState
  <2>. HIDE DEF T
  <2>3. \A k \in Nat : k \in T
      BY <2>1, <2>2, Induction
  <2>. QED BY <2>3 DEF T
<1>. QED BY <1>6, <1>7, <1>8 DEF g

\* What is left to do: two searches at each offset, the second of which excludes
\* the empty match.
Left(p, c) ==
    2 * (Length(p) - c.pos) + IF "NOTEMPTY_ATSTART" \in c.opts THEN 0 ELSE 1

\* The measure is a natural number, at most that of a scan of the whole subject.
LEMMA LeftIsNat ==
    ASSUME NEW p, IsPattern(p), NEW o, NEW c \in ScanStates(p, o)
    PROVE  Left(p, c) \in Nat /\ Left(p, c) <= 2 * Length(p) + 1
<1>1. /\ c.pos \in Boundaries(p) /\ Length(p) \in Nat
      /\ c.pos \in Nat /\ c.pos <= Length(p)
    BY LengthIsLast DEF ScanStates
<1>. QED BY <1>1 DEF Left

\* Every search that the scan survives leaves less to do.
LEMMA LeftDecreases ==
    ASSUME NEW p, IsPattern(p), NEW o, NEW c \in ScanStates(p, o),
           c.status = "more", GoOn(p, c).status = "more"
    PROVE  Left(p, GoOn(p, c)) < Left(p, c)
<1>. DEFINE d == GoOn(p, c)
<1>1. /\ d.pos \in Boundaries(p)
      /\ d.pos > c.pos \/ (d.pos = c.pos /\ "NOTEMPTY_ATSTART" \in d.opts \ c.opts)
  <2>. DEFINE r == Search(p, c.pos, c.opts)
              n == NextCursor(p, r, c.pos)
  <2>1. CASE /\ d = [matches |-> Append(c.matches, r), pos |-> n.pos,
                     opts |-> n.opts, status |-> "more"]
             /\ n.pos \in Boundaries(p)
             /\ n.pos > c.pos \/ (n.pos = c.pos /\ "NOTEMPTY_ATSTART" \in n.opts \ c.opts)
    <3>. HIDE DEF d, r, n
    <3>. QED BY <2>1
  <2>2. CASE d = [matches |-> Append(c.matches, r), pos |-> n.pos,
                  opts |-> n.opts, status |-> "end"]
    <3>. HIDE DEF r, n
    <3>. QED BY <2>2
  <2>3. CASE \E s \in {"end", "matchlimit"} : d = [c EXCEPT !.status = s]
    <3>. HIDE DEF d
    <3>1. d.status # "more"
        BY <2>3 DEF ScanStates
    <3>. QED BY <3>1 DEF d
  <2>4. GoesOn(p, c, r, n, d)
      BY GoOnByCases
  <2>. HIDE DEF d, r, n
  <2>. QED BY <2>1, <2>2, <2>3, <2>4 DEF GoesOn
<1>2. c.pos \in Boundaries(p)
    BY DEF ScanStates
<1>3. /\ Length(p) \in Nat /\ c.pos \in Nat /\ c.pos <= Length(p)
      /\ d.pos \in Nat /\ d.pos <= Length(p)
    BY <1>1, <1>2, LengthIsLast
<1>. HIDE DEF d
<1>4. Left(p, d) < Left(p, c)
    BY <1>1, <1>3 DEF Left
<1>. QED BY <1>4 DEF d

\* Every scan ends: FullScan makes more searches than a scan can.
THEOREM ScanEnds ==
    ASSUME NEW p, IsPattern(p), NEW pos \in Boundaries(p), NEW o,
           NEW k \in Nat, Scan(p, pos, o)[k].status = "more"
    PROVE  k <= 2 * Length(p) + 1
<1>. DEFINE s == Scan(p, pos, o)
            D == ScanStates(p, o)
            T == {i \in Nat : s[i].status = "more" => i + Left(p, s[i]) <= Left(p, s[0])}
<1>1. /\ \A i \in Nat : s[i] \in D
      /\ \A i \in Nat : s[i + 1] = GoOn(p, s[i])
    BY ScanUnfolds
<1>. HIDE DEF s
<1>2. \A i \in Nat : Left(p, s[i]) \in Nat /\ Left(p, s[i]) <= 2 * Length(p) + 1
    BY <1>1, LeftIsNat
<1>3. 0 \in T
    BY <1>2
<1>4. ASSUME NEW i \in Nat, i \in T PROVE i + 1 \in T
  <2>1. SUFFICES ASSUME s[i + 1].status = "more"
                 PROVE  i + 1 + Left(p, s[i + 1]) <= Left(p, s[0])
      OBVIOUS
  <2>2. s[i] \in D /\ s[i + 1] = GoOn(p, s[i])
      BY <1>1
  <2>3. s[i].status = "more"
      BY <2>1, <2>2 DEF GoOn
  <2>4. Left(p, s[i + 1]) < Left(p, s[i])
    <3>. HIDE DEF D
    <3>. QED BY <2>1, <2>2, <2>3, LeftDecreases DEF D
  <2>5. i + Left(p, s[i]) <= Left(p, s[0])
      BY <1>4, <2>3
  <2>. QED BY <1>2, <2>4, <2>5
<1>5. k \in T
  <2>. HIDE DEF T
  <2>. QED BY <1>3, <1>4, Induction
<1>6. s[k].status = "more"
    BY DEF s
<1>7. Length(p) \in Nat
    BY LengthIsLast
<1>. QED BY <1>2, <1>5, <1>6, <1>7

\* The scan c after a scan that gave ms.
Glue(ms, c) ==
    [matches |-> ms \o c.matches, pos |-> c.pos, opts |-> c.opts, status |-> c.status]

\* A search does not look at the matches found before.
LEMMA GoOnGlue ==
    ASSUME NEW p, IsPattern(p), NEW o, NEW c \in ScanStates(p, o),
           NEW ms \in Seq(MatchesFrom(p, 0))
    PROVE  GoOn(p, Glue(ms, c)) = Glue(ms, GoOn(p, c))
<1>. DEFINE r == Search(p, c.pos, c.opts)
            n == NextCursor(p, r, c.pos)
            g == Glue(ms, c)
<1>1. /\ c = [matches |-> c.matches, pos |-> c.pos, opts |-> c.opts, status |-> c.status]
      /\ c.matches \in Seq(MatchesFrom(p, 0)) /\ c.pos \in Boundaries(p)
    BY DEF ScanStates
<1>2. g = [matches |-> ms \o c.matches, pos |-> c.pos, opts |-> c.opts, status |-> c.status]
    BY <1>1 DEF Glue
<1>3. CASE c.status # "more"
    BY <1>2, <1>3 DEF GoOn
<1>4. CASE c.status = "more" /\ r.rc = "match"
  <2>1. r \in MatchesFrom(p, 0)
    <3>1. r \in Results(p, c.pos)
        BY <1>1, SearchFinds
    <3>2. NoMatch.rc # "match" /\ HitLimit.rc # "match"
        BY DEF NoMatch, HitLimit
    <3>. QED BY <1>1, <1>4, <3>1, <3>2, MatchesGrow DEF Results
  <2>2. Append(ms \o c.matches, r) = ms \o Append(c.matches, r)
    <3>. HIDE DEF r
    <3>. QED BY <1>1, <2>1
  <2>3. GoOn(p, c) = Extend(c, r, n)
      BY <1>4 DEF GoOn, Continue
  <2>4. GoOn(p, g) = Extend(g, r, n)
    <3>. HIDE DEF g
    <3>. QED BY <1>2, <1>4 DEF GoOn, Continue
  <2>. HIDE DEF r, n, g
  <2>5. Extend(g, r, n) = Glue(ms, Extend(c, r, n))
      BY <1>2, <2>2 DEF Extend, Glue
  <2>. QED BY <2>3, <2>4, <2>5 DEF g
<1>5. CASE c.status = "more" /\ r.rc # "match"
  <2>. DEFINE s == IF r.rc = "nomatch" THEN "end" ELSE r.rc
  <2>3. GoOn(p, c) = [c EXCEPT !.status = s]
      BY <1>5 DEF GoOn, Continue
  <2>4. GoOn(p, g) = [g EXCEPT !.status = s]
    <3>. HIDE DEF g
    <3>. QED BY <1>2, <1>5 DEF GoOn, Continue
  <2>. HIDE DEF s, g, r
  <2>5. [g EXCEPT !.status = s] = Glue(ms, [c EXCEPT !.status = s])
    <3>1. [c EXCEPT !.status = s] = [matches |-> c.matches, pos |-> c.pos,
                                     opts |-> c.opts, status |-> s]
        BY DEF ScanStates
    <3>2. [g EXCEPT !.status = s] = [matches |-> ms \o c.matches, pos |-> c.pos,
                                     opts |-> c.opts, status |-> s]
      <4>. DEFINE m == ms \o c.matches
      <4>1. g = [matches |-> m, pos |-> c.pos, opts |-> c.opts, status |-> "more"]
          BY <1>2, <1>5
      <4>. HIDE DEF m
      <4>2. [g EXCEPT !.status = s] = [matches |-> m, pos |-> c.pos, opts |-> c.opts,
                                       status |-> s]
          BY <4>1
      <4>. QED BY <4>2 DEF m
    <3>. QED BY <3>1, <3>2 DEF Glue
  <2>. QED BY <2>3, <2>4, <2>5 DEF g
<1>. QED BY <1>3, <1>4, <1>5

\* What is searched after k searches is a scan of its own.
LEMMA ScanSplits ==
    ASSUME NEW p, IsPattern(p), NEW pos \in Boundaries(p), NEW o, NEW k \in Nat,
           NEW c, c = Scan(p, pos, o)[k], c.status = "more", NEW j \in Nat
    PROVE  Scan(p, pos, o)[k + j] = Glue(c.matches, Scan(p, c.pos, c.opts)[j])
<1>. DEFINE s == Scan(p, pos, o)
            t == Scan(p, c.pos, c.opts)
            T == {i \in Nat : s[k + i] = Glue(c.matches, t[i])}
<1>1. /\ c \in ScanStates(p, o)
      /\ \A i \in Nat : s[i + 1] = GoOn(p, s[i])
    BY ScanUnfolds
<1>2. c.pos \in Boundaries(p) /\ c.matches \in Seq(MatchesFrom(p, 0))
    BY <1>1 DEF ScanStates
<1>3. /\ t[0] = NoneYet(c.pos, c.opts)
      /\ \A i \in Nat : t[i] \in ScanStates(p, c.opts) /\ t[i + 1] = GoOn(p, t[i])
  <2>1. /\ t \in [Nat -> ScanStates(p, c.opts)]
        /\ t[0] = NoneYet(c.pos, c.opts)
        /\ \A i \in Nat : t[i + 1] = GoOn(p, t[i])
    <3>1. ASSUME NEW w \in Boundaries(p), NEW q
          PROVE  /\ Scan(p, w, q) \in [Nat -> ScanStates(p, q)]
                 /\ Scan(p, w, q)[0] = NoneYet(w, q)
                 /\ \A i \in Nat : Scan(p, w, q)[i + 1] = GoOn(p, Scan(p, w, q)[i])
        BY ScanUnfolds
    <3>. QED BY <1>2, <3>1
  <2>. HIDE DEF t
  <2>. QED BY <2>1
<1>4. s[k] = c
    OBVIOUS
<1>. HIDE DEF s, t
<1>5. 0 \in T
  <2>1. c = [matches |-> c.matches, pos |-> c.pos, opts |-> c.opts, status |-> "more"]
      BY <1>1 DEF ScanStates
  <2>2. c.matches \o <<>> = c.matches
      BY <1>2
  <2>3. Glue(c.matches, NoneYet(c.pos, c.opts)) = c
      BY <2>1, <2>2 DEF Glue, NoneYet
  <2>. QED BY <1>3, <1>4, <2>3
<1>6. ASSUME NEW i \in Nat, i \in T PROVE i + 1 \in T
  <2>1. s[k + i + 1] = GoOn(p, s[k + i]) /\ k + i + 1 = k + (i + 1)
      BY <1>1
  <2>2. GoOn(p, Glue(c.matches, t[i])) = Glue(c.matches, t[i + 1])
    <3>1. t[i] \in ScanStates(p, c.opts) /\ t[i + 1] = GoOn(p, t[i])
        BY <1>3
    <3>. QED BY <1>2, <3>1, GoOnGlue
  <2>. QED BY <1>6, <2>1, <2>2
<1>7. j \in T
  <2>. HIDE DEF T
  <2>. QED BY <1>5, <1>6, Induction
<1>. QED BY <1>7 DEF s, t

\* A scan that is over stays as it is.
LEMMA ScanStays ==
    ASSUME NEW p, IsPattern(p), NEW pos \in Boundaries(p), NEW o, NEW k \in Nat,
           Scan(p, pos, o)[k].status # "more", NEW j \in Nat
    PROVE  Scan(p, pos, o)[k + j] = Scan(p, pos, o)[k]
<1>. DEFINE s == Scan(p, pos, o)
            T == {i \in Nat : s[k + i] = s[k]}
<1>1. \A i \in Nat : s[i + 1] = GoOn(p, s[i])
    BY ScanUnfolds
<1>2. s[k].status # "more"
    OBVIOUS
<1>. HIDE DEF s
<1>3. 0 \in T
    OBVIOUS
<1>4. ASSUME NEW i \in Nat, i \in T PROVE i + 1 \in T
  <2>1. s[k + i + 1] = GoOn(p, s[k + i]) /\ k + i + 1 = k + (i + 1)
      BY <1>1
  <2>. QED BY <1>2, <1>4, <2>1 DEF GoOn
<1>5. j \in T
  <2>. HIDE DEF T
  <2>. QED BY <1>3, <1>4, Induction
<1>. QED BY <1>5 DEF s

\* The full scan is over, and is any number of its searches followed by the full
\* scan from where they lead.
LEMMA FullSplits ==
    ASSUME NEW p, IsPattern(p), NEW pos \in Boundaries(p), NEW o, NEW k \in Nat,
           NEW c, c = Scan(p, pos, o)[k]
    PROVE  /\ FullScan(p, pos, o) \in ScanStates(p, o)
           /\ FullScan(p, pos, o).status # "more"
           /\ c \in ScanStates(p, o)
           /\ FullScan(p, pos, o) = IF c.status = "more"
                                    THEN Glue(c.matches, FullScan(p, c.pos, c.opts)) ELSE c
<1>. DEFINE N == 2 * Length(p) + 3
            s == Scan(p, pos, o)
<1>1. N \in Nat /\ ~(N <= 2 * Length(p) + 1)
    BY LengthIsLast
<1>2. FullScan(p, pos, o) = s[N]
    BY DEF FullScan
<1>3. s[N].status # "more"
    BY <1>1, ScanEnds
<1>4. s[N] \in ScanStates(p, o) /\ s[k] \in ScanStates(p, o)
    BY <1>1, ScanUnfolds
<1>5. s[N + k] = s[N]
    BY <1>1, <1>3, ScanStays
<1>6. CASE c.status = "more"
  <2>1. FullScan(p, c.pos, c.opts) = Scan(p, c.pos, c.opts)[N]
      BY DEF FullScan
  <2>2. s[k + N] = Glue(c.matches, Scan(p, c.pos, c.opts)[N])
      BY <1>1, <1>6, ScanSplits
  <2>3. k + N = N + k
      BY <1>1
  <2>. QED BY <1>2, <1>3, <1>4, <1>5, <1>6, <2>1, <2>2, <2>3
<1>7. CASE c.status # "more"
  <2>1. s[k + N] = c
      BY <1>1, <1>7, ScanStays
  <2>2. k + N = N + k
      BY <1>1
  <2>. QED BY <1>2, <1>3, <1>4, <1>5, <1>7, <2>1, <2>2
<1>. QED BY <1>6, <1>7

\* What the full scan gives are matches of the subject.
LEMMA FullIsState ==
    ASSUME NEW p, IsPattern(p), NEW pos0 \in Boundaries(p), NEW o
    PROVE  /\ FullScan(p, pos0, o) \in ScanStates(p, o)
           /\ FullScan(p, pos0, o).matches \in Seq(MatchesFrom(p, 0))
<1>1. FullScan(p, pos0, o) \in ScanStates(p, o)
    BY FullSplits, 0 \in Nat
<1>. QED BY <1>1 DEF ScanStates

\* The full scan is its first search, with the result r and the cursor n after
\* it, followed by the full scan from there.
BeginsWith(p, pos, o, r, n) ==
    LET full == FullScan(p, pos, o)
    IN  \/ /\ r.rc = "match" /\ r \in MatchesFrom(p, pos)
           /\ n.more /\ n.pos \in Boundaries(p) /\ n.opts \in NextOpts
           /\ n.pos > pos \/ (n.pos = pos /\ "NOTEMPTY_ATSTART" \in n.opts \ o)
           /\ full = Glue(<<r>>, FullScan(p, n.pos, n.opts))
        \/ /\ r.rc = "match" /\ r \in MatchesFrom(p, pos) /\ ~n.more
           /\ full.matches = <<r>> /\ full.status = "end"
        \/ r.rc = "nomatch" /\ full.matches = <<>> /\ full.status = "end"
        \/ r.rc = "matchlimit" /\ full.matches = <<>> /\ full.status = "matchlimit"

\* The two ways a full scan can begin, for every pattern and start.
LEMMA FullByFirstSearch ==
    ASSUME NEW p, IsPattern(p), NEW pos \in Boundaries(p), NEW o,
           NEW r, r = Search(p, pos, o), NEW n, n = NextCursor(p, r, pos)
    PROVE  BeginsWith(p, pos, o, r, n)
<1>. DEFINE full == FullScan(p, pos, o)
            z == NoneYet(pos, o)
            c == GoOn(p, z)
<1>1. z \in ScanStates(p, o)
    BY NoneYetIsState
<1>2. z.matches = <<>> /\ z.pos = pos /\ z.opts = o /\ z.status = "more"
    BY DEF NoneYet
<1>3. Scan(p, pos, o)[1] = c
    BY ScanUnfolds
<1>4. full = IF c.status = "more" THEN Glue(c.matches, FullScan(p, c.pos, c.opts)) ELSE c
    BY <1>3, FullSplits
<1>. HIDE DEF z
<1>5. CASE /\ r.rc = "match" /\ r \in MatchesFrom(p, z.pos) /\ n.more
           /\ c = [matches |-> Append(z.matches, r), pos |-> n.pos,
                   opts |-> n.opts, status |-> "more"]
           /\ n.pos \in Boundaries(p) /\ n.opts \in NextOpts
           /\ n.pos > z.pos \/ (n.pos = z.pos /\ "NOTEMPTY_ATSTART" \in n.opts \ z.opts)
  <2>1. c.matches = <<r>> /\ c.pos = n.pos /\ c.opts = n.opts /\ c.status = "more"
    <3>. HIDE DEF c
    <3>. QED BY <1>2, <1>5
  <2>. HIDE DEF c
  <2>. QED BY <1>2, <1>4, <1>5, <2>1 DEF BeginsWith
<1>6. CASE /\ r.rc = "match" /\ r \in MatchesFrom(p, z.pos) /\ ~n.more
           /\ c = [matches |-> Append(z.matches, r), pos |-> n.pos,
                   opts |-> n.opts, status |-> "end"]
  <2>1. c.matches = <<r>> /\ c.status = "end"
    <3>. HIDE DEF c
    <3>. QED BY <1>2, <1>6
  <2>. HIDE DEF c
  <2>. QED BY <1>2, <1>4, <1>6, <2>1 DEF BeginsWith
<1>7. ASSUME NEW s \in {"end", "matchlimit"}, c = [z EXCEPT !.status = s]
      PROVE  full.matches = <<>> /\ full.status = s
  <2>1. c.matches = <<>> /\ c.status = s
    <3>. HIDE DEF c
    <3>. QED BY <1>1, <1>2, <1>7 DEF ScanStates
  <2>. HIDE DEF c
  <2>. QED BY <1>4, <2>1
<1>8. GoesOn(p, z, r, n, c)
    BY <1>1, <1>2, GoOnByCases
<1>. HIDE DEF c
<1>. QED BY <1>5, <1>6, <1>7, <1>8 DEF GoesOn, BeginsWith

\* A sequence is a prefix of what is appended to it.
LEMMA PrefixOfConcat ==
    ASSUME NEW S, NEW s \in Seq(S), NEW t \in Seq(S)
    PROVE  IsPrefix(s, s \o t)
<1>1. Len(s \o t) = Len(s) + Len(t) /\ \A i \in 1..Len(s) : (s \o t)[i] = s[i]
    OBVIOUS
<1>2. SubSeq(s, 1, Len(s)) = SubSeq(s \o t, 1, Len(s))
    BY <1>1
<1>. QED BY <1>1, <1>2 DEF IsPrefix

\* A scan that goes on has found a match with every search.
LEMMA MoreFound ==
    ASSUME NEW p, IsPattern(p), NEW pos \in Boundaries(p), NEW o,
           NEW k \in Nat, Scan(p, pos, o)[k].status = "more"
    PROVE  Len(Scan(p, pos, o)[k].matches) = k
<1>. DEFINE s == Scan(p, pos, o)
            T == {i \in Nat : s[i].status = "more" => Len(s[i].matches) = i}
<1>1. /\ s[0] = NoneYet(pos, o)
      /\ \A i \in Nat : s[i] \in ScanStates(p, o) /\ s[i + 1] = GoOn(p, s[i])
  <2>1. /\ s \in [Nat -> ScanStates(p, o)] /\ s[0] = NoneYet(pos, o)
        /\ \A i \in Nat : s[i + 1] = GoOn(p, s[i])
      BY ScanUnfolds
  <2>. HIDE DEF s
  <2>. QED BY <2>1
<1>. HIDE DEF s
<1>2. 0 \in T
    BY <1>1 DEF NoneYet
<1>3. ASSUME NEW i \in Nat, i \in T PROVE i + 1 \in T
  <2>. DEFINE c == s[i]
              r == Search(p, c.pos, c.opts)
              n == NextCursor(p, r, c.pos)
  <2>1. SUFFICES ASSUME s[i + 1].status = "more" PROVE Len(s[i + 1].matches) = i + 1
      OBVIOUS
  <2>2. c \in ScanStates(p, o) /\ s[i + 1] = GoOn(p, c)
      BY <1>1
  <2>3. c.status = "more"
      BY <2>1, <2>2 DEF GoOn
  <2>4. Len(c.matches) = i /\ c.matches \in Seq(MatchesFrom(p, 0))
      BY <1>3, <2>2, <2>3 DEF ScanStates
  <2>5. GoesOn(p, c, r, n, s[i + 1])
      BY <2>2, <2>3, GoOnByCases
  <2>. HIDE DEF c, r, n
  <2>6. s[i + 1].matches = Append(c.matches, r)
    <3>1. ASSUME NEW t \in {"end", "matchlimit"}, s[i + 1] = [c EXCEPT !.status = t]
          PROVE  FALSE
      <4>1. s[i + 1].status = t
          BY <2>2, <3>1 DEF ScanStates
      <4>. QED BY <2>1, <4>1
    <3>2. s[i + 1] = [matches |-> Append(c.matches, r), pos |-> n.pos, opts |-> n.opts,
                      status |-> "end"] => s[i + 1].status = "end"
        OBVIOUS
    <3>. QED BY <2>1, <2>5, <3>1, <3>2 DEF GoesOn
  <2>. QED BY <2>4, <2>6
<1>4. k \in T
  <2>. HIDE DEF T
  <2>. QED BY <1>2, <1>3, Induction
<1>. QED BY <1>4 DEF s

\* Where no way to match ends at the match limit, no scan does.
LEMMA NoLimitNoError ==
    ASSUME NEW p, IsPattern(p), NEW pos \in Boundaries(p), NEW o,
           \A s \in Boundaries(p), w \in Boundaries(p) : \A q : MatchAt(p, s, w, q) # HitLimit
    PROVE  FullScan(p, pos, o).status = "end"
<1>. DEFINE s == Scan(p, pos, o)
            T == {i \in Nat : s[i].status # "matchlimit"}
            N == 2 * Length(p) + 3
<1>1. /\ s[0] = NoneYet(pos, o)
      /\ \A i \in Nat : s[i] \in ScanStates(p, o) /\ s[i + 1] = GoOn(p, s[i])
  <2>1. /\ s \in [Nat -> ScanStates(p, o)] /\ s[0] = NoneYet(pos, o)
        /\ \A i \in Nat : s[i + 1] = GoOn(p, s[i])
      BY ScanUnfolds
  <2>. HIDE DEF s
  <2>. QED BY <2>1
<1>2. FullScan(p, pos, o) = s[N] /\ N \in Nat
    BY LengthIsLast DEF FullScan
<1>. HIDE DEF s
<1>3. 0 \in T
    BY <1>1 DEF NoneYet
<1>4. ASSUME NEW i \in Nat, i \in T PROVE i + 1 \in T
  <2>. DEFINE c == s[i]
              r == Search(p, c.pos, c.opts)
              n == NextCursor(p, r, c.pos)
  <2>1. c \in ScanStates(p, o) /\ s[i + 1] = GoOn(p, c) /\ c.status # "matchlimit"
      BY <1>1, <1>4
  <2>2. CASE c.status # "more"
      BY <2>1, <2>2 DEF GoOn
  <2>3. CASE c.status = "more"
    <3>1. c.pos \in Boundaries(p)
        BY <2>1 DEF ScanStates
    <3>2. r.rc # "matchlimit"
      <4>1. r # HitLimit
        <5>1. r = NoMatch \/ \E b \in Boundaries(p) : r = MatchAt(p, b, c.pos, c.opts)
            BY <3>1, SearchIsMatchAt
        <5>. QED BY <3>1, <5>1 DEF NoMatch, HitLimit
      <4>2. r \in Results(p, c.pos)
          BY <3>1, SearchFinds
      <4>. HIDE DEF r
      <4>. QED BY <3>1, <4>1, <4>2, MatchShape DEF Results, NoMatch
    <3>3. GoesOn(p, c, r, n, s[i + 1])
        BY <2>1, <2>3, GoOnByCases
    <3>. HIDE DEF c, r, n
    <3>4. s[i + 1] = [c EXCEPT !.status = "end"] => s[i + 1].status = "end"
        BY <2>1 DEF ScanStates
    <3>5. \A t : s[i + 1] = [matches |-> Append(c.matches, r), pos |-> n.pos,
                             opts |-> n.opts, status |-> t] => s[i + 1].status = t
        OBVIOUS
    <3>6. s[i + 1].status # "matchlimit"
        BY <3>2, <3>3, <3>4, <3>5 DEF GoesOn
    <3>. QED BY <3>6
  <2>. QED BY <2>2, <2>3
<1>5. N \in T
  <2>. HIDE DEF T
  <2>. QED BY <1>2, <1>3, <1>4, Induction
<1>6. FullScan(p, pos, o).status \in {"end", "matchlimit"}
    BY FullSplits, 0 \in Nat DEF ScanStates
<1>. QED BY <1>2, <1>5, <1>6

\* A prefix is the same part of the whole, and so are its own prefixes.
LEMMA PrefixOfPrefix ==
    ASSUME NEW S, NEW s \in Seq(S), NEW t \in Seq(S), IsPrefix(s, t), NEW k \in 1..Len(s)
    PROVE  /\ SubSeq(s, 1, k) = SubSeq(t, 1, k)
           /\ IsPrefix(SubSeq(s, 1, k), t)
           /\ k <= Len(t)
<1>1. Len(s) <= Len(t) /\ SubSeq(s, 1, Len(s)) = SubSeq(t, 1, Len(s))
    BY DEF IsPrefix
<1>2. ASSUME NEW i \in 1..Len(s) PROVE s[i] = t[i]
  <2>1. SubSeq(s, 1, Len(s))[i] = s[i] /\ SubSeq(t, 1, Len(s))[i] = t[i]
      BY <1>1
  <2>. QED BY <1>1, <2>1
<1>3. SubSeq(s, 1, k) = SubSeq(t, 1, k)
    BY <1>1, <1>2
<1>4. Len(SubSeq(s, 1, k)) = k /\ SubSeq(SubSeq(s, 1, k), 1, k) = SubSeq(s, 1, k)
    OBVIOUS
<1>. QED BY <1>1, <1>3, <1>4 DEF IsPrefix
===============================================================================
