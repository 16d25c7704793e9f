---------------------------- MODULE BumpalongProofs ----------------------------
(***************************************************************************)
(* The bumpalong loop finds what it promises in any pattern and any        *)
(* subject, whatever it skips, if the facts that it skips by are sound.    *)
(* The inductive invariant says that no start behind start_match can       *)
(* match, and that what the scans remember is still true ahead of it.      *)
(***************************************************************************)
EXTENDS Pcre2Bumpalong, WellFoundedInduction, TLAPS

------------------------------------------------------------------------------
(* The inductive invariant.                                                *)

\* Where every scan of a call stops.
Reach == IF firstline THEN LineEnd(subject, call.offset) ELSE Len(subject)

\* The loop is in the subject, in its first line if it must be, and where the
\* call began if the pattern is anchored; and so is what the scans remember.
Places ==
    /\ pc \in {"ready", "seek", "check", "match", "done"}
    /\ program \in Programs
    /\ pc # "ready" =>
         /\ call \in Calls(program)
         /\ start_match \in call.offset..Reach
         /\ anchored => start_match = call.offset
         /\ memchr_found \in [1..2 -> {Nowhere} \cup 0..Reach]

\* No start of a set can match, nor one of the call up to another.
NoneIn(S) == \A at \in S : ~CanMatch(call, at)
RefusedBefore(from) == \A at \in call.offset..(from - 1) : ~CanMatch(call, at)
\* The characters up to where a scan found one are others.
Ahead(found, from, c) == \A i \in from..(found - 1) : subject[i + 1] # c
Running ==
    /\ result = NoMatch
    /\ RefusedBefore(start_match)
    /\ memchr_found[1] # Nowhere => Ahead(memchr_found[1], start_match, re.first.c)
    /\ memchr_found[2] # Nowhere => Ahead(memchr_found[2], start_match, fcc(re.first.c))
\* Where the caller's options let a match start.
Sought == {at \in call.offset..Reach : "ANCHORED" \in opts => at = call.offset}
\* The first of the accepted ways at a start.
FirstWay(k, at) == WaysAt(k, at)[Min(AcceptedAt(k, at))]
FoundFirst ==
    /\ RefusedBefore(start_match) /\ CanMatch(call, start_match)
    /\ result = Found(start_match, FirstWay(call, start_match))
\* What the loop has skipped cannot match, and so what it ends with is right.
Skips ==
    /\ pc \in {"seek", "check", "match"} => Running
    /\ pc = "done" => (result = NoMatch /\ NoneIn(Sought)) \/ FoundFirst

\* What the compiler promises.
Facts == FindsFirst /\ IsBounded /\ StartsWhereSought

------------------------------------------------------------------------------
(* Sets of natural numbers.                                                *)

\* Min of the community modules gives what it promises.
LEMMA MinNat ==
    ASSUME NEW T \in SUBSET Nat, T # {}
    PROVE  Min(T) \in T /\ \A m \in T : Min(T) <= m
<1>1. PICK n \in T : \A m \in T : ~(<<m, n>> \in OpToRel(<, Nat))
    BY NatLessThanWellFounded, WFMin
<1>2. \A m \in T : ~(m < n)
    BY <1>1 DEF OpToRel
<1>3. \A m \in T : n <= m
    BY <1>2
<1>. QED BY <1>3 DEF Min

\* And Max, of a set that has an upper bound.
LEMMA MaxNat ==
    ASSUME NEW b \in Nat, NEW T \in SUBSET (0..b), T # {}
    PROVE  Max(T) \in T /\ \A m \in T : m <= Max(T)
<1>. DEFINE U == {b - m : m \in T}
<1>1. U \in SUBSET Nat /\ U # {}
  <2>1. \A m \in T : m \in 0..b
      OBVIOUS
  <2>2. \A m \in T : b - m \in Nat
      BY <2>1
  <2>3. PICK t \in T : TRUE
      OBVIOUS
  <2>4. b - t \in U
      OBVIOUS
  <2>. QED BY <2>2, <2>4
<1>2. Min(U) \in U /\ \A m \in U : Min(U) <= m
    BY <1>1, MinNat
<1>3. PICK n \in T : Min(U) = b - n
    BY <1>2
<1>4. ASSUME NEW m \in T PROVE m <= n
  <2>1. m \in 0..b /\ n \in 0..b /\ b - m \in U
      OBVIOUS
  <2>. QED BY <2>1, <1>2, <1>3
<1>5. \A m \in T : n >= m
  <2>1. \A m \in T : m \in 0..b
      OBVIOUS
  <2>. QED BY <1>4, <2>1
<1>6. Max(T) \in T /\ \A m \in T : Max(T) >= m
    BY <1>5 DEF Max
<1>7. \A m \in T : m \in 0..b
    OBVIOUS
<1>. QED BY <1>6, <1>7

\* The least of some positions and the end.
LEMMA LeastOrEnd ==
    ASSUME NEW end \in Nat, NEW from \in 0..end, NEW S \in SUBSET (from..(end - 1))
    PROVE  LET m == Min({end} \cup S)
           IN  /\ m \in from..end
               /\ m < end => m \in S
               /\ \A i \in from..(m - 1) : i \notin S
<1>. DEFINE m == Min({end} \cup S)
<1>1. \A i \in S : i \in from..(end - 1)
    OBVIOUS
<1>2. {end} \cup S \in SUBSET Nat
    BY <1>1
<1>3. m \in {end} \cup S /\ \A i \in {end} \cup S : m <= i
    BY <1>2, MinNat
<1>. HIDE DEF m
<1>4. m \in from..end
    BY <1>1, <1>3
<1>5. m < end => m \in S
    BY <1>3, <1>4
<1>6. ASSUME NEW i \in from..(m - 1), i \in S PROVE FALSE
    BY <1>3, <1>4, <1>6
<1>7. m \in from..end /\ (m < end => m \in S) /\ \A i \in from..(m - 1) : i \notin S
    BY <1>4, <1>5, <1>6
<1>. QED BY <1>7 DEF m

------------------------------------------------------------------------------
(* Scans.                                                                  *)

\* memchr finds the first of the characters, or its end.
LEMMA MemchrFinds ==
    ASSUME NEW chars, NEW end \in Nat, NEW from \in 0..end
    PROVE  /\ Memchr(chars, from, end) \in from..end
           /\ \A i \in from..(Memchr(chars, from, end) - 1) : subject[i + 1] \notin chars
<1>. DEFINE S == {i \in from..(end - 1) : subject[i + 1] \in chars}
            m == Min({end} \cup S)
<1>1. S \in SUBSET (from..(end - 1))
    OBVIOUS
<1>2. m \in from..end /\ \A i \in from..(m - 1) : i \notin S
  <2>. HIDE DEF S
  <2>. QED BY <1>1, LeastOrEnd
<1>3. Memchr(chars, from, end) = m
    BY DEF Memchr
<1>. HIDE DEF m
<1>4. \A i \in from..(m - 1) : i \in from..(end - 1)
    BY <1>2
<1>5. \A i \in from..(m - 1) : subject[i + 1] \notin chars
    BY <1>2, <1>4
<1>. QED BY <1>2, <1>3, <1>5

\* The end of a line is in the subject, and only it is a newline.
LEMMA LineEnds ==
    ASSUME NEW s, Len(s) \in Nat, NEW from \in 0..Len(s)
    PROVE  /\ LineEnd(s, from) \in from..Len(s)
           /\ LineEnd(s, from) < Len(s) => s[LineEnd(s, from) + 1] = "LF"
           /\ \A i \in from..(LineEnd(s, from) - 1) : s[i + 1] # "LF"
<1>. DEFINE n == Len(s)
            S == {i \in from..(n - 1) : s[i + 1] = "LF"}
            m == Min({n} \cup S)
<1>1. S \in SUBSET (from..(n - 1))
    OBVIOUS
<1>2. m \in from..n /\ (m < n => m \in S) /\ \A i \in from..(m - 1) : i \notin S
  <2>1. n \in Nat /\ from \in 0..n
      OBVIOUS
  <2>. HIDE DEF S, n
  <2>. QED BY <2>1, <1>1, LeastOrEnd
<1>3. LineEnd(s, from) = m
    BY DEF LineEnd
<1>4. n \in Nat /\ from \in 0..n
    OBVIOUS
<1>. HIDE DEF m, n
<1>5. \A i \in from..(m - 1) : i \in from..(n - 1)
    BY <1>2, <1>4
<1>6. \A i \in from..(m - 1) : s[i + 1] # "LF"
    BY <1>2, <1>5
<1>7. m < n => s[m + 1] = "LF"
    BY <1>2
<1>. QED BY <1>2, <1>3, <1>6, <1>7 DEF n

\* It is the end of the line for each position in it.
LEMMA SameLine ==
    ASSUME NEW s, Len(s) \in Nat, NEW from \in 0..Len(s), NEW i \in from..LineEnd(s, from)
    PROVE  LineEnd(s, i) = LineEnd(s, from)
<1>. DEFINE e == LineEnd(s, from)
            f == LineEnd(s, i)
<1>1. /\ e \in from..Len(s)
      /\ e < Len(s) => s[e + 1] = "LF"
      /\ \A j \in from..(e - 1) : s[j + 1] # "LF"
    BY LineEnds
<1>2. i \in 0..Len(s) /\ i \in from..Len(s)
    BY <1>1
<1>3. /\ f \in i..Len(s)
      /\ f < Len(s) => s[f + 1] = "LF"
      /\ \A j \in i..(f - 1) : s[j + 1] # "LF"
    BY <1>2, LineEnds
<1>. HIDE DEF e, f
<1>4. ~(f < e)
  <2>1. f < e => f < Len(s) /\ f \in from..(e - 1)
      BY <1>1, <1>2, <1>3
  <2>. QED BY <2>1, <1>1, <1>3
<1>5. ~(e < f)
  <2>1. e < f => e < Len(s) /\ e \in i..(f - 1)
      BY <1>1, <1>2, <1>3 DEF e
  <2>. QED BY <2>1, <1>1, <1>3
<1>6. e = f
    BY <1>1, <1>2, <1>3, <1>4, <1>5
<1>. QED BY <1>6 DEF e, f

------------------------------------------------------------------------------
(* What the pattern means.                                                 *)

\* Its least element of a set is the one of here.
LEMMA EngineMin == \A T : Engine!Min(T) = Min(T)
BY DEF Engine!Min, Min

\* match() of the reference at a start is the first accepted way.
LEMMA EngineMatchAt ==
    ASSUME NEW k, NEW at \in 0..Len(k.s), DOMAIN WaysAt(k, at) \subseteq Nat
    PROVE  Engine!MatchAt(TableOf(k), at, k.offset, OptsOf(k)) =
             IF AcceptedAt(k, at) = {} THEN Engine!NoMatch
             ELSE Engine!Found(at, WaysAt(k, at)[Min(AcceptedAt(k, at))].at)
<1>. DEFINE ways == WaysAt(k, at)
            spans == SpansAt(k, at)
            taken == {i \in DOMAIN spans : \/ spans[i] = Engine!HitLimit
                                           \/ Engine!Accepts(TableOf(k), spans[i], k.offset, OptsOf(k))}
<1>1. TableOf(k).try[at] = spans
    BY DEF TableOf
<1>2. DOMAIN spans = DOMAIN ways /\ \A i \in DOMAIN ways : spans[i] = Engine!Found(at, ways[i].at)
    BY DEF SpansAt
<1>3. \A i \in DOMAIN spans : spans[i] # Engine!HitLimit
    BY <1>2 DEF Engine!Found, Engine!HitLimit
<1>4. taken = AcceptedAt(k, at)
    BY <1>3 DEF AcceptedAt
<1>5. Engine!MatchAt(TableOf(k), at, k.offset, OptsOf(k)) =
        IF taken = {} THEN Engine!NoMatch ELSE spans[Min(taken)]
  <2>. DEFINE pat == TableOf(k)
              stops == {i \in DOMAIN pat.try[at] :
                           \/ pat.try[at][i] = Engine!HitLimit
                           \/ Engine!Accepts(pat, pat.try[at][i], k.offset, OptsOf(k))}
  <2>1. stops = taken
      BY <1>1, Zenon
  <2>2. Engine!MatchAt(pat, at, k.offset, OptsOf(k)) =
          IF stops = {} THEN Engine!NoMatch ELSE pat.try[at][Min(stops)]
      BY EngineMin, Zenon DEF Engine!MatchAt
  <2>. QED BY <2>1, <2>2, <1>1, Zenon
<1>6. taken \subseteq DOMAIN ways
    BY <1>2
<1>7. taken # {} => Min(taken) \in DOMAIN ways
  <2>. HIDE DEF taken
  <2>. QED BY <1>6, MinNat
<1>. QED BY <1>2, <1>4, <1>5, <1>7

\* Where the subject of a call ends and the search begins.
LEMMA CallPlaces ==
    ASSUME program \in Programs, NEW k \in Calls(program)
    PROVE  Len(k.s) \in Nat /\ k.offset \in 0..Len(k.s)
BY SearchAssumption

\* The pattern's ways at a start are a sequence.
LEMMA WaysAreListed ==
    ASSUME program \in Programs, FindsFirst, NEW k \in Calls(program),
           NEW at \in StartsOf(k)
    PROVE  /\ at \in 0..Len(k.s)
           /\ DOMAIN WaysAt(k, at) \subseteq Nat /\ DOMAIN WaysAt(k, at) = 1..Len(WaysAt(k, at))
           /\ AcceptedAt(k, at) \subseteq DOMAIN WaysAt(k, at)
<1>1. Len(k.s) \in Nat /\ k.offset \in 0..Len(k.s)
    BY CallPlaces
<1>2. at \in 0..Len(k.s)
    BY <1>1 DEF StartsOf
<1>3. DOMAIN WaysAt(k, at) = 1..Len(WaysAt(k, at))
    BY DEF FindsFirst
<1>4. AcceptedAt(k, at) \subseteq DOMAIN WaysAt(k, at)
    BY DEF AcceptedAt, SpansAt
<1>5. \A n : 1..n \subseteq Nat
    OBVIOUS
<1>. QED BY <1>2, <1>3, <1>4, <1>5

\* The starts of a call at which the pattern can match.
MatchingStarts(k) ==
    {at \in StartsOf(k) : ("ANCHORED" \in OptsOf(k) => at = k.offset) /\ CanMatch(k, at)}

\* The reference's search returns the first way at the leftmost of them.
LEMMA EngineSearch ==
    ASSUME program \in Programs, FindsFirst, NEW k \in Calls(program)
    PROVE  Engine!Search(TableOf(k), k.offset, OptsOf(k)) =
             IF MatchingStarts(k) = {} THEN Engine!NoMatch
             ELSE Engine!Found(Min(MatchingStarts(k)), FirstWay(k, Min(MatchingStarts(k))).at)
<1>. DEFINE pat == TableOf(k)
            At(s) == Engine!MatchAt(pat, s, k.offset, OptsOf(k))
            starts == {s \in DOMAIN pat.try : /\ s >= k.offset
                                              /\ "ANCHORED" \in OptsOf(k) => s = k.offset
                                              /\ At(s) # Engine!NoMatch}
<1>1. Len(k.s) \in Nat /\ k.offset \in 0..Len(k.s)
    BY CallPlaces
<1>2. DOMAIN pat.try = 0..Len(k.s)
    BY DEF TableOf
<1>3. ASSUME NEW at \in StartsOf(k)
      PROVE  At(at) = IF CanMatch(k, at) THEN Engine!Found(at, FirstWay(k, at).at)
                      ELSE Engine!NoMatch
  <2>1. at \in 0..Len(k.s) /\ DOMAIN WaysAt(k, at) \subseteq Nat
      BY WaysAreListed
  <2>. QED BY <2>1, EngineMatchAt DEF CanMatch, FirstWay
<1>4. \A at, to : Engine!Found(at, to) # Engine!NoMatch
    BY DEF Engine!Found, Engine!NoMatch
<1>5. starts = MatchingStarts(k)
  <2>. HIDE DEF At
  <2>1. \A s : s \in StartsOf(k) <=> s \in DOMAIN pat.try /\ s >= k.offset
      BY <1>1, <1>2 DEF StartsOf
  <2>2. \A s \in StartsOf(k) : At(s) # Engine!NoMatch <=> CanMatch(k, s)
      BY <1>3, <1>4
  <2>. HIDE DEF pat
  <2>. QED BY <2>1, <2>2 DEF MatchingStarts
<1>6. starts # {} => At(Min(starts)) = Engine!Found(Min(starts), FirstWay(k, Min(starts)).at)
  <2>. HIDE DEF At, starts
  <2>1. MatchingStarts(k) \in SUBSET Nat
      BY <1>1 DEF MatchingStarts, StartsOf
  <2>2. starts # {} => Min(starts) \in MatchingStarts(k)
      BY <2>1, <1>5, MinNat
  <2>3. starts # {} => Min(starts) \in StartsOf(k) /\ CanMatch(k, Min(starts))
      BY <2>2 DEF MatchingStarts
  <2>. QED BY <2>3, <1>3
<1>7. k.offset \in DOMAIN pat.try
    BY <1>1, <1>2
<1>8. Engine!Search(pat, k.offset, OptsOf(k)) =
        IF k.offset \notin DOMAIN pat.try THEN Engine!BadStart
        ELSE IF starts = {} THEN Engine!NoMatch ELSE At(Min(starts))
    BY EngineMin, Zenon DEF Engine!Search
<1>. HIDE DEF At, starts, pat
<1>. QED BY <1>5, <1>6, <1>7, <1>8 DEF pat

------------------------------------------------------------------------------
(* Where the loop is.                                                      *)

\* While a call runs, the loop is in it, and all its scans stop at one place.
LEMMA InReach ==
    ASSUME Places, pc # "ready"
    PROVE  /\ Len(subject) \in Nat /\ call.offset \in 0..Len(subject)
           /\ Reach \in call.offset..Len(subject) /\ end_subject = Reach
           /\ start_match \in call.offset..Reach /\ start_match \in 0..Reach
           /\ anchored => start_match = call.offset
           /\ memchr_found \in [1..2 -> {Nowhere} \cup 0..Reach]
           /\ call \in Calls(program) /\ program \in Programs
<1>1. program \in Programs /\ call \in Calls(program) /\ start_match \in call.offset..Reach
    BY DEF Places
<1>2. Len(subject) \in Nat /\ call.offset \in 0..Len(subject)
    BY <1>1, CallPlaces DEF subject
<1>3. Reach \in call.offset..Len(subject)
  <2>1. LineEnd(subject, call.offset) \in call.offset..Len(subject)
      BY <1>2, LineEnds
  <2>. QED BY <1>2, <2>1 DEF Reach
<1>4. end_subject = Reach
  <2>1. firstline => LineEnd(subject, start_match) = LineEnd(subject, call.offset)
      BY <1>1, <1>2, SameLine DEF Reach
  <2>. QED BY <2>1 DEF end_subject, Reach
<1>5. start_match \in 0..Reach
    BY <1>1, <1>2, <1>3
<1>. QED BY <1>1, <1>2, <1>3, <1>4, <1>5 DEF Places

\* The call, and where its scans stop, stay while it runs.
LEMMA CallStays ==
    ASSUME UNCHANGED <<program, re, call>>
    PROVE  /\ subject' = subject /\ opts' = opts /\ anchored' = anchored
           /\ firstline' = firstline /\ Reach' = Reach
<1>1. subject' = subject /\ options' = options
    BY DEF subject, options
<1>2. opts' = opts
    BY <1>1 DEF opts
<1>3. anchored' = anchored
    BY <1>2 DEF anchored
<1>4. firstline' = firstline
    BY <1>1, <1>3 DEF firstline
<1>. QED BY <1>1, <1>2, <1>3, <1>4 DEF Reach

\* What a scan for a start does: it gives up, or it finds a start from here on.
SeekLanding ==
    /\ UNCHANGED <<program, re, call, result>>
    /\ \/ pc' = "done" /\ UNCHANGED <<start_match, memchr_found>>
       \/ /\ pc' = "check" /\ start_match' \in start_match..Reach
          /\ anchored => start_match' = start_match
          /\ memchr_found' \in [1..2 -> {Nowhere} \cup 0..Reach]

\* Every kind of scan does that.
LEMMA SeekLands ==
    ASSUME Places, Seek
    PROVE  SeekLanding
<1>1. pc = "seek"
    BY DEF Seek, SeekAnchored, SeekFirst, SeekFirstCaseless, SeekStartline, SeekStartBits,
           SeekNothing
<1>. DEFINE n == Len(subject)
<1>2. /\ n \in Nat /\ Reach \in 0..n /\ end_subject = Reach /\ start_match \in 0..Reach
      /\ anchored => start_match = call.offset
      /\ memchr_found \in [1..2 -> {Nowhere} \cup 0..Reach]
  <2>1. /\ n \in Nat /\ call.offset \in 0..n /\ Reach \in call.offset..n
        /\ end_subject = Reach /\ start_match \in 0..Reach
        /\ anchored => start_match = call.offset
        /\ memchr_found \in [1..2 -> {Nowhere} \cup 0..Reach]
      BY <1>1, InReach
  <2>. HIDE DEF n
  <2>. QED BY <2>1
<1>3. start_match \in start_match..Reach
    BY <1>2
<1>. HIDE DEF n
<1>4. ASSUME GiveUp PROVE SeekLanding
    BY <1>4 DEF GiveUp, SeekLanding, compiling
<1>5. ASSUME NEW new \in start_match..Reach, anchored => new = start_match, SeekTo(new),
             memchr_found' \in [1..2 -> {Nowhere} \cup 0..Reach]
      PROVE  SeekLanding
    BY <1>5 DEF SeekTo, SeekLanding, compiling
<1>6. CASE SeekAnchored
    BY <1>6, <1>2, <1>3, <1>4, <1>5 DEF SeekAnchored
<1>7. CASE SeekFirst
  <2>1. Memchr({re.first.c}, start_match, end_subject) \in start_match..Reach
      BY <1>2, MemchrFinds
  <2>. QED BY <1>7, <2>1, <1>2, <1>4, <1>5 DEF SeekFirst
<1>8. CASE SeekFirstCaseless
  <2>. DEFINE cases == <<re.first.c, fcc(re.first.c)>>
              found == [k \in 1..2 |-> IF Stale(k) THEN Memchr({cases[k]}, start_match, end_subject)
                                       ELSE memchr_found[k]]
              first == Min({found[1], found[2]})
  <2>1. \A k \in 1..2 : found[k] \in start_match..Reach
    <3>. TAKE k \in 1..2
    <3>1. CASE Stale(k)
        BY <3>1, <1>2, MemchrFinds
    <3>2. CASE ~Stale(k)
      <4>1. memchr_found[k] \in {Nowhere} \cup 0..Reach
          BY <1>2
      <4>2. memchr_found[k] # Nowhere /\ ~(start_match > memchr_found[k])
          BY <3>2 DEF Stale
      <4>3. found[k] = memchr_found[k]
          BY <3>2
      <4>. QED BY <4>1, <4>2, <4>3, <1>2
    <3>. QED BY <3>1, <3>2
  <2>2. DOMAIN found = 1..2 /\ found = [k \in 1..2 |-> found[k]]
      OBVIOUS
  <2>3. \/ GiveUp
        \/ SeekTo(first) /\ memchr_found' = found
      BY <1>8 DEF SeekFirstCaseless
  <2>4. ~anchored
      BY <1>8 DEF SeekFirstCaseless
  <2>. HIDE DEF found
  <2>5. first \in start_match..Reach
    <3>1. {found[1], found[2]} \in SUBSET Nat
        BY <2>1, <1>2
    <3>2. first \in {found[1], found[2]}
        BY <3>1, MinNat
    <3>. QED BY <2>1, <3>2
  <2>. HIDE DEF first
  <2>6. found \in [1..2 -> {Nowhere} \cup 0..Reach]
    <3>1. \A k \in 1..2 : found[k] \in {Nowhere} \cup 0..Reach
        BY <2>1, <1>2
    <3>. QED BY <3>1, <2>2
  <2>. QED BY <2>3, <2>4, <2>5, <2>6, <1>4, <1>5
<1>9. CASE SeekStartline
  <2>. DEFINE after == {i \in start_match..(end_subject - 1) : subject[i] = "LF"}
  <2>1. Min({end_subject} \cup after) \in start_match..end_subject
    <3>1. after \in SUBSET (start_match..(end_subject - 1)) /\ end_subject \in Nat
          /\ start_match \in 0..end_subject
        BY <1>2
    <3>. HIDE DEF after
    <3>. QED BY <3>1, LeastOrEnd
  <2>2. after \cup {end_subject} = {end_subject} \cup after
      OBVIOUS
  <2>3. \/ SeekTo(Min(after \cup {end_subject}))
        \/ SeekTo(start_match)
      BY <1>9 DEF SeekStartline
  <2>4. ~anchored /\ memchr_found' = memchr_found
      BY <1>9 DEF SeekStartline
  <2>. HIDE DEF after
  <2>. QED BY <2>1, <2>2, <2>3, <2>4, <1>2, <1>3, <1>5
<1>10. CASE SeekStartBits
  <2>1. Memchr(re.startbits, start_match, end_subject) \in start_match..Reach
      BY <1>2, MemchrFinds
  <2>. QED BY <1>10, <2>1, <1>2, <1>4, <1>5 DEF SeekStartBits
<1>11. CASE SeekNothing
    BY <1>11, <1>2, <1>3, <1>5 DEF SeekNothing
<1>. QED BY <1>6, <1>7, <1>8, <1>9, <1>10, <1>11 DEF Seek

\* The start after one that was tried is still in reach.
LEMMA NextInReach ==
    ASSUME Places, pc = "match", ~LastStart,
           ~(firstline /\ start_match < Len(subject) /\ subject[start_match + 1] = "LF")
    PROVE  start_match + 1 \in call.offset..Reach
<1>. DEFINE n == Len(subject)
<1>1. /\ n \in Nat /\ call.offset \in 0..n /\ Reach \in call.offset..n
      /\ start_match \in call.offset..Reach
    BY InReach
<1>2. start_match + 1 <= n
    BY <1>1 DEF LastStart
<1>3. CASE ~firstline
    BY <1>1, <1>2, <1>3 DEF Reach
<1>4. CASE firstline
  <2>1. Reach = LineEnd(subject, call.offset)
      BY <1>4 DEF Reach
  <2>2. Reach < n => subject[Reach + 1] = "LF"
      BY <2>1, <1>1, LineEnds
  <2>3. start_match < n
      BY <1>1, <1>2
  <2>4. start_match # Reach
      BY <2>2, <2>3, <1>4
  <2>. HIDE DEF n
  <2>. QED BY <1>1, <2>4
<1>. QED BY <1>3, <1>4

\* The loop is in its place from the beginning, and stays there.
LEMMA InitPlaces == InitSearch => Places
BY DEF InitSearch, Places

\* No step leaves it, whatever the facts of the pattern are.
LEMMA NextPlaces ==
    ASSUME Places, [NextSearch]_vars
    PROVE  Places'
<1>. DEFINE Remembered == [1..2 -> {Nowhere} \cup 0..Reach]
<1>1. CASE Start
  <2>1. PICK c \in Calls(program) : call' = c /\ start_match' = c.offset
      BY <1>1 DEF Start
  <2>2. /\ pc' = "seek" /\ program' = program /\ memchr_found' = <<Nowhere, Nowhere>>
        /\ program \in Programs
      BY <1>1 DEF Start, compiling, Places
  <2>3. Len(c.s) \in Nat /\ c.offset \in 0..Len(c.s)
      BY <2>2, CallPlaces
  <2>4. LineEnd(c.s, c.offset) \in c.offset..Len(c.s)
      BY <2>3, LineEnds
  <2>5. Reach' = LineEnd(c.s, c.offset) \/ Reach' = Len(c.s)
      BY <2>1 DEF Reach, subject
  <2>6. c.offset \in c.offset..Reach'
      BY <2>3, <2>4, <2>5
  <2>. QED BY <2>1, <2>2, <2>6 DEF Places
<1>2. CASE Seek
  <2>1. pc = "seek"
      BY <1>2 DEF Seek, SeekAnchored, SeekFirst, SeekFirstCaseless, SeekStartline, SeekStartBits,
             SeekNothing
  <2>2. SeekLanding
      BY <1>2, SeekLands
  <2>3. /\ anchored' = anchored /\ Reach' = Reach
        /\ program' = program /\ call' = call
      BY <2>2, CallStays DEF SeekLanding
  <2>4. /\ start_match \in call.offset..Reach
        /\ anchored => start_match = call.offset
        /\ memchr_found \in Remembered
        /\ call \in Calls(program) /\ program \in Programs
      BY <2>1, InReach
  <2>5. /\ pc' \in {"done", "check"} /\ start_match' \in call.offset..Reach
        /\ anchored => start_match' = call.offset
        /\ memchr_found' \in Remembered
    <3>. DEFINE n == Len(subject)
    <3>1. \A m \in start_match..Reach : m \in call.offset..Reach
      <4>1. /\ n \in Nat /\ call.offset \in 0..n /\ Reach \in call.offset..n
            /\ start_match \in call.offset..Reach
          BY <2>1, InReach
      <4>. HIDE DEF n
      <4>. QED BY <4>1
    <3>. HIDE DEF Remembered, n
    <3>2. \/ pc' = "done" /\ start_match' = start_match /\ memchr_found' = memchr_found
          \/ /\ pc' = "check" /\ start_match' \in start_match..Reach
             /\ anchored => start_match' = start_match
             /\ memchr_found' \in Remembered
        BY <2>2 DEF SeekLanding, Remembered
    <3>. QED BY <3>1, <3>2, <2>4
  <2>. QED BY <2>3, <2>4, <2>5 DEF Places
<1>3. CASE Check
  <2>1. /\ pc = "check" /\ pc' \in {"done", "match"}
        /\ UNCHANGED <<program, re, call, start_match, memchr_found>>
      BY <1>3 DEF Check, GiveUp, compiling
  <2>2. anchored' = anchored /\ Reach' = Reach
      BY <2>1, CallStays
  <2>. QED BY <2>1, <2>2 DEF Places
<1>4. CASE Attempt
  <2>1. /\ pc = "match" /\ pc' \in {"done", "seek"}
        /\ UNCHANGED <<program, re, call, memchr_found>>
      BY <1>4 DEF Attempt, compiling
  <2>2. anchored' = anchored /\ Reach' = Reach
      BY <2>1, CallStays
  <2>3. \/ start_match' = start_match
        \/ /\ start_match' = start_match + 1 /\ ~anchored /\ ~LastStart
           /\ ~(firstline /\ start_match < Len(subject) /\ subject[start_match + 1] = "LF")
      BY <1>4 DEF Attempt
  <2>4. start_match' \in call.offset..Reach /\ (anchored => start_match' = call.offset)
      BY <2>1, <2>3, NextInReach DEF Places
  <2>. QED BY <2>1, <2>2, <2>4 DEF Places
<1>5. CASE Return
    BY <1>5 DEF Return, Places, compiling
<1>6. CASE UNCHANGED vars
  <2>1. UNCHANGED <<program, re, pc, call, start_match, memchr_found>>
      BY <1>6 DEF vars, compiling, searching
  <2>2. anchored' = anchored /\ Reach' = Reach
      BY <2>1, CallStays
  <2>. QED BY <2>1, <2>2 DEF Places
<1>. QED BY <1>1, <1>2, <1>3, <1>4, <1>5, <1>6 DEF NextSearch

\* The bumpalong never goes back.
THEOREM StartsNeverGoBack == SearchSpec => StartsAdvance
<1>. DEFINE Onward == pc = "match" \/ pc = "seek" =>
                        \/ pc' = "done"
                        \/ start_match' >= start_match + IF pc = "match" THEN 1 ELSE 0
<1>1. ASSUME Places, [NextSearch]_vars PROVE [Onward]_vars
  <2>1. CASE Seek
    <3>1. pc = "seek" /\ SeekLanding
        BY <1>1, <2>1, SeekLands DEF Seek, SeekAnchored, SeekFirst, SeekFirstCaseless, SeekStartline,
               SeekStartBits, SeekNothing
    <3>. DEFINE n == Len(subject)
    <3>2. n \in Nat /\ call.offset \in 0..n /\ Reach \in call.offset..n /\ start_match \in 0..Reach
        BY <1>1, <3>1, InReach
    <3>. HIDE DEF n
    <3>3. pc' = "done" \/ start_match' \in start_match..Reach
        BY <3>1 DEF SeekLanding
    <3>4. pc' = "done" \/ start_match' >= start_match + 0
        BY <3>2, <3>3
    <3>. QED BY <3>1, <3>4
  <2>2. CASE Attempt
    <3>1. pc = "match" /\ (pc' = "done" \/ start_match' = start_match + 1)
        BY <2>2 DEF Attempt
    <3>. DEFINE n == Len(subject)
    <3>2. n \in Nat /\ call.offset \in 0..n /\ Reach \in call.offset..n /\ start_match \in 0..Reach
        BY <1>1, <3>1, InReach
    <3>. HIDE DEF n
    <3>. QED BY <3>1, <3>2
  <2>3. CASE Start \/ Check \/ Return
      BY <2>3 DEF Start, Check, Return, GiveUp
  <2>4. CASE UNCHANGED vars
      BY <2>4
  <2>. QED BY <1>1, <2>1, <2>2, <2>3, <2>4 DEF NextSearch
<1>. QED
    BY <1>1, InitPlaces, NextPlaces, PTL DEF SearchSpec, StartsAdvance

------------------------------------------------------------------------------
(* What is skipped.                                                        *)

\* Where and how the pattern matches depends on the call alone.
LEMMA MeaningStays ==
    ASSUME UNCHANGED <<program, call>>, NEW at
    PROVE  /\ WaysAt(call, at)' = WaysAt(call, at)
           /\ AcceptedAt(call, at)' = AcceptedAt(call, at)
           /\ CanMatch(call, at)' <=> CanMatch(call, at)
<1>1. program' = program /\ call' = call
    OBVIOUS
<1>2. WaysAt(call, at)' = WaysAt(call, at)
    BY <1>1 DEF WaysAt, OptsOf, options
<1>3. SpansAt(call, at)' = SpansAt(call, at)
    BY <1>2 DEF SpansAt
<1>4. TableOf(call)' = TableOf(call)
    BY <1>1 DEF TableOf, SpansAt, WaysAt, OptsOf, options
<1>5. OptsOf(call)' = OptsOf(call)
    BY <1>1 DEF OptsOf, options
<1>6. AcceptedAt(call, at)' = AcceptedAt(call, at)
    BY <1>1, <1>3, <1>4, <1>5 DEF AcceptedAt
<1>7. CanMatch(call, at)' <=> CanMatch(call, at)
    BY <1>6 DEF CanMatch
<1>. QED BY <1>2, <1>6, <1>7

\* The promises of the compiler are about the pattern and its code.
LEMMA FactsStay ==
    ASSUME UNCHANGED <<program, re>>, Facts
    PROVE  Facts'
<1>1. program' = program /\ re' = re
    OBVIOUS
<1>2. FindsFirst' = FindsFirst
    BY <1>1 DEF FindsFirst, AcceptedAt, TableOf, SpansAt, WaysAt, OptsOf, options
<1>3. IsBounded' = IsBounded
    BY <1>1 DEF IsBounded, WaysAt, OptsOf, options
<1>4. StartsWhereSought' = StartsWhereSought
    BY <1>1 DEF StartsWhereSought, CanMatch, AcceptedAt, TableOf, SpansAt, WaysAt, OptsOf, options
<1>. QED BY <1>2, <1>3, <1>4 DEF Facts

\* Where the caller lets a match start is in the subject.
LEMMA SoughtAreStarts ==
    ASSUME Places, pc # "ready"
    PROVE  Sought \subseteq StartsOf(call)
<1>. DEFINE n == Len(subject)
<1>1. n \in Nat /\ Reach \in call.offset..n /\ call.offset \in 0..n
    BY InReach
<1>2. Len(call.s) = n
    BY DEF subject
<1>. HIDE DEF n
<1>. QED BY <1>1, <1>2 DEF Sought, StartsOf

\* A scan for characters that every match starts with skips nothing.
LEMMA ScanSkips ==
    ASSUME Places, pc # "ready", RefusedBefore(start_match),
           NEW chars, NEW found \in start_match..Reach,
           \A at \in StartsOf(call) :
               CanMatch(call, at) => at < Len(subject) /\ subject[at + 1] \in chars,
           \A i \in start_match..(found - 1) : subject[i + 1] \notin chars
    PROVE  /\ RefusedBefore(found)
           /\ found >= Len(subject) => NoneIn(Sought)
<1>. DEFINE n == Len(subject)
<1>1. /\ n \in Nat /\ call.offset \in 0..n /\ Reach \in call.offset..n
      /\ start_match \in call.offset..Reach
    BY InReach
<1>2. StartsOf(call) = call.offset..n
    BY DEF StartsOf, subject
<1>3. ASSUME NEW at \in call.offset..(found - 1) PROVE ~CanMatch(call, at)
  <2>. HIDE DEF n
  <2>1. at \in StartsOf(call)
      BY <1>1, <1>2
  <2>2. CASE at < start_match
    <3>1. at \in call.offset..(start_match - 1)
        BY <1>1, <2>2
    <3>. QED BY <3>1 DEF RefusedBefore
  <2>3. CASE ~(at < start_match)
    <3>1. at \in start_match..(found - 1)
        BY <1>1, <2>3
    <3>. QED BY <3>1, <2>1
  <2>. QED BY <2>2, <2>3
<1>4. ASSUME found >= n, NEW at \in Sought PROVE ~CanMatch(call, at)
  <2>1. at \in StartsOf(call)
      BY SoughtAreStarts
  <2>2. CanMatch(call, at) => at < n
      BY <2>1
  <2>. HIDE DEF n
  <2>3. at < n => at \in call.offset..(found - 1)
      BY <2>1, <1>1, <1>2, <1>4
  <2>. QED BY <2>2, <2>3, <1>3
<1>. QED BY <1>3, <1>4 DEF RefusedBefore, NoneIn

\* An anchored pattern that cannot match where the call begins cannot match.
LEMMA AnchoredHere ==
    ASSUME Places, pc # "ready", StartsWhereSought, anchored,
           ~CanMatch(call, call.offset)
    PROVE  NoneIn(Sought)
<1>1. SUFFICES ASSUME NEW at \in Sought, CanMatch(call, at) PROVE FALSE
    BY DEF NoneIn
<1>2. at \in StartsOf(call) /\ call \in Calls(program)
    BY SoughtAreStarts, InReach
<1>3. OptsOf(call) = opts
    BY DEF OptsOf, opts
<1>4. "ANCHORED" \notin opts
    BY <1>1 DEF Sought
<1>5. re.anchored
    BY <1>4 DEF anchored
<1>6. \A j \in call.offset..at : CanMatch(call, j)
    BY <1>1, <1>2, <1>3, <1>4, <1>5 DEF StartsWhereSought
<1>7. call.offset \in call.offset..at
  <2>. DEFINE n == Len(subject)
  <2>1. n \in Nat /\ call.offset \in 0..n
      BY InReach
  <2>2. at \in call.offset..n
      BY <1>2 DEF StartsOf, subject
  <2>. HIDE DEF n
  <2>. QED BY <2>1, <2>2
<1>. QED BY <1>6, <1>7

\* What every match starts with.
FirstChars == IF re.first # NoCodeUnit THEN CasesOf(re.first) ELSE re.startbits

\* And the search looks for it.
LEMMA FirstIsSought ==
    ASSUME StartsWhereSought, call \in Calls(program), FirstChars # {},
           NEW at \in StartsOf(call), CanMatch(call, at)
    PROVE  at < Len(subject) /\ subject[at + 1] \in FirstChars
BY DEF StartsWhereSought, FirstChars, subject

\* The rest of a line is skipped if no earlier start in it can match.
LEMMA LineSkips ==
    ASSUME Places, pc # "ready", StartsWhereSought, RefusedBefore(start_match),
           re.startline, start_match > call.offset,
           NEW found, found = Min({i \in start_match..(end_subject - 1) : subject[i] = "LF"}
                                  \cup {end_subject})
    PROVE  RefusedBefore(found)
<1>. DEFINE n == Len(subject)
            after == {i \in start_match..(end_subject - 1) : subject[i] = "LF"}
<1>1. /\ n \in Nat /\ call.offset \in 0..n /\ Reach \in call.offset..n
      /\ end_subject = Reach /\ start_match \in call.offset..Reach
    BY InReach
<1>2. StartsOf(call) = call.offset..n /\ call \in Calls(program)
    BY InReach DEF StartsOf, subject
<1>3. found \in start_match..Reach /\ \A i \in start_match..(found - 1) : i \notin after
  <2>1. after \in SUBSET (start_match..(Reach - 1)) /\ after \cup {end_subject} = {Reach} \cup after
      BY <1>1
  <2>. HIDE DEF after, n
  <2>2. Reach \in Nat /\ start_match \in 0..Reach
      BY <1>1
  <2>3. /\ Min({Reach} \cup after) \in start_match..Reach
        /\ \A i \in start_match..(Min({Reach} \cup after) - 1) : i \notin after
      BY <2>1, <2>2, LeastOrEnd
  <2>4. found = Min({Reach} \cup after)
      BY <2>1 DEF after
  <2>. QED BY <2>3, <2>4
<1>. SUFFICES ASSUME NEW at \in call.offset..(found - 1), CanMatch(call, at)
              PROVE  FALSE
    BY DEF RefusedBefore
<1>4. ~(at < start_match)
  <2>1. at < start_match => at \in call.offset..(start_match - 1)
    <3>. HIDE DEF n, after
    <3>. QED BY <1>1
  <2>. QED BY <2>1 DEF RefusedBefore
<1>. DEFINE newlines == {call.offset} \cup {i \in (call.offset + 1)..at : subject[i] = "LF"}
            line == Max(newlines)
<1>5. at \in StartsOf(call) /\ at \in Nat
  <2>. HIDE DEF n, after
  <2>. QED BY <1>1, <1>2, <1>3
<1>6. line \in newlines
  <2>1. \A i \in newlines : i \in 0..at
    <3>1. call.offset \in 0..at /\ at \in Nat /\ call.offset \in Nat
      <4>. HIDE DEF n, after, newlines
      <4>. QED BY <1>1, <1>3
    <3>2. \A i \in (call.offset + 1)..at : i \in 0..at
        BY <3>1
    <3>. QED BY <3>1, <3>2
  <2>2. newlines \in SUBSET (0..at) /\ newlines # {}
      BY <2>1
  <2>. HIDE DEF newlines
  <2>. QED BY <2>2, <1>5, MaxNat
<1>7. \A j \in line..at : CanMatch(call, j)
    BY <1>2, <1>5 DEF StartsWhereSought, subject
<1>8. line \in call.offset..at /\ (line > call.offset => subject[line] = "LF")
  <2>1. call.offset \in call.offset..at /\ call.offset \in Nat
    <3>. HIDE DEF n, after, newlines, line
    <3>. QED BY <1>1, <1>3
  <2>2. line = call.offset \/ (line \in (call.offset + 1)..at /\ subject[line] = "LF")
    <3>. HIDE DEF line
    <3>. QED BY <1>6
  <2>. HIDE DEF line
  <2>. QED BY <2>1, <2>2
<1>. HIDE DEF newlines, line
<1>9. CASE line < start_match
  <2>. HIDE DEF n, after
  <2>1. line \in call.offset..(start_match - 1) /\ line \in line..at
      BY <1>8, <1>9, <1>1, <1>5
  <2>. QED BY <2>1, <1>7 DEF RefusedBefore
<1>10. CASE ~(line < start_match)
  <2>1. subject[line] = "LF" /\ line \in start_match..(found - 1) /\ line \in start_match..(Reach - 1)
    <3>. HIDE DEF n, after
    <3>. QED BY <1>8, <1>10, <1>1, <1>3, <1>5
  <2>2. line \in after
      BY <2>1, <1>1
  <2>. HIDE DEF after, n
  <2>. QED BY <2>1, <2>2, <1>3
<1>. QED BY <1>9, <1>10

\* What a scan skips cannot match, and where it stops nothing can.
SeekSkipped ==
    /\ pc' = "done" => NoneIn(Sought)
    /\ pc' = "check" => RefusedBefore(start_match')
\* What is remembered of the scans is true from there on.
SeekRemembered ==
    pc' = "check" =>
        /\ memchr_found'[1] # Nowhere => Ahead(memchr_found'[1], start_match', re.first.c)
        /\ memchr_found'[2] # Nowhere => Ahead(memchr_found'[2], start_match', fcc(re.first.c))

\* No scan skips a start that can match, nor remembers a wrong place.
LEMMA SeekSkips ==
    ASSUME Places, Facts, pc = "seek", Running, Seek
    PROVE  SeekSkipped /\ SeekRemembered
<1>. DEFINE n == Len(subject)
<1>1. /\ n \in Nat /\ end_subject = Reach /\ start_match \in 0..Reach
      /\ start_match \in start_match..Reach /\ Reach \in Nat
      /\ memchr_found \in [1..2 -> {Nowhere} \cup 0..Reach]
      /\ call \in Calls(program)
  <2>1. /\ n \in Nat /\ call.offset \in 0..n /\ Reach \in call.offset..n
        /\ end_subject = Reach /\ start_match \in 0..Reach
        /\ memchr_found \in [1..2 -> {Nowhere} \cup 0..Reach]
        /\ call \in Calls(program)
      BY InReach
  <2>. HIDE DEF n
  <2>. QED BY <2>1
<1>2. StartsWhereSought /\ RefusedBefore(start_match) /\ pc # "ready"
    BY DEF Facts, Running
<1>3. FirstChars # {} => \A at \in StartsOf(call) :
          CanMatch(call, at) => at < n /\ subject[at + 1] \in FirstChars
    BY <1>1, <1>2, FirstIsSought
<1>. HIDE DEF n
<1>4. ASSUME FirstChars # {}, NEW found \in start_match..Reach,
             \A i \in start_match..(found - 1) : subject[i + 1] \notin FirstChars
      PROVE  RefusedBefore(found) /\ (found >= n => NoneIn(Sought))
    BY <1>2, <1>3, <1>4, ScanSkips DEF n
\* What was remembered stays true ahead.
<1>5. ASSUME SeekLanding, memchr_found' = memchr_found PROVE SeekRemembered
  <2>1. pc' = "check" => \A m : \A i \in start_match'..m : i \in start_match..m
    <3>1. pc' = "check" => start_match' \in start_match..Reach
        BY <1>5 DEF SeekLanding
    <3>. QED BY <3>1, <1>1
  <2>2. /\ memchr_found[1] # Nowhere => Ahead(memchr_found[1], start_match, re.first.c)
        /\ memchr_found[2] # Nowhere => Ahead(memchr_found[2], start_match, fcc(re.first.c))
      BY DEF Running
  <2>. QED BY <2>1, <2>2, <1>5 DEF SeekRemembered, Ahead
<1>6. SeekLanding
    BY SeekLands
<1>7. ASSUME GiveUp PROVE pc' = "done" /\ pc' # "check"
    BY <1>7 DEF GiveUp
<1>8. ASSUME NEW new, SeekTo(new) PROVE pc' = "check" /\ pc' # "done" /\ start_match' = new
    BY <1>8 DEF SeekTo
<1>9. ASSUME GiveUp PROVE memchr_found' = memchr_found
    BY <1>9 DEF GiveUp
<1>10. CASE SeekAnchored
  <2>1. anchored /\ start_match = call.offset /\ memchr_found' = memchr_found
      BY <1>10, <1>9, InReach DEF SeekAnchored
  <2>2. CASE GiveUp
    <3>1. /\ FirstChars # {}
          /\ ~(start_match < n /\ subject[start_match + 1] \in FirstChars)
        BY <1>10, <1>7, <1>8, <2>2 DEF SeekAnchored, FirstChars, n
    <3>2. start_match \in StartsOf(call)
      <4>1. n \in Nat /\ call.offset \in 0..n
          BY InReach DEF n
      <4>. QED BY <4>1, <2>1 DEF StartsOf, subject, n
    <3>3. ~CanMatch(call, call.offset)
        BY <3>1, <3>2, <1>3, <2>1
    <3>. QED BY <3>3, <2>1, <2>2, <1>2, <1>5, <1>6, <1>7, AnchoredHere DEF SeekSkipped
  <2>3. CASE SeekTo(start_match)
      BY <2>1, <2>3, <1>2, <1>5, <1>6, <1>8 DEF SeekSkipped
  <2>. QED BY <2>2, <2>3, <1>10 DEF SeekAnchored
<1>11. CASE SeekFirst
  <2>. DEFINE found == Memchr({re.first.c}, start_match, end_subject)
  <2>1. FirstChars = {re.first.c} /\ memchr_found' = memchr_found
      BY <1>11, <1>9 DEF SeekFirst, FirstChars, CasesOf
  <2>2. found \in start_match..Reach /\ \A i \in start_match..(found - 1) : subject[i + 1] \notin FirstChars
      BY <1>1, <2>1, MemchrFinds
  <2>3. \/ found >= n /\ GiveUp
        \/ SeekTo(found)
      BY <1>11 DEF SeekFirst, n
  <2>. HIDE DEF found
  <2>4. RefusedBefore(found) /\ (found >= n => NoneIn(Sought))
      BY <2>1, <2>2, <1>4
  <2>. QED BY <2>1, <2>3, <2>4, <1>5, <1>6, <1>7, <1>8 DEF SeekSkipped
<1>12. CASE SeekFirstCaseless
  <2>. DEFINE cases == <<re.first.c, fcc(re.first.c)>>
              found == [k \in 1..2 |-> IF Stale(k) THEN Memchr({cases[k]}, start_match, end_subject)
                                       ELSE memchr_found[k]]
              first == Min({found[1], found[2]})
  <2>1. FirstChars = {re.first.c, fcc(re.first.c)}
      BY <1>12 DEF SeekFirstCaseless, FirstChars, CasesOf
  <2>2. \A k \in 1..2 : memchr_found[k] # Nowhere => Ahead(memchr_found[k], start_match, cases[k])
    <3>1. /\ memchr_found[1] # Nowhere => Ahead(memchr_found[1], start_match, cases[1])
          /\ memchr_found[2] # Nowhere => Ahead(memchr_found[2], start_match, cases[2])
        BY DEF Running
    <3>2. \A k \in 1..2 : k = 1 \/ k = 2
        OBVIOUS
    <3>. HIDE DEF cases
    <3>. QED BY <3>1, <3>2
  <2>3. \A k \in 1..2 : found[k] \in start_match..Reach /\ Ahead(found[k], start_match, cases[k])
    <3>. SUFFICES ASSUME NEW k \in 1..2
                  PROVE  found[k] \in start_match..Reach /\ Ahead(found[k], start_match, cases[k])
        OBVIOUS
    <3>1. CASE Stale(k)
      <4>. DEFINE m == Memchr({cases[k]}, start_match, end_subject)
      <4>1. m \in start_match..Reach /\ \A i \in start_match..(m - 1) : subject[i + 1] \notin {cases[k]}
        <5>. HIDE DEF cases
        <5>. QED BY <1>1, MemchrFinds
      <4>2. found[k] = m
          BY <3>1
      <4>. HIDE DEF m, found, cases
      <4>. QED BY <4>1, <4>2 DEF Ahead
    <3>2. CASE ~Stale(k)
      <4>1. memchr_found[k] \in {Nowhere} \cup 0..Reach
          BY <1>1
      <4>2. memchr_found[k] # Nowhere /\ ~(start_match > memchr_found[k])
          BY <3>2 DEF Stale
      <4>3. found[k] = memchr_found[k]
          BY <3>2
      <4>4. Ahead(memchr_found[k], start_match, cases[k])
          BY <2>2, <4>2
      <4>. HIDE DEF found, cases
      <4>5. memchr_found[k] \in start_match..Reach
          BY <4>1, <4>2, <1>1
      <4>. QED BY <4>3, <4>4, <4>5
    <3>. QED BY <3>1, <3>2
  <2>4. \/ first >= n /\ GiveUp
        \/ SeekTo(first) /\ memchr_found' = found
      BY <1>12 DEF SeekFirstCaseless, n
  <2>5. cases[1] = re.first.c /\ cases[2] = fcc(re.first.c) /\ 1 \in 1..2 /\ 2 \in 1..2
      OBVIOUS
  <2>. HIDE DEF found, cases
  <2>6. first \in {found[1], found[2]} /\ first <= found[1] /\ first <= found[2]
    <3>1. {found[1], found[2]} \in SUBSET Nat
        BY <2>3, <2>5, <1>1
    <3>. QED BY <3>1, MinNat
  <2>. HIDE DEF first
  <2>7. first \in start_match..Reach
      BY <2>3, <2>5, <2>6
  <2>8. ASSUME NEW k \in 1..2, NEW i \in start_match..(first - 1) PROVE subject[i + 1] # cases[k]
    <3>1. first <= found[k]
        BY <2>6
    <3>2. i \in start_match..(found[k] - 1)
        BY <3>1, <2>3, <2>7, <1>1
    <3>. QED BY <3>2, <2>3 DEF Ahead
  <2>9. \A i \in start_match..(first - 1) : subject[i + 1] \notin FirstChars
      BY <2>1, <2>5, <2>8
  <2>10. RefusedBefore(first) /\ (first >= n => NoneIn(Sought))
      BY <2>1, <2>7, <2>9, <1>4
  <2>11. SeekSkipped
      BY <2>4, <2>10, <1>7, <1>8 DEF SeekSkipped
  <2>12. SeekRemembered
    <3>1. CASE GiveUp
        BY <3>1, <1>7 DEF SeekRemembered
    <3>2. CASE SeekTo(first) /\ memchr_found' = found
      <4>1. \A k \in 1..2 : Ahead(found[k], first, cases[k])
        <5>1. \A m : \A i \in first..m : i \in start_match..m
            BY <2>7, <1>1
        <5>. QED BY <5>1, <2>3 DEF Ahead
      <4>. QED BY <4>1, <3>2, <2>5, <1>8 DEF SeekRemembered
    <3>. QED BY <3>1, <3>2, <2>4
  <2>. QED BY <2>11, <2>12
<1>13. CASE SeekStartline
  <2>. DEFINE found == Min({i \in start_match..(end_subject - 1) : subject[i] = "LF"}
                          \cup {end_subject})
  <2>1. /\ memchr_found' = memchr_found /\ re.startline
        /\ \/ start_match > call.offset /\ SeekTo(found)
           \/ SeekTo(start_match)
      BY <1>13 DEF SeekStartline
  <2>2. start_match > call.offset => RefusedBefore(found)
      BY <2>1, <1>2, LineSkips
  <2>. HIDE DEF found
  <2>. QED BY <2>1, <2>2, <1>2, <1>5, <1>6, <1>8 DEF SeekSkipped
<1>14. CASE SeekStartBits
  <2>. DEFINE found == Memchr(re.startbits, start_match, end_subject)
  <2>1. FirstChars = re.startbits /\ FirstChars # {} /\ memchr_found' = memchr_found
      BY <1>14, <1>9 DEF SeekStartBits, FirstChars
  <2>2. found \in start_match..Reach /\ \A i \in start_match..(found - 1) : subject[i + 1] \notin FirstChars
      BY <1>1, <2>1, MemchrFinds
  <2>3. \/ found >= n /\ GiveUp
        \/ SeekTo(found)
      BY <1>14 DEF SeekStartBits, n
  <2>. HIDE DEF found
  <2>4. RefusedBefore(found) /\ (found >= n => NoneIn(Sought))
      BY <2>1, <2>2, <1>4
  <2>. QED BY <2>1, <2>3, <2>4, <1>5, <1>6, <1>7, <1>8 DEF SeekSkipped
<1>15. CASE SeekNothing
    BY <1>15, <1>2, <1>5, <1>6, <1>8 DEF SeekNothing, SeekSkipped
<1>. QED BY <1>10, <1>11, <1>12, <1>13, <1>14, <1>15 DEF Seek

\* memchr up to the end of the subject that finds nothing.
LEMMA MemchrFindsNone ==
    ASSUME NEW chars, NEW end \in Nat, NEW from \in Nat, Memchr(chars, from, end) >= end,
           NEW i \in (from + 1)..end
    PROVE  subject[i] \notin chars
<1>. DEFINE S == {j \in from..(end - 1) : subject[j + 1] \in chars}
            m == Min({end} \cup S)
<1>1. {end} \cup S \in SUBSET Nat
    OBVIOUS
<1>2. m = Memchr(chars, from, end)
    BY DEF Memchr
<1>3. m \in Nat /\ \A j \in S : m <= j
  <2>. HIDE DEF S
  <2>. QED BY <1>1, MinNat
<1>4. i - 1 \in from..(end - 1) /\ (i - 1) + 1 = i /\ i - 1 < end
    OBVIOUS
<1>5. subject[i] \in chars => i - 1 \in S
    BY <1>4
<1>. HIDE DEF S, m
<1>6. i - 1 \in S => m <= i - 1
    BY <1>3
<1>. QED BY <1>2, <1>3, <1>4, <1>5, <1>6

\* A start with too little behind it, or without the required code unit behind
\* it, cannot match.
LEMMA BoundsRefuse ==
    ASSUME Places, pc # "ready", FindsFirst, IsBounded, NEW at \in StartsOf(call),
           CanMatch(call, at)
    PROVE  /\ Len(subject) - at >= re.minlength
           /\ re.last # NoCodeUnit =>
                \E i \in (at + (IF re.first # NoCodeUnit THEN 2 ELSE 1))..Len(subject) :
                    subject[i] \in CasesOf(re.last)
<1>. DEFINE n == Len(subject)
            ways == WaysAt(call, at)
            from == at + (IF re.first # NoCodeUnit THEN 2 ELSE 1)
<1>1. n \in Nat /\ call \in Calls(program) /\ program \in Programs
    BY InReach
<1>2. at \in 0..n /\ AcceptedAt(call, at) \subseteq DOMAIN ways
    BY <1>1, WaysAreListed DEF subject
<1>3. PICK i \in DOMAIN ways : TRUE
    BY <1>2 DEF CanMatch
<1>4. ways[i] \in ToSet(ways)
    BY <1>3 DEF ToSet
<1>5. /\ ways[i].at \in (at + re.minlength)..n
      /\ re.last # NoCodeUnit => \E j \in from..ways[i].at : call.s[j] \in CasesOf(re.last)
    BY <1>1, <1>4 DEF IsBounded, subject
<1>6. re.minlength \in Nat
    BY DEF IsBounded
<1>. HIDE DEF n, ways
<1>7. n - at >= re.minlength
    BY <1>1, <1>2, <1>5, <1>6
<1>8. from \in Nat
    BY <1>2
<1>. HIDE DEF from
<1>9. \A j \in from..ways[i].at : j \in from..n
    BY <1>1, <1>5, <1>8, <1>2, <1>6
<1>10. re.last # NoCodeUnit => \E j \in from..n : call.s[j] \in CasesOf(re.last)
    BY <1>5, <1>9
<1>. QED BY <1>7, <1>10 DEF n, from, subject

\* Nor one after it.
LEMMA CheckRefuses ==
    ASSUME Places, Facts, RefusedBefore(start_match), Check, pc' = "done"
    PROVE  NoneIn(Sought)
<1>. DEFINE n == Len(subject)
            skip == IF re.first # NoCodeUnit THEN 1 ELSE 0
            found == Memchr(CasesOf(re.last), start_match + skip, n)
<1>1. pc = "check"
    BY DEF Check
<1>2. /\ n \in Nat /\ call.offset \in 0..n /\ Reach \in call.offset..n
      /\ start_match \in call.offset..Reach
    BY <1>1, InReach
<1>3. \/ n - start_match < re.minlength
      \/ re.last # NoCodeUnit /\ found >= n
    BY DEF Check
<1>. SUFFICES ASSUME NEW at \in Sought, CanMatch(call, at) PROVE FALSE
    BY DEF NoneIn
<1>4. at \in StartsOf(call) /\ at \in call.offset..n
    BY <1>1, SoughtAreStarts DEF StartsOf, subject
<1>5. at >= start_match
  <2>1. at < start_match => at \in call.offset..(start_match - 1)
    <3>. HIDE DEF n, found
    <3>. QED BY <1>2, <1>4
  <2>2. at < start_match => FALSE
      BY <2>1 DEF RefusedBefore
  <2>. HIDE DEF n, found
  <2>. QED BY <2>2, <1>2, <1>4
<1>6. /\ n - at >= re.minlength
      /\ re.last # NoCodeUnit =>
            \E i \in (at + (IF re.first # NoCodeUnit THEN 2 ELSE 1))..n : subject[i] \in CasesOf(re.last)
    BY <1>1, <1>4, BoundsRefuse DEF Facts
<1>7. re.minlength \in Nat
    BY DEF Facts, IsBounded
<1>8. CASE n - start_match < re.minlength
  <2>. HIDE DEF n, found
  <2>. QED BY <1>2, <1>4, <1>5, <1>6, <1>7, <1>8
<1>9. CASE re.last # NoCodeUnit /\ found >= n
  <2>1. PICK i \in (at + (IF re.first # NoCodeUnit THEN 2 ELSE 1))..n : subject[i] \in CasesOf(re.last)
      BY <1>6, <1>9
  <2>2. start_match + skip \in Nat /\ i \in (start_match + skip + 1)..n
    <3>. HIDE DEF n, found
    <3>. QED BY <1>2, <1>4, <1>5, <2>1
  <2>. HIDE DEF skip
  <2>. QED BY <1>2, <1>9, <2>1, <2>2, MemchrFindsNone
<1>. QED BY <1>3, <1>8, <1>9

\* match() finds the first way at a start, or shows that there is none.
LEMMA AttemptFinds ==
    ASSUME Places, Facts, RefusedBefore(start_match), Attempt
    PROVE  \/ /\ pc' = "done" /\ start_match' = start_match /\ CanMatch(call, start_match)
              /\ result' = Found(start_match, FirstWay(call, start_match))
           \/ pc' = "done" /\ result' = NoMatch /\ NoneIn(Sought)
           \/ /\ pc' = "seek" /\ start_match' = start_match + 1 /\ result' = NoMatch
              /\ RefusedBefore(start_match')
<1>. DEFINE n == Len(subject)
            w == match(re.code, subject, start_match, call.offset, opts)
            onLastLine == firstline /\ start_match < n /\ subject[start_match + 1] = "LF"
            stop == w # <<>> \/ onLastLine \/ anchored \/ LastStart
<1>1. pc = "match" /\ pc # "ready"
    BY DEF Attempt
<1>2. /\ n \in Nat /\ call.offset \in 0..n /\ Reach \in call.offset..n
      /\ start_match \in call.offset..Reach /\ call \in Calls(program)
      /\ anchored => start_match = call.offset
    BY <1>1, InReach
<1>3. start_match \in StartsOf(call)
  <2>1. n = Len(call.s)
      BY DEF subject
  <2>. HIDE DEF n
  <2>. QED BY <1>2, <2>1 DEF StartsOf
<1>4. w = IF AcceptedAt(call, start_match) = {} THEN <<>> ELSE <<FirstWay(call, start_match)>>
  <2>1. opts = OptsOf(call) /\ subject = call.s
      BY DEF opts, OptsOf, subject
  <2>. QED BY <1>2, <1>3, <2>1 DEF Facts, FindsFirst, FirstWay
<1>5. /\ result' = IF w # <<>> THEN Found(start_match, w[1]) ELSE NoMatch
      /\ pc' = IF stop THEN "done" ELSE "seek"
      /\ start_match' = IF stop THEN start_match ELSE start_match + 1
    BY DEF Attempt
<1>6. CASE CanMatch(call, start_match)
  <2>1. w = <<FirstWay(call, start_match)>>
      BY <1>4, <1>6 DEF CanMatch
  <2>. HIDE DEF w
  <2>2. w # <<>> /\ w[1] = FirstWay(call, start_match)
      BY <2>1
  <2>. QED BY <2>2, <1>5, <1>6
<1>7. CASE ~CanMatch(call, start_match)
  <2>1. w = <<>> /\ result' = NoMatch
      BY <1>4, <1>5, <1>7 DEF CanMatch
  <2>2. ASSUME NEW at \in call.offset..start_match PROVE ~CanMatch(call, at)
    <3>1. at = start_match \/ at \in call.offset..(start_match - 1)
      <4>. HIDE DEF n
      <4>. QED BY <1>2
    <3>2. CASE at = start_match
        BY <3>2, <1>7
    <3>3. CASE at \in call.offset..(start_match - 1)
        BY <3>3 DEF RefusedBefore
    <3>. QED BY <3>1, <3>2, <3>3
  <2>3. ASSUME Reach <= start_match PROVE NoneIn(Sought)
    <3>1. \A at \in Sought : at \in call.offset..start_match
      <4>1. \A at \in Sought : at \in call.offset..Reach
          BY DEF Sought
      <4>. HIDE DEF n
      <4>. QED BY <1>2, <2>3, <4>1
    <3>. QED BY <3>1, <2>2 DEF NoneIn
  <2>4. onLastLine => Reach <= start_match
    <3>. SUFFICES ASSUME onLastLine PROVE Reach <= start_match
        OBVIOUS
    <3>1. Reach = LineEnd(subject, call.offset)
        BY DEF Reach
    <3>2. \A i \in call.offset..(Reach - 1) : subject[i + 1] # "LF"
        BY <3>1, <1>2, LineEnds
    <3>3. start_match \notin call.offset..(Reach - 1)
        BY <3>2
    <3>. HIDE DEF n
    <3>. QED BY <3>3, <1>2
  <2>5. LastStart => Reach <= start_match
    <3>1. LastStart => start_match + 1 > n
        BY DEF LastStart
    <3>. HIDE DEF n
    <3>. QED BY <3>1, <1>2
  <2>6. anchored => NoneIn(Sought)
      BY <1>1, <1>2, <1>7, AnchoredHere DEF Facts
  <2>7. RefusedBefore(start_match + 1)
    <3>1. \A at \in call.offset..((start_match + 1) - 1) : at \in call.offset..start_match
      <4>. HIDE DEF n
      <4>. QED BY <1>2
    <3>. QED BY <3>1, <2>2 DEF RefusedBefore
  <2>. QED BY <2>1, <2>3, <2>4, <2>5, <2>6, <2>7, <1>5
<1>. QED BY <1>6, <1>7

\* What was refused stays refused.
LEMMA RefusalStays ==
    ASSUME UNCHANGED <<program, re, call>>
    PROVE  /\ RefusedBefore(start_match)' <=> RefusedBefore(start_match')
           /\ NoneIn(Sought)' <=> NoneIn(Sought)
<1>1. \A at : CanMatch(call, at)' <=> CanMatch(call, at)
  <2>. TAKE at
  <2>. QED BY MeaningStays
<1>2. Sought' = Sought
    BY CallStays DEF Sought
<1>. QED BY <1>1, <1>2 DEF RefusedBefore, NoneIn

\* And what was found stays found.
LEMMA FirstWayStays ==
    ASSUME UNCHANGED <<program, call, start_match>>
    PROVE  /\ CanMatch(call, start_match)' <=> CanMatch(call, start_match)
           /\ FirstWay(call, start_match)' = FirstWay(call, start_match)
<1>1. program' = program /\ call' = call /\ start_match' = start_match
    OBVIOUS
<1>2. WaysAt(call, start_match)' = WaysAt(call, start_match)
    BY <1>1 DEF WaysAt, OptsOf, options
<1>3. SpansAt(call, start_match)' = SpansAt(call, start_match)
    BY <1>1 DEF SpansAt, WaysAt, OptsOf, options
<1>4. TableOf(call)' = TableOf(call) /\ OptsOf(call)' = OptsOf(call)
    BY <1>1 DEF TableOf, SpansAt, WaysAt, OptsOf, options
<1>5. AcceptedAt(call, start_match)' = AcceptedAt(call, start_match)
    BY <1>1, <1>3, <1>4 DEF AcceptedAt
<1>. QED BY <1>2, <1>5 DEF CanMatch, FirstWay

\* Nothing is skipped at first, and no step skips what can match.
LEMMA InitSkips == InitSearch => Skips
BY DEF InitSearch, Skips

\* Each step keeps it, with the facts of the pattern.
LEMMA NextSkips ==
    ASSUME Places, Facts, Skips, [NextSearch]_vars
    PROVE  Skips'
<1>1. CASE Start
  <2>1. PICK c \in Calls(program) : call' = c /\ start_match' = c.offset
      BY <1>1 DEF Start
  <2>2. /\ pc' = "seek" /\ program' = program /\ result' = NoMatch
        /\ memchr_found' = <<Nowhere, Nowhere>> /\ program \in Programs
      BY <1>1 DEF Start, compiling, Places
  <2>3. call'.offset \in Nat
      BY <2>1, <2>2, CallPlaces
  <2>4. RefusedBefore(start_match)'
    <3>1. ~\E at : at \in call'.offset..(start_match' - 1)
        BY <2>1, <2>3
    <3>. QED BY <3>1 DEF RefusedBefore
  <2>5. NoMatch' = NoMatch
      BY DEF NoMatch
  <2>. QED BY <2>2, <2>4, <2>5 DEF Skips, Running
<1>2. CASE Seek
  <2>1. pc = "seek"
      BY <1>2 DEF Seek, SeekAnchored, SeekFirst, SeekFirstCaseless, SeekStartline, SeekStartBits,
             SeekNothing
  <2>2. Running /\ SeekLanding /\ SeekSkipped /\ SeekRemembered
      BY <1>2, <2>1, SeekLands, SeekSkips DEF Skips
  <2>3. /\ UNCHANGED <<program, re, call>> /\ result' = NoMatch
        /\ pc' = "done" \/ pc' = "check"
      BY <2>2 DEF SeekLanding, Running
  <2>4. subject' = subject
      BY <2>3, CallStays
  <2>5. /\ pc' = "done" => NoneIn(Sought)'
        /\ pc' = "check" => RefusedBefore(start_match)'
      BY <2>2, <2>3, RefusalStays DEF SeekSkipped
  <2>6. pc' = "check" =>
          /\ memchr_found'[1] # Nowhere => Ahead(memchr_found[1], start_match, re.first.c)'
          /\ memchr_found'[2] # Nowhere => Ahead(memchr_found[2], start_match, fcc(re.first.c))'
      BY <2>2, <2>3, <2>4 DEF SeekRemembered, Ahead
  <2>. QED BY <2>3, <2>5, <2>6 DEF Skips, Running
<1>3. CASE Check
  <2>1. pc = "check" /\ Running
      BY <1>3 DEF Check, Skips
  <2>2. /\ UNCHANGED <<program, re, call, start_match, memchr_found, result>>
        /\ pc' = "done" \/ pc' = "match"
      BY <1>3 DEF Check, GiveUp, compiling
  <2>3. subject' = subject
      BY <2>2, CallStays
  <2>4. RefusedBefore(start_match)' /\ (pc' = "done" => NoneIn(Sought)')
      BY <1>3, <2>1, <2>2, CheckRefuses, RefusalStays DEF Running
  <2>5. /\ memchr_found'[1] # Nowhere => Ahead(memchr_found[1], start_match, re.first.c)'
        /\ memchr_found'[2] # Nowhere => Ahead(memchr_found[2], start_match, fcc(re.first.c))'
      BY <2>1, <2>2, <2>3 DEF Running, Ahead
  <2>6. result' = NoMatch
      BY <2>1, <2>2 DEF Running
  <2>. QED BY <2>2, <2>4, <2>5, <2>6 DEF Skips, Running
<1>4. CASE Attempt
  <2>1. pc = "match" /\ Running
      BY <1>4 DEF Attempt, Skips
  <2>2. UNCHANGED <<program, re, call, memchr_found>>
      BY <1>4 DEF Attempt, compiling
  <2>3. subject' = subject
      BY <2>2, CallStays
  <2>4. \/ /\ pc' = "done" /\ start_match' = start_match /\ CanMatch(call, start_match)
           /\ result' = Found(start_match, FirstWay(call, start_match))
        \/ pc' = "done" /\ result' = NoMatch /\ NoneIn(Sought)
        \/ /\ pc' = "seek" /\ start_match' = start_match + 1 /\ result' = NoMatch
           /\ RefusedBefore(start_match')
      BY <1>4, <2>1, AttemptFinds DEF Running
  <2>5. CASE /\ pc' = "done" /\ start_match' = start_match /\ CanMatch(call, start_match)
             /\ result' = Found(start_match, FirstWay(call, start_match))
    <3>1. /\ CanMatch(call, start_match)'
          /\ FirstWay(call, start_match)' = FirstWay(call, start_match)
        BY <2>2, <2>5, FirstWayStays
    <3>2. RefusedBefore(start_match)'
        BY <2>1, <2>2, <2>5, RefusalStays DEF Running
    <3>3. result' = Found(start_match', FirstWay(call, start_match)')
        BY <3>1, <2>5
    <3>4. FoundFirst'
        BY <3>1, <3>2, <3>3 DEF FoundFirst
    <3>. QED BY <3>4, <2>5 DEF Skips
  <2>6. CASE pc' = "done" /\ result' = NoMatch /\ NoneIn(Sought)
    <3>1. NoneIn(Sought)'
        BY <2>2, <2>6, RefusalStays
    <3>. QED BY <3>1, <2>6 DEF Skips
  <2>7. CASE /\ pc' = "seek" /\ start_match' = start_match + 1 /\ result' = NoMatch
             /\ RefusedBefore(start_match')
    <3>1. RefusedBefore(start_match)'
        BY <2>2, <2>7, RefusalStays
    <3>2. \A m : \A i \in start_match'..m : i \in start_match..m
      <4>. DEFINE n == Len(subject)
      <4>1. /\ n \in Nat /\ call.offset \in 0..n /\ Reach \in call.offset..n
            /\ start_match \in 0..Reach
          BY <2>1, InReach
      <4>. HIDE DEF n
      <4>. QED BY <4>1, <2>7
    <3>3. /\ memchr_found'[1] # Nowhere => Ahead(memchr_found[1], start_match, re.first.c)'
          /\ memchr_found'[2] # Nowhere => Ahead(memchr_found[2], start_match, fcc(re.first.c))'
        BY <2>1, <2>2, <2>3, <3>2 DEF Running, Ahead
    <3>. QED BY <3>1, <3>3, <2>7 DEF Skips, Running
  <2>. QED BY <2>4, <2>5, <2>6, <2>7
<1>5. CASE Return
    BY <1>5 DEF Return, Skips
<1>6. CASE UNCHANGED vars
  <2>1. UNCHANGED <<program, re, pc, call, start_match, memchr_found, result>>
      BY <1>6 DEF vars, compiling, searching
  <2>2. subject' = subject
      BY <2>1, CallStays
  <2>3. /\ RefusedBefore(start_match)' <=> RefusedBefore(start_match)
        /\ NoneIn(Sought)' <=> NoneIn(Sought)
      BY <2>1, RefusalStays
  <2>4. Running => Running'
      BY <2>1, <2>2, <2>3 DEF Running, Ahead
  <2>5. /\ CanMatch(call, start_match)' <=> CanMatch(call, start_match)
        /\ FirstWay(call, start_match)' = FirstWay(call, start_match)
      BY <2>1, FirstWayStays
  <2>6. FoundFirst => FoundFirst'
      BY <2>1, <2>3, <2>5 DEF FoundFirst
  <2>. QED BY <2>1, <2>3, <2>4, <2>6 DEF Skips
<1>. QED BY <1>1, <1>2, <1>3, <1>4, <1>5, <1>6 DEF NextSearch

------------------------------------------------------------------------------
(* What the caller gets.                                                   *)

\* The first accepted way is the first of those that end where it ends.
LEMMA FirstWayEndsFirst ==
    ASSUME program \in Programs, FindsFirst, NEW k \in Calls(program),
           NEW at \in StartsOf(k), CanMatch(k, at)
    PROVE  FirstEnding(WaysAt(k, at), FirstWay(k, at).at) = FirstWay(k, at)
<1>. DEFINE ways == WaysAt(k, at)
            spans == SpansAt(k, at)
            accepted == AcceptedAt(k, at)
            first == Min(accepted)
            same == {i \in DOMAIN ways : ways[i].at = ways[first].at}
<1>1. DOMAIN ways \subseteq Nat /\ accepted \subseteq DOMAIN ways /\ accepted # {}
    BY WaysAreListed DEF CanMatch
<1>2. first \in accepted /\ \A i \in accepted : first <= i
    BY <1>1, MinNat
<1>3. \A i \in DOMAIN ways : spans[i] = Engine!Found(at, ways[i].at) /\ i \in DOMAIN spans
    BY DEF SpansAt
<1>4. Engine!Accepts(TableOf(k), spans[first], k.offset, OptsOf(k))
    BY <1>2 DEF AcceptedAt
<1>5. \A i \in same : i \in accepted
  <2>1. \A i \in same : spans[i] = spans[first]
      BY <1>1, <1>2, <1>3
  <2>. QED BY <2>1, <1>3, <1>4 DEF AcceptedAt
<1>6. first \in same
    BY <1>1, <1>2
<1>7. same \in SUBSET Nat
    BY <1>1
<1>. HIDE DEF same, first, accepted
<1>8. Min(same) \in same /\ Min(same) <= first
    BY <1>6, <1>7, MinNat
<1>9. Min(same) = first
  <2>1. first <= Min(same) /\ first \in Nat /\ Min(same) \in Nat
      BY <1>8, <1>5, <1>2, <1>6, <1>7
  <2>. QED BY <2>1, <1>8
<1>10. FirstEnding(ways, FirstWay(k, at).at) = ways[Min(same)]
    BY DEF FirstEnding, FirstWay, same, first, accepted
<1>11. FirstWay(k, at) = ways[first]
    BY DEF FirstWay, first, accepted
<1>. QED BY <1>9, <1>10, <1>11

\* A search that has skipped nothing is over with what was promised.
LEMMA DoneAsPromised ==
    ASSUME Places, Facts, Skips
    PROVE  SearchKeepsPromise
<1>. SUFFICES ASSUME pc = "done" PROVE IsAsPromised(Promised)
    BY DEF SearchKeepsPromise
<1>. DEFINE n == Len(subject)
            matching == MatchingStarts(call)
            m == Min(matching)
<1>1. /\ n \in Nat /\ call.offset \in 0..n /\ Reach \in call.offset..n
      /\ start_match \in call.offset..Reach /\ call \in Calls(program) /\ program \in Programs
      /\ anchored => start_match = call.offset
    BY InReach
<1>2. StartsOf(call) = call.offset..n /\ opts = OptsOf(call) /\ FindsFirst
    BY DEF StartsOf, subject, opts, OptsOf, Facts
<1>3. Engine!Search(TableOf(call), call.offset, opts) =
        IF matching = {} THEN Engine!NoMatch ELSE Engine!Found(m, FirstWay(call, m).at)
    BY <1>1, <1>2, EngineSearch
<1>4. Engine!NoMatch.rc = "nomatch" /\ NoMatch.rc = "nomatch"
    BY DEF Engine!NoMatch, NoMatch
<1>5. \A from, to : /\ Engine!Found(from, to).rc = "match" /\ Engine!Found(from, to).from = from
                    /\ Engine!Found(from, to).to = to
    BY DEF Engine!Found
<1>6. matching # {} => m \in matching /\ \A at \in matching : m <= at
  <2>1. matching \in SUBSET Nat
    <3>. HIDE DEF n, m
    <3>. QED BY <1>1, <1>2 DEF MatchingStarts
  <2>. HIDE DEF matching
  <2>. QED BY <2>1, MinNat
<1>7. \A at \in matching : at \in call.offset..n /\ CanMatch(call, at)
                           /\ ("ANCHORED" \in opts => at = call.offset)
    BY <1>2 DEF MatchingStarts
<1>8. ~firstline => Reach = n
    BY DEF Reach
<1>9. firstline => Reach = LineEnd(subject, call.offset)
    BY DEF Reach
<1>10. CASE result = NoMatch /\ NoneIn(Sought)
  <2>1. Promised = Engine!NoMatch
    <3>1. CASE matching = {}
        BY <3>1, <1>3 DEF Promised, OnFirstLine
    <3>2. CASE matching # {}
      <4>1. m \in call.offset..n /\ CanMatch(call, m) /\ ("ANCHORED" \in opts => m = call.offset)
          BY <3>2, <1>6, <1>7
      <4>. HIDE DEF m, n, matching
      <4>2. m \notin Sought
          BY <4>1, <1>10 DEF NoneIn
      <4>3. m \notin call.offset..Reach
          BY <4>1, <4>2 DEF Sought
      <4>4. m > Reach /\ Reach # n
          BY <4>1, <4>3, <1>1
      <4>5. firstline /\ m > LineEnd(subject, call.offset)
          BY <4>4, <1>8, <1>9
      <4>6. Engine!Search(TableOf(call), call.offset, opts).from = m
          BY <3>2, <1>3, <1>5
      <4>. QED BY <4>5, <4>6 DEF Promised, OnFirstLine
    <3>. QED BY <3>1, <3>2
  <2>. QED BY <2>1, <1>4, <1>10 DEF IsAsPromised
<1>11. CASE FoundFirst
  <2>. DEFINE way == FirstWay(call, start_match)
  <2>1. start_match \in matching
    <3>1. "ANCHORED" \in opts => start_match = call.offset
        BY <1>1 DEF anchored
    <3>2. start_match \in StartsOf(call)
      <4>. HIDE DEF n
      <4>. QED BY <1>1, <1>2
    <3>. QED BY <3>1, <3>2, <1>2, <1>11 DEF MatchingStarts, FoundFirst
  <2>2. m = start_match
    <3>1. m \in call.offset..n /\ CanMatch(call, m) /\ m <= start_match
        BY <2>1, <1>6, <1>7
    <3>2. m \notin call.offset..(start_match - 1)
        BY <3>1, <1>11 DEF FoundFirst, RefusedBefore
    <3>. HIDE DEF m, n
    <3>. QED BY <3>1, <3>2, <1>1
  <2>3. Engine!Search(TableOf(call), call.offset, opts) = Engine!Found(start_match, way.at)
      BY <2>1, <2>2, <1>3
  <2>4. Promised = Engine!Found(start_match, way.at)
    <3>1. ~(firstline /\ start_match > LineEnd(subject, call.offset))
      <4>. HIDE DEF n
      <4>. QED BY <1>1, <1>9
    <3>. QED BY <3>1, <2>3, <1>5 DEF Promised, OnFirstLine
  <2>5. result = Found(start_match, way)
      BY <1>11 DEF FoundFirst
  <2>6. /\ result.rc = "match" /\ result.from = start_match /\ result.to = way.at
        /\ result.caps = way.caps
      BY <2>5 DEF Found
  <2>7. FirstEnding(WaysAt(call, start_match), way.at) = way
    <3>1. start_match \in StartsOf(call)
      <4>. HIDE DEF n
      <4>. QED BY <1>1, <1>2
    <3>. QED BY <3>1, <1>1, <1>2, <1>11, FirstWayEndsFirst DEF FoundFirst
  <2>. HIDE DEF way
  <2>. QED BY <2>4, <2>6, <2>7, <1>5 DEF IsAsPromised
<1>. QED BY <1>10, <1>11 DEF Skips

\* Every search of a pattern whose code and facts are as the compiler promised
\* returns what a caller is promised.
THEOREM SearchIsRight ==
    SearchSpec /\ MatchFindsFirst /\ BoundsAreSound /\ StartsAreSound
      => []SearchKeepsPromise
<1>1. InitSearch /\ MatchFindsFirst /\ BoundsAreSound /\ StartsAreSound => Facts
    BY DEF InitSearch, MatchFindsFirst, BoundsAreSound, StartsAreSound, Facts
<1>2. Facts /\ [NextSearch]_vars => Facts'
  <2>1. [NextSearch]_vars => UNCHANGED <<program, re>>
      BY DEF NextSearch, Start, Seek, SeekAnchored, SeekFirst, SeekFirstCaseless, SeekStartline,
             SeekStartBits, SeekNothing, GiveUp, SeekTo, Check, Attempt, Return, vars, compiling
  <2>. QED BY <2>1, FactsStay
<1>. QED
    BY <1>1, <1>2, InitPlaces, NextPlaces, InitSkips, NextSkips, DoneAsPromised, PTL
       DEF SearchSpec
================================================================================
