------------------------------ MODULE Pcre2Match ------------------------------
(***************************************************************************)
(* What the wrapper needs to know of the PCRE2 engine.  A compiled pattern *)
(* on one subject is the list of ways it can match at each start offset,   *)
(* in backtracking order: pat.try[s] is a sequence of matches, or of the   *)
(* point where match() gives up because it hits the match limit (which     *)
(* PCRE2 counts anew at every start offset).  The start offsets are the    *)
(* character boundaries of the subject.                                    *)
(***************************************************************************)
EXTENDS Integers, Sequences, FiniteSets, SequencesExt

Found(from, to) == [rc |-> "match", from |-> from, to |-> to]
NoMatch  == [rc |-> "nomatch", from |-> 0, to |-> 0]
HitLimit == [rc |-> "matchlimit", from |-> 0, to |-> 0]
BadStart == [rc |-> "badoffset", from |-> 0, to |-> 0]

IsEmpty(r) == r.from = r.to

\* A pattern on a subject: the boundaries of the subject, from 0 to its end,
\* and the ways at each.  \K can move the start of a match forward, but not
\* behind its end nor before the place where it was tried: for that it has to
\* be in a lookaround, where compile_branch refuses it, as the wrapper never
\* sets PCRE2_EXTRA_ALLOW_LOOKAROUND_BSK.  Patterns that call a group with \K
\* from a lookaround are left out.
MatchesFrom(pat, pos) ==
    {r \in {Found(f, t) : f, t \in DOMAIN pat.try} : pos <= r.from /\ r.from <= r.to}
IsPattern(pat) ==
    LET boundaries == DOMAIN pat.try
    IN  /\ boundaries \subseteq Nat /\ 0 \in boundaries
        /\ \E end \in boundaries : \A b \in boundaries : b <= end
        /\ \A s \in boundaries : pat.try[s] \in Seq(MatchesFrom(pat, s) \cup {HitLimit})

Length(pat) == Max(DOMAIN pat.try)

\* OP_END: what the call's options reject, match() backtracks into.
Accepts(pat, r, pos, opts) ==
    /\ IsEmpty(r) => /\ "NOTEMPTY" \notin opts
                     /\ "NOTEMPTY_ATSTART" \in opts => r.from # pos
    /\ "ENDANCHORED" \in opts => r.to = Length(pat)

\* match() at start offset s of a search from pos.
MatchAt(pat, s, pos, opts) ==
    LET stops == {i \in DOMAIN pat.try[s] :
                     \/ pat.try[s][i] = HitLimit
                     \/ Accepts(pat, pat.try[s][i], pos, opts)}
    IN  IF stops = {} THEN NoMatch ELSE pat.try[s][Min(stops)]

\* pcre2_match: the first start offset that does not fail decides.
Search(pat, pos, opts) ==
    LET starts == {s \in DOMAIN pat.try :
                      /\ s >= pos
                      /\ "ANCHORED" \in opts => s = pos
                      /\ MatchAt(pat, s, pos, opts) # NoMatch}
    IN  IF pos \notin DOMAIN pat.try THEN BadStart
        ELSE IF starts = {} THEN NoMatch
        ELSE MatchAt(pat, Min(starts), pos, opts)

\* do_bumpalong: the next character boundary.
Bump(pat, pos) == Min({s \in DOMAIN pat.try : s > pos})

\* Mutant: an empty match is resumed without NOTEMPTY_ATSTART.
NextCursorRepeats(pat, r, pos) ==
    [more |-> ~IsEmpty(r) \/ r.from < Length(pat), pos |-> r.to, opts |-> {}]

\* pcre2_next_match after the match r of a search from pos: whether another
\* search can succeed, and from where with which options.
NextCursor(pat, r, pos) ==
    LET cursor(more, p, o) == [more |-> more, pos |-> p, opts |-> o]
        final == cursor(FALSE, pos, {})
    IN  IF r.from # pos /\ r.to = pos
        THEN IF pos >= Length(pat) THEN final ELSE cursor(TRUE, Bump(pat, pos), {})
        ELSE IF IsEmpty(r)
        THEN IF r.from >= Length(pat) THEN final
             ELSE cursor(TRUE, r.to, {"NOTEMPTY_ATSTART"})
        ELSE cursor(TRUE, r.to, {})

(***************************************************************************)
(* The reference: global matching one search at a time, k searches from    *)
(* (pos, opts).  status is "more" while searches can go on, then "end" or  *)
(* the result code of the search that failed.                              *)
(***************************************************************************)
Extend(c, r, n) ==
    [matches |-> Append(c.matches, r), pos |-> n.pos, opts |-> n.opts,
     status |-> IF n.more THEN "more" ELSE "end"]

\* The scan c, continued by a search with the result r.
Continue(pat, c, r) ==
    IF r.rc = "match" THEN Extend(c, r, NextCursor(pat, r, c.pos))
    ELSE [c EXCEPT !.status = IF r.rc = "nomatch" THEN "end" ELSE r.rc]

\* ... unless it is over.
GoOn(pat, c) ==
    IF c.status # "more" THEN c ELSE Continue(pat, c, Search(pat, c.pos, c.opts))

NoneYet(pos, opts) ==
    [matches |-> <<>>, pos |-> pos, opts |-> opts, status |-> "more"]

Scan(pat, pos, opts) ==
    LET scan[k \in Nat] ==
            IF k = 0 THEN NoneYet(pos, opts) ELSE GoOn(pat, scan[k - 1])
    IN  scan

\* Enough searches to exhaust the subject: two at each offset and one more.
FullScan(pat, pos, opts) == Scan(pat, pos, opts)[2 * Length(pat) + 3]

\* Patterns on the subject with the given boundaries whose matches start
\* where they are tried, with at most depth alternatives at each offset, the
\* match limit being the last of them.
Patterns(boundaries, depth) ==
    LET ways(s) == {Found(s, e) : e \in {b \in boundaries : b >= s}} \cup {HitLimit}
        lists == [s \in boundaries |-> 
                  {q \in SeqOf(ways(s), depth) :
                      IsInjective(q) /\ HitLimit \notin ToSet(SubSeq(q, 1, Len(q) - 1))}]
    IN  {[try |-> f] : f \in {g \in [boundaries -> UNION Range(lists)] :
                                 \A s \in boundaries : g[s] \in lists[s]}}
==============================================================================
