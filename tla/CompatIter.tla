------------------------------ MODULE CompatIter ------------------------------
(***************************************************************************)
(* The matchState of package regexp2: FindStringMatch followed by any      *)
(* sequence of FindNextMatch calls, each with any Regexp and with any match *)
(* obtained so far, and SetMatchLimits in between.  After a non-empty match *)
(* findCore serves the next one from a batched lib.Iter that the matchState *)
(* keeps; its comment promises that this cannot be told from one Find per  *)
(* call.  One action per path through findCore.                            *)
(***************************************************************************)
EXTENDS Pcre2Match

CONSTANTS Regexp,      \* the *Regexp values of the caller
          Lookbehind,  \* those with ECMAScript lookbehinds
          Compiled,    \* what they may be compiled from: to each Regexp the
                       \* patterns its expression yields under some match
                       \* limit, all on the same subject
          Batch,       \* findAllBatch
          MaxCalls,    \* bound: calls of FindNextMatch
          MaxLimits    \* bound: calls of SetMatchLimits

\* p and q are one expression under two match limits: they have the same ways
\* to match, in the same order, up to where one of them hits its limit.
SameWays(p, q) ==
    \A s \in DOMAIN p.try : \A i \in DOMAIN p.try[s] :
        \/ i \in DOMAIN q.try[s] /\ q.try[s][i] = p.try[s][i]
        \/ \E j \in 1..i : \/ p.try[s][j] = HitLimit
                           \/ j \in DOMAIN q.try[s] /\ q.try[s][j] = HitLimit

IsExpression(e) ==
    \A r, s \in Regexp : \A p \in e[r], q \in e[s] :
        /\ IsPattern(p) /\ DOMAIN p.try = DOMAIN q.try
        /\ r = s => SameWays(p, q)

ASSUME CompatIterAssumption ==
    /\ Regexp # {} /\ Lookbehind \subseteq Regexp
    /\ \A e \in Compiled : IsExpression(e)
    /\ Batch \in Nat \ {0} /\ MaxCalls \in Nat /\ MaxLimits \in Nat

VARIABLES
    expr,     \* the expression of each Regexp: fixed
    pat,      \* re.re: the pattern it is compiled to now
    version,  \* re.re: how often it was replaced; older ones are closed
    active, next, iter,  \* ms.iterActive, ms.iterNext, ms.iter
    held,     \* the matches of this matchState the caller has
    calls,    \* FindNextMatch calls so far
    last      \* the last call: its match, its result, and the result of Find

ms == <<active, next, iter>>
vars == <<expr, pat, version, ms, held, calls, last>>

NoIter == [re |-> "nil"]
Nil == NoMatch
ErrClosed == [rc |-> "ErrClosed", from |-> 0, to |-> 0]
Failed(r) == r.rc \notin {"match", "nomatch"}

\* The length of the subject, the same for all patterns.
End == Length(pat[CHOOSE r \in Regexp : TRUE])
Starts == DOMAIN pat[CHOOSE r \in Regexp : TRUE].try

Init ==
    /\ expr \in Compiled
    /\ pat \in [Regexp -> UNION Range(expr)]
    /\ \A r \in Regexp : pat[r] \in expr[r]
    /\ version = [r \in Regexp |-> 0]
    /\ active = FALSE /\ next = 0 /\ iter = NoIter
    /\ held = {} /\ calls = 0
    /\ last = [arg |-> Nil, got |-> Nil, want |-> Nil]

------------------------------------------------------------------------------
(* lib.Iter                                                                *)

Open(it) == it.v = version[it.re]

NewIter(r, start) ==
    [re |-> r, v |-> version[r], pos |-> start, opts |-> {}, chunk |-> <<>>,
     err |-> Nil, done |-> FALSE]

\* Mutant: an error ends the iteration like an exhausted subject.
TakeChunkSwallowsError(it, c) ==
    IF c.status \in {"more", "end"}
    THEN [it EXCEPT !.chunk = c.matches, !.pos = c.pos, !.opts = c.opts,
                    !.done = (c.status = "end")]
    ELSE [it EXCEPT !.done = TRUE]

\* A chunk of global matching, as a Scan; an error drops what it gathered.
TakeChunk(it, c) ==
    IF c.status \in {"more", "end"}
    THEN [it EXCEPT !.chunk = c.matches, !.pos = c.pos, !.opts = c.opts,
                    !.done = (c.status = "end")]
    ELSE [it EXCEPT !.err = [Nil EXCEPT !.rc = c.status], !.done = TRUE]

Fill(it) ==
    IF Open(it) THEN TakeChunk(it, Scan(pat[it.re], it.pos, it.opts)[Batch])
    ELSE [it EXCEPT !.err = ErrClosed, !.done = TRUE]

\* Next and Err, as iterServe combines them: the iterator as Next leaves it,
\* and what iterServe sees.
Pop(it) ==
    IF it.chunk = <<>> THEN [it |-> it, result |-> it.err]
    ELSE [it |-> [it EXCEPT !.chunk = Tail(@)], result |-> Head(it.chunk)]

Advance(it) ==
    Pop(IF it.chunk = <<>> /\ ~it.done /\ it.err = Nil THEN Fill(it) ELSE it)

------------------------------------------------------------------------------
(* findCore                                                                *)

\* One Find with the Regexp's current pattern; beyond the end there is none.
Find(r, start) == IF start > End THEN Nil ELSE Search(pat[r], start, {})

\* Past an empty match the next search starts one character further on.
NextStart(r, m) ==
    IF ~IsEmpty(m) THEN m.to
    ELSE IF m.to >= End THEN End + 1
    ELSE Bump(pat[r], m.to)

\* The result of the call, the match it was given, and what one Find from
\* there returns: the unbatched path.
Return(m, got, want) ==
    /\ last' = [arg |-> m, got |-> got, want |-> want]
    /\ held' = IF got.rc = "match" THEN held \cup {got} ELSE held
    /\ calls' = calls + 1

\* After a Find: armIter if it is a non-empty match, else inactive.
DisarmOrArm(r, got) ==
    IF got.rc = "match" /\ ~IsEmpty(got) /\ r \notin Lookbehind
    THEN active' = TRUE /\ next' = got.to /\ iter' = NoIter
    ELSE active' = FALSE /\ UNCHANGED <<next, iter>>

\* FindStringMatch or FindStringMatchStartingAt on a new matchState.
FirstMatch(r, start) ==
    /\ calls = 0
    /\ \E got \in {Find(r, start)} : Return(Nil, got, got) /\ DisarmOrArm(r, got)
    /\ UNCHANGED <<expr, pat, version>>

\* Mutant: a match that was found with another start is served too.
ServedAnywhere(r, m) == r \notin Lookbehind /\ ~IsEmpty(m) /\ active

Served(r, m) ==
    /\ r \notin Lookbehind
    /\ ~IsEmpty(m)
    /\ active /\ m.to = next

\* FindNextMatch after an empty match at the end of the subject.
NextNone(r, m) ==
    /\ IsEmpty(m) /\ m.to >= End
    /\ Return(m, Nil, Find(r, NextStart(r, m)))
    /\ UNCHANGED <<expr, pat, version, ms>>

\* Mutant: iterServe returns an error without disarming the iterator.
ServeStaysArmed(a) ==
    LET got == a.result
    IN  /\ iter' = a.it
        /\ active' = (Failed(got) \/ (got.rc = "match" /\ ~IsEmpty(got)))
        /\ next' = IF got.rc = "match" /\ ~IsEmpty(got) THEN got.to ELSE next

\* Mutant: iterServe keeps the iterator armed after an empty match.
ServeKeepsGoing(a) ==
    LET armed == a.result.rc = "match"
    IN  /\ iter' = a.it
        /\ active' = armed
        /\ next' = IF armed THEN a.result.to ELSE next

\* iterServe, when the iterator has advanced: it stays armed after a
\* non-empty match only.
Serve(a) ==
    LET armed == a.result.rc = "match" /\ ~IsEmpty(a.result)
    IN  /\ iter' = a.it
        /\ active' = armed
        /\ next' = IF armed THEN a.result.to ELSE next

NextServed(r, m) ==
    /\ Served(r, m)
    /\ \E a \in {Advance(IF iter = NoIter THEN NewIter(r, next) ELSE iter)} :
          Serve(a) /\ Return(m, a.result, Find(r, NextStart(r, m)))
    /\ UNCHANGED <<expr, pat, version>>

\* Any deviation: one Find.
NextSearched(r, m) ==
    /\ ~Served(r, m)
    /\ ~(IsEmpty(m) /\ m.to >= End)
    /\ \E got \in {Find(r, NextStart(r, m))} :
          Return(m, got, got) /\ DisarmOrArm(r, got)
    /\ UNCHANGED <<expr, pat, version>>

\* SetMatchLimits: recompile, replace re.re, close the old one.
SetMatchLimits(r) ==
    /\ version[r] < MaxLimits
    /\ \E p \in expr[r] : pat' = [pat EXCEPT ![r] = p]
    /\ version' = [version EXCEPT ![r] = @ + 1]
    /\ UNCHANGED <<expr, ms, held, calls, last>>

Next ==
    \E r \in Regexp :
        \/ SetMatchLimits(r)
        \/ calls < MaxCalls /\ \E start \in Starts : FirstMatch(r, start)
        \/ calls < MaxCalls /\ \E m \in held :
              NextNone(r, m) \/ NextServed(r, m) \/ NextSearched(r, m)

Spec == Init /\ [][Next]_vars

------------------------------------------------------------------------------
(* Properties                                                              *)

\* findCore promises "behaviour is identical to the unbatched path": whatever
\* match FindNextMatch is given, in whatever order, the batched iterator
\* returns what one Find from the end of that match returns.
IdenticalToUnbatched == last.got = last.want

\* The part of the promise that the code keeps: with no match limit in reach
\* and no SetMatchLimits, stale matches and a second Regexp with lookbehinds
\* make no difference.
IdenticalWithoutLimits ==
    /\ \A r \in Regexp : version[r] = 0
    /\ \A r \in Regexp, s \in Starts : HitLimit \notin ToSet(pat[r].try[s])
    => last.got = last.want

\* Match limits and SetMatchLimits may fail a call that one Find would not
\* fail, or the other way round; what they can never do is to make
\* FindNextMatch skip a match, invent one, or end the iteration early.
AgreesOrFails ==
    /\ ~Failed(last.got) /\ ~Failed(last.want) => last.got = last.want
    /\ Failed(last.want) /\ (\A r \in Regexp : version[r] = 0) => Failed(last.got)

\* An error leaves no iterator behind: the call after it is unbatched.
ErrorsDoNotStick == [][Failed(last.got) => last'.got = last'.want]_calls

\* The buffered matches are those that follow the last match served: the
\* iterator and the matchState's idea of where it stands never drift apart.
IterInStep ==
    active /\ iter # NoIter =>
        /\ Open(iter) => IsPrefix(iter.chunk, FullScan(pat[iter.re], next, {}).matches)
        /\ iter.err = Nil
        /\ \E m \in held : ~IsEmpty(m) /\ m.to = next
==============================================================================
