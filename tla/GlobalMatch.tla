------------------------------ MODULE GlobalMatch ------------------------------
(***************************************************************************)
(* Batched global matching: lib.Regexp.FindAll and lib.Iter over           *)
(* p2l_match_all.  One goroutine collects every match of a pattern in      *)
(* chunks of findAllBatch; between two chunks it holds no lock, so another *)
(* goroutine may close the Regexp.  One action per search of the C loop    *)
(* and per Go statement that moves matches to the caller.                  *)
(***************************************************************************)
EXTENDS Pcre2Match

CONSTANTS PatternSet,   \* patterns on a subject, see Pcre2Match
          Batches,      \* values of findAllBatch
          Limits,       \* limit arguments of FindAll, -1 for all matches
          StartOpts     \* resume options NewIter is called with

ASSUME GlobalMatchAssumption ==
    /\ \A p \in PatternSet : IsPattern(p)
    /\ Batches \subseteq Nat \ {0}
    /\ Limits \subseteq Nat \cup {-1}

VARIABLES
    pat, api, batch, limit,  \* the call: fixed
    pc,           \* "go" between chunks, "loop" in C, "back" from C, "end"
    start, opts,  \* Go's resume token
    pos, mopts,   \* the C loop's cursor, options in PCRE2's bits
    spans,        \* the matches written to the C buffer in this chunk
    rc,           \* what p2l_match_all returned
    chunk,        \* Iter: decoded matches not yet returned by Next
    out,          \* matches the caller has
    err, done,    \* the error the caller sees; Iter.done
    closed,       \* another goroutine closed the Regexp
    ref           \* history: the reference scan of this call

call == <<pat, api, batch, limit, ref>>
vars == <<call, pc, start, opts, pos, mopts, spans, rc, chunk, out, err, done, closed>>

MinOf(a, b) == IF a < b THEN a ELSE b

\* Mutant: untranslate_match_options lacks the line for NOTEMPTY_ATSTART.
UntranslateForgets(o) == o \ {"NOTEMPTY_ATSTART"}

\* translate_match_options and its inverse, between the wrapper's bits and
\* PCRE2's; NO_UTF_CHECK has no counterpart and is never handed back.
Options == {"ANCHORED", "NOTBOL", "NOTEOL", "NOTEMPTY", "NOTEMPTY_ATSTART", "ENDANCHORED"}
Translate(o) == o \cap Options
Untranslate(o) == o \cap Options

ASSUME StartOptsAssumption == StartOpts \subseteq SUBSET Options

\* The types of the variables; start and pos are boundaries of the subject.
TypeOK ==
    /\ IsPattern(pat) /\ api \in {"FindAll", "Iter"}
    /\ batch \in Nat \ {0} /\ limit \in Limits \cup {-1}
    /\ pc \in {"go", "loop", "back", "end"}
    /\ start \in DOMAIN pat.try /\ pos \in DOMAIN pat.try
    /\ opts \in SUBSET Options /\ mopts \in SUBSET Options
    /\ {spans, chunk, out} \subseteq Seq(MatchesFrom(pat, 0))
    /\ rc \in {"more", "none", "matchlimit"}
    /\ err \in {"nil", "matchlimit", "ErrClosed", "ErrNoMemory"}
    /\ done \in BOOLEAN /\ closed \in BOOLEAN

Init ==
    /\ pat \in PatternSet
    /\ api \in {"FindAll", "Iter"}
    /\ limit \in IF api = "FindAll" THEN Limits ELSE {-1}
    /\ \E b \in Batches :
          batch = IF limit > 0 THEN MinOf(b, limit) ELSE b
    /\ start \in IF api = "FindAll" THEN {0} ELSE DOMAIN pat.try
    /\ opts \in IF api = "FindAll" THEN {{}} ELSE StartOpts
    /\ pc = IF limit = 0 THEN "end" ELSE "go"
    /\ pos = start /\ mopts = {}
    /\ spans = <<>> /\ chunk = <<>> /\ out = <<>>
    /\ rc = "none" /\ err = "nil"
    /\ done = FALSE /\ closed = FALSE
    /\ ref = FullScan(pat, start, Translate(opts))

------------------------------------------------------------------------------
(* p2l_match_all under runMatchAll                                         *)

\* FindAll's loop, or Iter.Next with its chunk used up, asks for a chunk.
NeedsChunk ==
    /\ pc = "go"
    /\ api = "Iter" => chunk = <<>> /\ ~done /\ err = "nil"

CallMatchAll ==
    /\ NeedsChunk
    /\ ~closed
    /\ pc' = "loop"
    /\ pos' = start
    /\ mopts' = Translate(opts)
    /\ spans' = <<>>
    /\ UNCHANGED <<call, start, opts, rc, chunk, out, err, done, closed>>

\* runMatchAll returns before the C call: closed, or no scratch.
Refuse ==
    /\ NeedsChunk
    /\ \/ closed /\ err' = "ErrClosed"
       \/ ~closed /\ err' = "ErrNoMemory"
    /\ done' = TRUE
    /\ pc' = "end"
    /\ UNCHANGED <<call, start, opts, pos, mopts, spans, rc, chunk, out, closed>>

BufferFull == Len(spans) >= batch

\* Mutant: rc_more is not set when the buffer is full.
ReturnFullForgetsMore ==
    /\ pc = "loop"
    /\ BufferFull
    /\ pc' = "back"
    /\ rc' = "none"
    /\ start' = pos
    /\ opts' = Untranslate(mopts)
    /\ UNCHANGED <<call, pos, mopts, spans, chunk, out, err, done, closed>>

\* The buffer is full: hand back the cursor.
ReturnFull ==
    /\ pc = "loop"
    /\ BufferFull
    /\ pc' = "back"
    /\ rc' = "more"
    /\ start' = pos
    /\ opts' = Untranslate(mopts)
    /\ UNCHANGED <<call, pos, mopts, spans, chunk, out, err, done, closed>>

\* One more match in the buffer; pcre2_next_match says whether to go on.
Collect ==
    /\ pc = "loop"
    /\ ~BufferFull
    /\ \E r \in {Search(pat, pos, mopts)} :
          /\ r.rc = "match"
          /\ spans' = Append(spans, r)
          /\ \E n \in {NextCursor(pat, r, pos)} :
                \/ /\ n.more
                   /\ pos' = n.pos
                   /\ mopts' = n.opts
                   /\ UNCHANGED <<pc, rc, start, opts>>
                \/ /\ ~n.more
                   /\ pc' = "back"
                   /\ rc' = "none"
                   /\ start' = Length(pat)
                   /\ opts' = {}
                   /\ UNCHANGED <<pos, mopts>>
    /\ UNCHANGED <<call, chunk, out, err, done, closed>>

\* NOMATCH or an error ends the loop; the counts are set either way.
Fail ==
    LET r == Search(pat, pos, mopts)
    IN  /\ pc = "loop"
        /\ ~BufferFull
        /\ r.rc # "match"
        /\ pc' = "back"
        /\ rc' = IF r.rc = "nomatch" THEN "none" ELSE r.rc
        /\ start' = Length(pat)
        /\ opts' = {}
        /\ UNCHANGED <<call, pos, mopts, spans, chunk, out, err, done, closed>>

------------------------------------------------------------------------------
(* FindAll                                                                 *)

\* Mutant: return nil, err.
FindAllErrorDropsAll ==
    /\ pc = "back" /\ api = "FindAll"
    /\ rc = "matchlimit"
    /\ err' = rc
    /\ out' = <<>>
    /\ pc' = "end"
    /\ UNCHANGED <<call, start, opts, pos, mopts, spans, rc, chunk, done, closed>>

\* An error returns what earlier chunks gathered and drops this chunk's.
FindAllError ==
    /\ pc = "back" /\ api = "FindAll"
    /\ rc = "matchlimit"
    /\ err' = rc
    /\ pc' = "end"
    /\ UNCHANGED <<call, start, opts, pos, mopts, spans, rc, chunk, out, done, closed>>

FindAllTake ==
    /\ pc = "back" /\ api = "FindAll"
    /\ rc # "matchlimit"
    /\ LET all == out \o spans
           full == limit > 0 /\ Len(all) >= limit
       IN  /\ out' = IF full THEN SubSeq(all, 1, limit) ELSE all
           /\ pc' = IF full \/ rc # "more" THEN "end" ELSE "go"
    /\ UNCHANGED <<call, start, opts, pos, mopts, spans, rc, chunk, err, done, closed>>

------------------------------------------------------------------------------
(* Iter                                                                    *)

\* Mutant: an error leaves fill to be tried again.
IterFillRetries ==
    /\ pc = "back" /\ api = "Iter"
    /\ chunk' = IF rc = "matchlimit" THEN chunk ELSE spans
    /\ done' = (rc = "none")
    /\ pc' = "go"
    /\ UNCHANGED <<call, start, opts, pos, mopts, spans, rc, out, err, closed>>

\* fill after runMatchAll: an error drops the chunk for good.
IterFill ==
    /\ pc = "back" /\ api = "Iter"
    /\ IF rc = "matchlimit"
       THEN err' = rc /\ UNCHANGED chunk
       ELSE chunk' = spans /\ UNCHANGED err
    /\ done' = (rc # "more")
    /\ pc' = "go"
    /\ UNCHANGED <<call, start, opts, pos, mopts, spans, rc, out, closed>>

\* Next returns a match of the chunk ...
IterNext ==
    /\ pc = "go" /\ api = "Iter"
    /\ chunk # <<>>
    /\ out' = Append(out, Head(chunk))
    /\ chunk' = Tail(chunk)
    /\ UNCHANGED <<call, pc, start, opts, pos, mopts, spans, rc, err, done, closed>>

\* ... or nil, and the caller stops iterating.
IterEnd ==
    /\ pc = "go" /\ api = "Iter"
    /\ chunk = <<>>
    /\ done \/ err # "nil"
    /\ pc' = "end"
    /\ UNCHANGED <<call, start, opts, pos, mopts, spans, rc, chunk, out, err, done, closed>>

------------------------------------------------------------------------------
\* Another goroutine closes the Regexp; the read lock held for a chunk makes
\* it wait until no chunk is being gathered.
CloseRegexp ==
    /\ pc = "go"
    /\ ~closed
    /\ closed' = TRUE
    /\ UNCHANGED <<call, pc, start, opts, pos, mopts, spans, rc, chunk, out, err, done>>

Finished == pc = "end" /\ UNCHANGED vars

Progress ==
    \/ CallMatchAll \/ Refuse \/ ReturnFull \/ Collect \/ Fail
    \/ FindAllError \/ FindAllTake \/ IterFill \/ IterNext \/ IterEnd

Next == Progress \/ CloseRegexp \/ Finished

\* The goroutine runs, and calls Next until it returns nil.
Spec == Init /\ [][Next]_vars
FairSpec == Spec /\ WF_vars(Progress)

------------------------------------------------------------------------------
(* Properties                                                              *)

\* Whatever findAllBatch is and wherever the chunks are cut, the caller gets
\* the matches of one search after the other, each once and in order; so do
\* the chunk being gathered and the one being handed out.
PrefixOfReference ==
    LET handed == out \o chunk
        gathering == IF pc \in {"loop", "back"} THEN spans ELSE <<>>
    IN  IsPrefix(handed \o gathering, ref.matches)

\* Without an error nothing is missing: FindAll stops early only at its
\* limit, Iter never.
CompleteWithoutError ==
    pc = "end" /\ err = "nil" /\ limit # 0 =>
        IF limit > 0 /\ limit <= Len(ref.matches)
        THEN out = SubSeq(ref.matches, 1, limit)
        ELSE ref.status = "end" /\ out = ref.matches

\* A match-limit error is one that searching one match at a time meets too,
\* and it costs the caller less than one chunk of the matches before it.
ErrorLosesLessThanAChunk ==
    pc = "end" /\ err = "matchlimit" =>
        /\ ref.status = "matchlimit"
        /\ Len(ref.matches) - Len(out) < batch

\* Each search starts further on, or at the same offset with the empty match
\* there excluded: the loop in C cannot find the same match again.
CursorAdvances ==
    [][pc = "loop" /\ pc' = "loop" =>
          \/ pos' > pos
          \/ /\ pos' = pos
             /\ "NOTEMPTY_ATSTART" \in mopts' \ mopts]_vars

\* FindAll and an iteration to the end terminate, across chunks too.
Terminates == <>(pc = "end")
==============================================================================
