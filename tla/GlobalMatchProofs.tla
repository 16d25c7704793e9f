--------------------------- MODULE GlobalMatchProofs ---------------------------
(***************************************************************************)
(* Batched global matching hands out what matching one at a time finds,    *)
(* for every pattern on every subject, every batch size, every limit and   *)
(* every start.  The invariant is an account of the reference scan: what   *)
(* the caller has, what lies in the chunk and in the C buffer, and what a  *)
(* scan from the cursor would still find are together the reference.       *)
(***************************************************************************)
EXTENDS GlobalMatch, ScanTheorems

\* The sequences of matches that there can be on this subject.
MatchSeq == Seq(MatchesFrom(pat, 0))

\* The reference is had followed by the full scan from p with the options o.
Remains(had, p, o) ==
    /\ ref.matches = had \o FullScan(pat, p, o).matches
    /\ ref.status = FullScan(pat, p, o).status

\* Nothing remains: the reference ended, or met the match limit, after had.
Ends(had, status) == ref.matches = had /\ ref.status = status

\* The reference met the match limit less than a chunk after had.
Lost(had) ==
    /\ ref.status = "matchlimit" /\ IsPrefix(had, ref.matches)
    /\ Len(ref.matches) - Len(had) < batch

\* The types, with what each point of the control has already settled.
Typed ==
    /\ TypeOK
    /\ ref.matches \in MatchSeq
    /\ api = "Iter" => limit = -1
    /\ pc # "go" \/ api = "FindAll" => chunk = <<>>
    /\ pc # "end" => (done => api = "Iter")
    /\ pc \in {"loop", "back"} => ~done /\ err = "nil" /\ Len(spans) <= batch

\* In Go, between two chunks: what was delivered and the chunk, followed by what a
\* scan from the cursor finds, are the reference; or the scan ended or failed.
AtGo ==
    \/ ~done /\ err = "nil" /\ Remains(out \o chunk, start, Translate(opts))
    \/ done /\ err = "nil" /\ Ends(out \o chunk, "end")
    \/ done /\ err = "matchlimit" /\ chunk = <<>> /\ Lost(out)

\* In the loop of p2l_match_all the same holds of the local cursor.
AtLoop == Remains(out \o spans, pos, mopts)

\* When p2l_match_all has returned, rc says how the reference goes on.
AtBack ==
    \/ rc = "more" /\ Remains(out \o spans, start, Translate(opts))
    \/ rc = "none" /\ Ends(out \o spans, "end")
    \/ rc = "matchlimit" /\ Ends(out \o spans, "matchlimit") /\ Len(spans) < batch

\* When the caller has everything, the properties of the runs hold.
AtEnd ==
    /\ IsPrefix(out, ref.matches)
    /\ CompleteWithoutError
    /\ ErrorLosesLessThanAChunk

\* The inductive invariant: at each point, how the state and the reference relate.
IndInv ==
    /\ Typed
    /\ pc = "go" => AtGo
    /\ pc = "loop" => AtLoop
    /\ pc = "back" => AtBack
    /\ pc = "end" => AtEnd

------------------------------------------------------------------------------
(* Sequences.                                                              *)

\* b may be appended to a, or c and d to b, first.
Regroup(a, b, c, d) == (a \o b) \o (c \o d) = (a \o (b \o c)) \o d

\* Concatenation, without what the provers know of it.
Cat(s, t) == s \o t

\* It is associative, and stays in a set of sequences.
LEMMA CatAssociative ==
    \A S : \A s, t, u \in Seq(S) : Cat(s, t) \in Seq(S) /\ Cat(Cat(s, t), u) = Cat(s, Cat(t, u))
<1>1. \A S : \A s, t \in Seq(S) : Cat(s, t) \in Seq(S)
    BY ConcatProperties DEF Cat
<1>2. \A S : \A s, t, u \in Seq(S) : Cat(Cat(s, t), u) = Cat(s, Cat(t, u))
    BY ConcatAssociative DEF Cat
<1>. QED BY <1>1, <1>2

\* Appending a chunk with its followers is appending the chunk, then they.
LEMMA ConcatRegroups ==
    ASSUME NEW S, NEW a \in Seq(S), NEW b \in Seq(S), NEW c \in Seq(S), NEW d \in Seq(S)
    PROVE  Regroup(a, b, c, d)
<1>1. Cat(Cat(a, b), Cat(c, d)) = Cat(Cat(a, Cat(b, c)), d)
    BY CatAssociative
<1>. QED BY <1>1 DEF Cat, Regroup

\* The first match of a chunk followed by more is that of the chunk.
LEMMA HeadConcat ==
    ASSUME NEW S, NEW a \in Seq(S), NEW b \in Seq(S), b # <<>>
    PROVE  /\ Append(a, Head(b)) \in Seq(S) /\ Tail(b) \in Seq(S)
           /\ Append(a, Head(b)) \o Tail(b) = a \o b
<1>1. Head(b) \in S /\ Tail(b) \in Seq(S) /\ Len(Tail(b)) = Len(b) - 1 /\ Len(b) > 0
    OBVIOUS
<1>2. Append(a, Head(b)) \in Seq(S)
    BY <1>1
<1>3. Len(Append(a, Head(b)) \o Tail(b)) = Len(a \o b)
    BY <1>1, <1>2
<1>4. ASSUME NEW i \in 1..Len(a \o b)
      PROVE  (Append(a, Head(b)) \o Tail(b))[i] = (a \o b)[i]
    BY <1>1, <1>2
<1>. QED BY <1>1, <1>2, <1>3, <1>4, SeqEqual

------------------------------------------------------------------------------
(* The initial state.                                                      *)

\* FindAll and Iter start before the first match of the subject.
LEMMA InitHolds == Init => IndInv
<1>. SUFFICES ASSUME Init PROVE IndInv
    OBVIOUS
<1>1. IsPattern(pat) /\ 0 \in Boundaries(pat)
    BY GlobalMatchAssumption DEF Init, IsPattern, Boundaries
<1>2. start \in Boundaries(pat) /\ opts \in SUBSET Options
    BY <1>1, StartOptsAssumption DEF Init, Boundaries
<1>3. ref.matches \in Seq(MatchesFrom(pat, 0))
    BY <1>1, <1>2, FullIsState DEF Init
<1>4. limit \in Limits \cup {-1} /\ batch \in Nat \ {0}
    BY GlobalMatchAssumption DEF Init, MinOf
<1>5. Typed
  <2>1. {spans, chunk, out} \subseteq Seq(MatchesFrom(pat, 0))
      BY DEF Init
  <2>2. TypeOK
      BY <1>1, <1>2, <1>4, <2>1 DEF Init, TypeOK, Boundaries
  <2>. QED BY <1>3, <2>2 DEF Init, Typed, MatchSeq
<1>6. pc = "go" => AtGo
    BY <1>3 DEF Init, AtGo, Remains
<1>7. pc = "end" => AtEnd
    BY <1>3 DEF Init, AtEnd, CompleteWithoutError, ErrorLosesLessThanAChunk, IsPrefix
<1>. QED BY <1>5, <1>6, <1>7 DEF Init, IndInv

------------------------------------------------------------------------------
(* The steps.                                                              *)

\* What the type invariant says of the parts of an account.
LEMMA TypedParts ==
    ASSUME Typed
    PROVE  /\ IsPattern(pat)
           /\ start \in Boundaries(pat) /\ pos \in Boundaries(pat)
           /\ spans \in MatchSeq /\ chunk \in MatchSeq /\ out \in MatchSeq
           /\ ref.matches \in MatchSeq
           /\ batch \in Nat /\ limit \in Nat \cup {-1}
           /\ Translate(opts) = opts /\ Untranslate(mopts) = mopts
BY GlobalMatchAssumption DEF Typed, TypeOK, Boundaries, MatchSeq, Translate, Untranslate

\* Entering p2l_match_all takes the cursor as it is.
LEMMA CallMatchAllKeeps ==
    ASSUME IndInv, CallMatchAll PROVE IndInv'
<1>1. /\ NeedsChunk /\ pc' = "loop" /\ pos' = start /\ mopts' = Translate(opts)
      /\ spans' = <<>> /\ out' = out /\ chunk' = chunk
      /\ UNCHANGED <<pat, api, batch, limit, ref, start, opts, rc, err, done, closed>>
    BY DEF CallMatchAll, call
<1>2. Typed /\ pc = "go" /\ AtGo
    BY <1>1 DEF IndInv, NeedsChunk
<1>3. chunk = <<>> /\ ~done /\ err = "nil" /\ Remains(out \o chunk, start, Translate(opts))
    BY <1>1, <1>2 DEF NeedsChunk, Typed, TypeOK, AtGo
<1>4. Typed'
  <2>1. TypeOK'
    <3>1. {spans', chunk', out'} \subseteq Seq(MatchesFrom(pat, 0))
        BY <1>1, <1>2, TypedParts DEF MatchSeq
    <3>. QED BY <1>1, <1>2, <3>1, TypedParts DEF Typed, TypeOK, Boundaries
  <2>. QED BY <1>1, <1>2, <1>3, <2>1, TypedParts DEF Typed, MatchSeq
<1>5. AtLoop'
    BY <1>1, <1>3 DEF AtLoop, Remains
<1>. QED BY <1>1, <1>4, <1>5 DEF IndInv

\* A closed Regexp, or a scratch that cannot be allocated, ends the call with what
\* the caller has by then.
LEMMA RefuseKeeps ==
    ASSUME IndInv, Refuse PROVE IndInv'
<1>1. /\ NeedsChunk /\ pc' = "end" /\ err' \in {"ErrClosed", "ErrNoMemory"} /\ done' = TRUE
      /\ UNCHANGED <<pat, api, batch, limit, ref, start, opts, pos, mopts, spans, rc, chunk,
                     out, closed>>
    BY DEF Refuse, call
<1>2. Typed /\ pc = "go" /\ AtGo
    BY <1>1 DEF IndInv, NeedsChunk
<1>3. chunk = <<>> /\ Remains(out \o chunk, start, Translate(opts))
    BY <1>1, <1>2 DEF NeedsChunk, Typed, TypeOK, AtGo
<1>4. Typed'
  <2>1. TypeOK'
      BY <1>1, <1>2 DEF Typed, TypeOK
  <2>. QED BY <1>1, <1>2, <1>3, <2>1 DEF Typed, MatchSeq
<1>5. IsPrefix(out, ref.matches)
  <2>1. FullScan(pat, start, Translate(opts)).matches \in MatchSeq
      BY <1>2, TypedParts, FullIsState DEF MatchSeq
  <2>2. out \o chunk = out
      BY <1>2, <1>3, TypedParts DEF MatchSeq
  <2>. QED BY <1>2, <1>3, <2>1, <2>2, TypedParts, PrefixOfConcat DEF Remains, MatchSeq
<1>6. AtEnd'
    BY <1>1, <1>5 DEF AtEnd, CompleteWithoutError, ErrorLosesLessThanAChunk
<1>. QED BY <1>1, <1>4, <1>6 DEF IndInv

\* A full buffer hands the cursor back, for the next call to go on from.
LEMMA ReturnFullKeeps ==
    ASSUME IndInv, ReturnFull PROVE IndInv'
<1>1. /\ pc = "loop" /\ pc' = "back" /\ rc' = "more"
      /\ start' = pos /\ opts' = Untranslate(mopts)
      /\ UNCHANGED <<pat, api, batch, limit, ref, pos, mopts, spans, chunk, out, err, done,
                     closed>>
    BY DEF ReturnFull, call
<1>2. Typed /\ AtLoop
    BY <1>1 DEF IndInv
<1>3. Typed'
  <2>1. TypeOK'
      BY <1>1, <1>2 DEF Typed, TypeOK, Untranslate
  <2>. QED BY <1>1, <1>2, <2>1 DEF Typed, MatchSeq
<1>4. Translate(opts') = mopts
    BY <1>1, <1>2 DEF Typed, TypeOK, Translate, Untranslate
<1>5. AtBack'
    BY <1>1, <1>2, <1>4 DEF AtLoop, AtBack, Remains
<1>. QED BY <1>1, <1>3, <1>5 DEF IndInv

\* One search of the loop: one match more, and whether to go on after it.
LEMMA CollectKeeps ==
    ASSUME IndInv, Collect PROVE IndInv'
<1>. DEFINE r == Search(pat, pos, mopts)
            n == NextCursor(pat, r, pos)
            full == FullScan(pat, pos, mopts)
<1>1. /\ pc = "loop" /\ ~BufferFull /\ r.rc = "match" /\ spans' = Append(spans, r)
      /\ \/ /\ n.more /\ pos' = n.pos /\ mopts' = n.opts
            /\ UNCHANGED <<pc, rc, start, opts>>
         \/ /\ ~n.more /\ pc' = "back" /\ rc' = "none" /\ start' = Length(pat) /\ opts' = {}
            /\ UNCHANGED <<pos, mopts>>
      /\ UNCHANGED <<pat, api, batch, limit, ref, chunk, out, err, done, closed>>
    BY DEF Collect, call
<1>2. Typed /\ AtLoop
    BY <1>1 DEF IndInv
<1>3. \/ /\ r \in MatchesFrom(pat, pos) /\ n.more /\ n.pos \in Boundaries(pat)
         /\ n.opts \in NextOpts /\ full = Glue(<<r>>, FullScan(pat, n.pos, n.opts))
      \/ /\ r \in MatchesFrom(pat, pos) /\ ~n.more
         /\ full.matches = <<r>> /\ full.status = "end"
    BY <1>1, <1>2, TypedParts, FullByFirstSearch DEF BeginsWith
<1>4. r \in MatchesFrom(pat, 0) /\ r.rc = "match"
    BY <1>1, <1>2, <1>3, TypedParts, MatchesGrow
<1>. HIDE DEF r, n, full
<1>5. spans' \in MatchSeq /\ Len(spans') <= batch
    BY <1>1, <1>2, <1>4, TypedParts DEF MatchSeq, BufferFull, Typed
<1>6. CASE n.more
  <2>1. /\ n.pos \in Boundaries(pat) /\ n.opts \in SUBSET Options
        /\ full = Glue(<<r>>, FullScan(pat, n.pos, n.opts))
      BY <1>3, <1>6 DEF NextOpts, Options
  <2>2. pc' = "loop" /\ pos' = n.pos /\ mopts' = n.opts /\ UNCHANGED <<rc, start, opts>>
      BY <1>1, <1>6
  <2>3. Typed'
    <3>1. {spans', chunk', out'} \subseteq Seq(MatchesFrom(pat, 0))
        BY <1>1, <1>2, <1>5, TypedParts DEF MatchSeq
    <3>2. TypeOK'
        BY <1>1, <1>2, <2>1, <2>2, <3>1, TypedParts DEF Typed, TypeOK, Boundaries
    <3>. QED BY <1>1, <1>2, <1>5, <2>2, <3>2 DEF Typed, MatchSeq
  <2>4. AtLoop'
    <3>. DEFINE rest == FullScan(pat, n.pos, n.opts)
    <3>1. rest.matches \in Seq(MatchesFrom(pat, 0))
        BY <1>2, <2>1, TypedParts, FullIsState
    <3>. HIDE DEF rest
    <3>2. full.matches = <<r>> \o rest.matches /\ full.status = rest.status
        BY <2>1 DEF Glue, rest
    <3>3. ref.matches = (out \o spans) \o full.matches /\ ref.status = full.status
        BY <1>2 DEF AtLoop, Remains, full
    <3>4. (out \o spans) \o (<<r>> \o rest.matches) = (out \o Append(spans, r)) \o rest.matches
      <4>1. out \in Seq(MatchesFrom(pat, 0)) /\ spans \in Seq(MatchesFrom(pat, 0))
          BY <1>2, TypedParts DEF MatchSeq
      <4>2. <<r>> \in Seq(MatchesFrom(pat, 0)) /\ Append(spans, r) = spans \o <<r>>
          BY <1>4, <4>1
      <4>3. Regroup(out, spans, <<r>>, rest.matches)
          BY <3>1, <4>1, <4>2, ConcatRegroups
      <4>. QED BY <4>2, <4>3 DEF Regroup
    <3>5. /\ ref' = ref /\ out' = out /\ spans' = Append(spans, r)
          /\ FullScan(pat, pos, mopts)' = rest
        BY <1>1, <2>2 DEF rest
    <3>. QED BY <3>2, <3>3, <3>4, <3>5 DEF AtLoop, Remains
  <2>. QED BY <2>2, <2>3, <2>4 DEF IndInv
<1>7. CASE ~n.more
  <2>1. full.matches = <<r>> /\ full.status = "end"
      BY <1>3, <1>7
  <2>2. /\ pc' = "back" /\ rc' = "none" /\ start' = Length(pat) /\ opts' = {}
        /\ UNCHANGED <<pos, mopts>>
      BY <1>1, <1>7
  <2>3. Typed'
    <3>1. {spans', chunk', out'} \subseteq Seq(MatchesFrom(pat, 0))
        BY <1>1, <1>2, <1>5, TypedParts DEF MatchSeq
    <3>2. Length(pat) \in Boundaries(pat)
        BY <1>2, TypedParts, LengthIsLast
    <3>3. TypeOK'
        BY <1>1, <1>2, <2>2, <3>1, <3>2, TypedParts DEF Typed, TypeOK, Boundaries
    <3>. QED BY <1>1, <1>2, <1>5, <2>2, <3>3 DEF Typed, MatchSeq
  <2>4. AtBack'
    <3>1. ref.matches = (out \o spans) \o <<r>> /\ ref.status = "end"
        BY <1>2, <2>1 DEF AtLoop, Remains, full
    <3>2. (out \o spans) \o <<r>> = out \o Append(spans, r)
      <4>1. out \in Seq(MatchesFrom(pat, 0)) /\ spans \in Seq(MatchesFrom(pat, 0))
          BY <1>2, TypedParts DEF MatchSeq
      <4>2. <<r>> \in Seq(MatchesFrom(pat, 0)) /\ Append(spans, r) = spans \o <<r>>
          BY <1>4, <4>1
      <4>. QED BY <4>1, <4>2, ConcatAssociative
    <3>. QED BY <1>1, <2>2, <3>1, <3>2 DEF AtBack, Ends
  <2>. QED BY <2>2, <2>3, <2>4 DEF IndInv
<1>. QED BY <1>6, <1>7

\* No further match, or an error, ends the loop.
LEMMA FailKeeps ==
    ASSUME IndInv, Fail PROVE IndInv'
<1>. DEFINE r == Search(pat, pos, mopts)
            n == NextCursor(pat, r, pos)
            full == FullScan(pat, pos, mopts)
<1>1. /\ pc = "loop" /\ ~BufferFull /\ r.rc # "match" /\ pc' = "back"
      /\ rc' = IF r.rc = "nomatch" THEN "none" ELSE r.rc
      /\ start' = Length(pat) /\ opts' = {}
      /\ UNCHANGED <<pat, api, batch, limit, ref, pos, mopts, spans, chunk, out, err, done,
                     closed>>
    BY DEF Fail, call
<1>2. Typed /\ AtLoop
    BY <1>1 DEF IndInv
<1>3. \/ r.rc = "nomatch" /\ full.matches = <<>> /\ full.status = "end"
      \/ r.rc = "matchlimit" /\ full.matches = <<>> /\ full.status = "matchlimit"
  <2>1. \/ r.rc = "match"
        \/ r.rc = "nomatch" /\ full.matches = <<>> /\ full.status = "end"
        \/ r.rc = "matchlimit" /\ full.matches = <<>> /\ full.status = "matchlimit"
    <3>1. IsPattern(pat) /\ pos \in Boundaries(pat) /\ n = NextCursor(pat, r, pos)
        BY <1>2, TypedParts
    <3>2. BeginsWith(pat, pos, mopts, r, n)
        BY <3>1, FullByFirstSearch
    <3>. QED BY <3>2 DEF BeginsWith
  <2>. QED BY <1>1, <2>1
<1>. HIDE DEF r, full
<1>4. Typed'
  <2>1. Length(pat) \in Boundaries(pat)
      BY <1>2, TypedParts, LengthIsLast
  <2>2. TypeOK'
      BY <1>1, <1>2, <1>3, <2>1 DEF Typed, TypeOK, Boundaries
  <2>. QED BY <1>1, <1>2, <2>2 DEF Typed, MatchSeq
<1>5. ref.matches = out \o spans /\ ref.status = full.status
  <2>1. ref.matches = (out \o spans) \o full.matches /\ ref.status = full.status
      BY <1>2 DEF AtLoop, Remains, full
  <2>2. out \o spans \in Seq(MatchesFrom(pat, 0)) /\ (out \o spans) \o <<>> = out \o spans
      BY <1>2, TypedParts DEF MatchSeq
  <2>. QED BY <1>3, <2>1, <2>2
<1>6. Len(spans) < batch
    BY <1>1, <1>2, TypedParts DEF BufferFull, MatchSeq
<1>7. AtBack'
    BY <1>1, <1>3, <1>5, <1>6 DEF AtBack, Ends
<1>. QED BY <1>1, <1>4, <1>7 DEF IndInv

\* FindAll returns the matches of earlier chunks and the error.
LEMMA FindAllErrorKeeps ==
    ASSUME IndInv, FindAllError PROVE IndInv'
<1>1. /\ pc = "back" /\ api = "FindAll" /\ rc = "matchlimit" /\ err' = rc /\ pc' = "end"
      /\ UNCHANGED <<pat, api, batch, limit, ref, start, opts, pos, mopts, spans, rc, chunk,
                     out, done, closed>>
    BY DEF FindAllError, call
<1>2. Typed /\ Ends(out \o spans, "matchlimit") /\ Len(spans) < batch
    BY <1>1 DEF IndInv, AtBack
<1>3. Typed'
  <2>1. TypeOK'
      BY <1>1, <1>2 DEF Typed, TypeOK
  <2>. QED BY <1>1, <1>2, <2>1 DEF Typed, MatchSeq
<1>4. out \in Seq(MatchesFrom(pat, 0)) /\ spans \in Seq(MatchesFrom(pat, 0)) /\ batch \in Nat
    BY <1>2, TypedParts DEF MatchSeq
<1>5. IsPrefix(out, ref.matches)
    BY <1>2, <1>4, PrefixOfConcat DEF Ends
<1>6. ref.status = "matchlimit" /\ Len(ref.matches) - Len(out) < batch
  <2>1. Len(out \o spans) = Len(out) + Len(spans)
      BY <1>4
  <2>. QED BY <1>2, <1>4, <2>1 DEF Ends
<1>7. AtEnd'
    BY <1>1, <1>5, <1>6 DEF AtEnd, CompleteWithoutError, ErrorLosesLessThanAChunk
<1>. QED BY <1>1, <1>3, <1>7 DEF IndInv

\* FindAll adds the chunk to its matches, up to the limit, and goes on or is done.
LEMMA FindAllTakeKeeps ==
    ASSUME IndInv, FindAllTake PROVE IndInv'
<1>. DEFINE all == out \o spans
            full == limit > 0 /\ Len(all) >= limit
<1>1. /\ pc = "back" /\ api = "FindAll" /\ rc # "matchlimit"
      /\ out' = IF full THEN SubSeq(all, 1, limit) ELSE all
      /\ pc' = IF full \/ rc # "more" THEN "end" ELSE "go"
      /\ UNCHANGED <<pat, api, batch, limit, ref, start, opts, pos, mopts, spans, rc, chunk,
                     err, done, closed>>
    BY DEF FindAllTake, call
<1>2. Typed /\ AtBack
    BY <1>1 DEF IndInv
<1>3. /\ IsPattern(pat) /\ start \in Boundaries(pat) /\ batch \in Nat
      /\ limit \in Nat \cup {-1}
      /\ all \in Seq(MatchesFrom(pat, 0)) /\ ref.matches \in Seq(MatchesFrom(pat, 0))
      /\ chunk = <<>> /\ ~done /\ err = "nil"
    BY <1>1, <1>2, TypedParts DEF MatchSeq, Typed
<1>4. IsPrefix(all, ref.matches)
  <2>1. CASE rc = "more" /\ Remains(all, start, Translate(opts))
    <3>1. FullScan(pat, start, Translate(opts)).matches \in Seq(MatchesFrom(pat, 0))
        BY <1>3, FullIsState
    <3>. HIDE DEF all
    <3>. QED BY <1>3, <2>1, <3>1, PrefixOfConcat DEF Remains
  <2>2. CASE Ends(all, "end")
    <3>. HIDE DEF all
    <3>. QED BY <1>3, <2>2 DEF Ends, IsPrefix
  <2>. QED BY <1>1, <1>2, <2>1, <2>2 DEF AtBack
<1>5. \/ rc = "more" /\ Remains(all, start, Translate(opts))
      \/ rc = "none" /\ Ends(all, "end")
    BY <1>1, <1>2 DEF AtBack
<1>. HIDE DEF all
<1>6. out' \in Seq(MatchesFrom(pat, 0)) /\ IsPrefix(out', ref.matches)
  <2>1. CASE full
    <3>1. limit \in 1..Len(all)
        BY <1>3, <2>1
    <3>2. SubSeq(all, 1, limit) \in Seq(MatchesFrom(pat, 0))
        BY <1>3, <3>1
    <3>3. IsPrefix(SubSeq(all, 1, limit), ref.matches)
        BY <1>3, <1>4, <3>1, PrefixOfPrefix
    <3>. QED BY <1>1, <2>1, <3>2, <3>3
  <2>2. CASE ~full
      BY <1>1, <1>3, <1>4, <2>2
  <2>. QED BY <2>1, <2>2
<1>7. Typed'
  <2>1. {spans', chunk', out'} \subseteq Seq(MatchesFrom(pat, 0))
      BY <1>1, <1>2, <1>6, TypedParts DEF MatchSeq
  <2>2. TypeOK'
      BY <1>1, <1>2, <2>1 DEF Typed, TypeOK
  <2>. QED BY <1>1, <1>2, <2>2 DEF Typed, MatchSeq
<1>8. CASE full
  <2>1. limit > 0 /\ limit <= Len(ref.matches) /\ out' = SubSeq(ref.matches, 1, limit)
    <3>1. limit \in 1..Len(all)
        BY <1>3, <1>8
    <3>. QED BY <1>1, <1>3, <1>4, <1>8, <3>1, PrefixOfPrefix
  <2>. QED BY <1>1, <1>3, <1>6, <1>7, <1>8, <2>1
           DEF IndInv, AtEnd, CompleteWithoutError, ErrorLosesLessThanAChunk
<1>9. CASE ~full /\ rc = "none"
  <2>1. out' = ref.matches /\ ref.status = "end" /\ ~(limit > 0 /\ limit <= Len(ref.matches))
      BY <1>1, <1>3, <1>5, <1>9 DEF Ends
  <2>. QED BY <1>1, <1>3, <1>6, <1>7, <1>9, <2>1
           DEF IndInv, AtEnd, CompleteWithoutError, ErrorLosesLessThanAChunk
<1>10. CASE ~full /\ rc = "more"
  <2>1. out' = all /\ pc' = "go" /\ all \o chunk = all
      BY <1>1, <1>3, <1>10
  <2>2. AtGo'
      BY <1>1, <1>3, <1>5, <1>10, <2>1 DEF AtGo, Remains
  <2>. QED BY <1>7, <2>1, <2>2 DEF IndInv
<1>. QED BY <1>5, <1>8, <1>9, <1>10

\* An iterator whose chunk is used up asks for the next.
LEMMA IterFillKeeps ==
    ASSUME IndInv, IterFill PROVE IndInv'
<1>1. /\ pc = "back" /\ api = "Iter" /\ pc' = "go" /\ done' = (rc # "more")
      /\ \/ rc = "matchlimit" /\ err' = "matchlimit" /\ chunk' = chunk
         \/ rc # "matchlimit" /\ chunk' = spans /\ err' = err
      /\ UNCHANGED <<pat, api, batch, limit, ref, start, opts, pos, mopts, spans, rc, out,
                     closed>>
    BY DEF IterFill, call
<1>2. Typed /\ AtBack
    BY <1>1 DEF IndInv
<1>3. chunk = <<>> /\ err = "nil"
    BY <1>1, <1>2 DEF Typed
<1>4. Typed'
  <2>1. {spans', chunk', out'} \subseteq Seq(MatchesFrom(pat, 0))
      BY <1>1, <1>2, TypedParts DEF MatchSeq
  <2>2. TypeOK'
      BY <1>1, <1>2, <2>1 DEF Typed, TypeOK
  <2>. QED BY <1>1, <1>2, <2>2 DEF Typed, MatchSeq
<1>5. AtGo'
  <2>1. CASE rc = "more" /\ Remains(out \o spans, start, Translate(opts))
      BY <1>1, <1>3, <2>1 DEF AtGo, Remains
  <2>2. CASE rc = "none" /\ Ends(out \o spans, "end")
      BY <1>1, <1>3, <2>2 DEF AtGo, Ends
  <2>3. CASE rc = "matchlimit" /\ Ends(out \o spans, "matchlimit") /\ Len(spans) < batch
    <3>1. /\ out \in Seq(MatchesFrom(pat, 0)) /\ spans \in Seq(MatchesFrom(pat, 0))
          /\ batch \in Nat
        BY <1>2, TypedParts DEF MatchSeq
    <3>2. Len(out \o spans) = Len(out) + Len(spans) /\ IsPrefix(out, out \o spans)
        BY <3>1, PrefixOfConcat
    <3>3. Len(ref.matches) - Len(out) < batch
        BY <2>3, <3>1, <3>2 DEF Ends
    <3>. QED BY <1>1, <1>3, <2>3, <3>2, <3>3 DEF AtGo, Lost, Ends
  <2>. QED BY <1>2, <2>1, <2>2, <2>3 DEF AtBack
<1>. QED BY <1>1, <1>4, <1>5 DEF IndInv

\* Next serves the first match of the chunk.
LEMMA IterNextKeeps ==
    ASSUME IndInv, IterNext PROVE IndInv'
<1>1. /\ pc = "go" /\ api = "Iter" /\ chunk # <<>>
      /\ out' = Append(out, Head(chunk)) /\ chunk' = Tail(chunk)
      /\ UNCHANGED <<pat, api, batch, limit, ref, pc, start, opts, pos, mopts, spans, rc, err,
                     done, closed>>
    BY DEF IterNext, call
<1>2. Typed /\ AtGo
    BY <1>1 DEF IndInv
<1>3. /\ out' \in Seq(MatchesFrom(pat, 0)) /\ chunk' \in Seq(MatchesFrom(pat, 0))
      /\ out' \o chunk' = out \o chunk
  <2>1. out \in Seq(MatchesFrom(pat, 0)) /\ chunk \in Seq(MatchesFrom(pat, 0))
      BY <1>2, TypedParts DEF MatchSeq
  <2>2. /\ Append(out, Head(chunk)) \in Seq(MatchesFrom(pat, 0))
        /\ Tail(chunk) \in Seq(MatchesFrom(pat, 0))
        /\ Append(out, Head(chunk)) \o Tail(chunk) = out \o chunk
      BY <1>1, <2>1, HeadConcat
  <2>. QED BY <1>1, <2>2
<1>4. Typed'
  <2>1. {spans', chunk', out'} \subseteq Seq(MatchesFrom(pat, 0))
      BY <1>1, <1>2, <1>3, TypedParts DEF MatchSeq
  <2>2. TypeOK'
      BY <1>1, <1>2, <2>1 DEF Typed, TypeOK
  <2>. QED BY <1>1, <1>2, <2>2 DEF Typed, MatchSeq
<1>5. AtGo'
  <2>1. CASE ~done /\ err = "nil" /\ Remains(out \o chunk, start, Translate(opts))
      BY <1>1, <1>3, <2>1 DEF AtGo, Remains
  <2>2. CASE done /\ err = "nil" /\ Ends(out \o chunk, "end")
      BY <1>1, <1>3, <2>2 DEF AtGo, Ends
  <2>. QED BY <1>1, <1>2, <2>1, <2>2 DEF AtGo
<1>. QED BY <1>1, <1>4, <1>5 DEF IndInv

\* Next returns nil when nothing is buffered and the iterator is done or failed.
LEMMA IterEndKeeps ==
    ASSUME IndInv, IterEnd PROVE IndInv'
<1>1. /\ pc = "go" /\ api = "Iter" /\ chunk = <<>> /\ (done \/ err # "nil") /\ pc' = "end"
      /\ UNCHANGED <<pat, api, batch, limit, ref, start, opts, pos, mopts, spans, rc, chunk,
                     out, err, done, closed>>
    BY DEF IterEnd, call
<1>2. Typed /\ AtGo
    BY <1>1 DEF IndInv
<1>3. Typed'
  <2>1. TypeOK'
      BY <1>1, <1>2 DEF Typed, TypeOK
  <2>. QED BY <1>1, <1>2, <2>1 DEF Typed, MatchSeq
<1>4. out \in Seq(MatchesFrom(pat, 0)) /\ limit = -1 /\ out \o chunk = out
    BY <1>1, <1>2, TypedParts DEF Typed, MatchSeq
<1>5. CASE err = "nil" /\ Ends(out \o chunk, "end")
  <2>1. ref.matches = out /\ ref.status = "end" /\ IsPrefix(out, ref.matches)
      BY <1>4, <1>5 DEF Ends, IsPrefix
  <2>2. AtEnd'
      BY <1>1, <1>4, <1>5, <2>1 DEF AtEnd, CompleteWithoutError, ErrorLosesLessThanAChunk
  <2>. QED BY <1>1, <1>3, <2>2 DEF IndInv
<1>6. CASE err = "matchlimit" /\ Lost(out)
  <2>1. AtEnd'
      BY <1>1, <1>6 DEF AtEnd, CompleteWithoutError, ErrorLosesLessThanAChunk, Lost
  <2>. QED BY <1>1, <1>3, <2>1 DEF IndInv
<1>. QED BY <1>1, <1>2, <1>5, <1>6 DEF AtGo

\* Close by another goroutine changes nothing the invariant is about.
LEMMA NothingChanges ==
    ASSUME IndInv, UNCHANGED <<call, start, opts, pos, mopts, spans, rc, chunk, out, err, done>>,
           UNCHANGED pc, closed' \in BOOLEAN
    PROVE  IndInv'
<1>1. /\ UNCHANGED <<pat, api, batch, limit, ref, pc, start, opts, pos, mopts, spans, rc, chunk,
                     out, err, done>>
      /\ closed' \in BOOLEAN
    BY DEF call
<1>2. Typed'
  <2>1. TypeOK'
      BY <1>1 DEF IndInv, Typed, TypeOK
  <2>. QED BY <1>1, <2>1 DEF IndInv, Typed, MatchSeq
<1>3. AtGo => AtGo'
  <2>1. /\ Remains(out \o chunk, start, Translate(opts))
              => Remains(out \o chunk, start, Translate(opts))'
        /\ Ends(out \o chunk, "end") => Ends(out \o chunk, "end")'
        /\ Lost(out) => Lost(out)'
      BY <1>1 DEF Remains, Ends, Lost
  <2>2. done \in BOOLEAN
      BY DEF IndInv, Typed, TypeOK
  <2>. QED BY <1>1, <2>1, <2>2 DEF AtGo
<1>4. AtLoop => AtLoop'
    BY <1>1 DEF AtLoop, Remains
<1>5. AtBack => AtBack'
    BY <1>1 DEF AtBack, Remains, Ends
<1>6. AtEnd => AtEnd'
    BY <1>1 DEF AtEnd, CompleteWithoutError, ErrorLosesLessThanAChunk
<1>. QED BY <1>1, <1>2, <1>3, <1>4, <1>5, <1>6 DEF IndInv

\* Every step keeps the invariant.
LEMMA NextKeeps ==
    ASSUME IndInv, [Next]_vars PROVE IndInv'
<1>1. CASE CloseRegexp
    BY <1>1, NothingChanges DEF CloseRegexp
<1>2. CASE UNCHANGED vars
  <2>1. closed \in BOOLEAN
      BY DEF IndInv, Typed, TypeOK
  <2>. QED BY <1>2, <2>1, NothingChanges DEF vars
<1>3. CASE Progress
    BY <1>3, CallMatchAllKeeps, RefuseKeeps, ReturnFullKeeps, CollectKeeps, FailKeeps,
       FindAllErrorKeeps, FindAllTakeKeeps, IterFillKeeps, IterNextKeeps, IterEndKeeps
       DEF Progress
<1>. QED BY <1>1, <1>2, <1>3 DEF Next, Finished

\* The invariant holds in every state of every behaviour.
LEMMA IndInvHolds == Spec => []IndInv
<1>. QED BY InitHolds, NextKeeps, PTL DEF Spec

------------------------------------------------------------------------------
(* The theorems.                                                           *)

\* Cursors, options, buffers and result codes are what the code takes them for.
THEOREM TypeCorrect == Spec => []TypeOK
<1>1. IndInv => TypeOK
    BY DEF IndInv, Typed
<1>. QED BY <1>1, IndInvHolds, PTL

\* However the subject is cut into chunks, the caller gets the matches of one
\* search after the other, each once and in order.
THEOREM InOrder == Spec => []PrefixOfReference
<1>1. ASSUME IndInv PROVE PrefixOfReference
  <2>. DEFINE M == MatchesFrom(pat, 0)
              gathering == IF pc \in {"loop", "back"} THEN spans ELSE <<>>
  <2>1. /\ out \in Seq(M) /\ chunk \in Seq(M) /\ spans \in Seq(M)
        /\ IsPattern(pat) /\ start \in Boundaries(pat) /\ pos \in Boundaries(pat)
        /\ Typed
      BY <1>1, TypedParts DEF IndInv, MatchSeq
  <2>2. \A p \in Boundaries(pat) : \A o : FullScan(pat, p, o).matches \in Seq(M)
      BY <2>1, FullIsState
  <2>. HIDE DEF M
  <2>3. out \o chunk \in Seq(M) /\ out \o spans \in Seq(M) /\ out \o <<>> = out
        /\ (out \o chunk) \o <<>> = out \o chunk
      BY <2>1
  <2>4. \A had \in Seq(M), p \in Boundaries(pat) : \A o :
            Remains(had, p, o) => IsPrefix(had, ref.matches)
      BY <2>2, PrefixOfConcat DEF Remains
  <2>5. \A had \in Seq(M) : \A status : Ends(had, status) => IsPrefix(had, ref.matches)
      BY DEF Ends, IsPrefix
  <2>6. CASE pc = "go"
      BY <1>1, <2>1, <2>3, <2>4, <2>5, <2>6 DEF IndInv, AtGo, Lost, PrefixOfReference
  <2>7. CASE pc = "loop"
    <3>1. chunk = <<>> /\ IsPrefix(out \o spans, ref.matches)
        BY <1>1, <2>1, <2>3, <2>4, <2>7 DEF IndInv, AtLoop, Typed
    <3>. QED BY <2>3, <2>7, <3>1 DEF PrefixOfReference
  <2>8. CASE pc = "back"
    <3>1. chunk = <<>> /\ IsPrefix(out \o spans, ref.matches)
        BY <1>1, <2>1, <2>3, <2>4, <2>5, <2>8 DEF IndInv, AtBack, Typed
    <3>. QED BY <2>3, <2>8, <3>1 DEF PrefixOfReference
  <2>9. CASE pc = "end"
      BY <1>1, <2>1, <2>3, <2>9 DEF IndInv, AtEnd, Typed, PrefixOfReference
  <2>. QED BY <2>1, <2>6, <2>7, <2>8, <2>9 DEF Typed, TypeOK
<1>. QED BY <1>1, IndInvHolds, PTL

\* A call that reports no error has missed nothing, whatever its limit is.
THEOREM Complete == Spec => []CompleteWithoutError
<1>1. IndInv => CompleteWithoutError
    BY DEF IndInv, AtEnd, CompleteWithoutError
<1>. QED BY <1>1, IndInvHolds, PTL

\* A match-limit error is one that single searches meet too, and it costs less
\* than a chunk of the matches before it.
THEOREM ErrorBounded == Spec => []ErrorLosesLessThanAChunk
<1>1. IndInv => ErrorLosesLessThanAChunk
    BY DEF IndInv, AtEnd, ErrorLosesLessThanAChunk
<1>. QED BY <1>1, IndInvHolds, PTL

\* The loop in C never searches again for what it has found.
THEOREM LoopAdvances == Spec => CursorAdvances
<1>. DEFINE Advances == pc = "loop" /\ pc' = "loop" =>
                            \/ pos' > pos
                            \/ pos' = pos /\ "NOTEMPTY_ATSTART" \in mopts' \ mopts
<1>1. ASSUME IndInv, Next PROVE [Advances]_vars
  <2>1. SUFFICES ASSUME pc = "loop", pc' = "loop", ~UNCHANGED vars
                 PROVE  \/ pos' > pos
                        \/ pos' = pos /\ "NOTEMPTY_ATSTART" \in mopts' \ mopts
      OBVIOUS
  <2>2. Collect
      BY <1>1, <2>1 DEF Next, Progress, CallMatchAll, NeedsChunk, Refuse, ReturnFull, Fail,
         FindAllError, FindAllTake, IterFill, IterNext, IterEnd, CloseRegexp, Finished
  <2>. DEFINE r == Search(pat, pos, mopts)
              n == NextCursor(pat, r, pos)
  <2>3. r.rc = "match" /\ n.more /\ pos' = n.pos /\ mopts' = n.opts
      BY <2>1, <2>2 DEF Collect
  <2>4. BeginsWith(pat, pos, mopts, r, n)
      BY <1>1, TypedParts, FullByFirstSearch DEF IndInv
  <2>. HIDE DEF r, n
  <2>. QED BY <2>3, <2>4 DEF BeginsWith
<1>2. Spec => [][Next]_vars
    BY PTL DEF Spec
<1>. QED BY <1>1, <1>2, IndInvHolds, PTL DEF CursorAdvances
===============================================================================
