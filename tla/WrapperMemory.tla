---------------------------- MODULE WrapperMemory ----------------------------
(***************************************************************************)
(* The C wrapper's objects and error record: p2l_compile, p2l_scratch_new, *)
(* p2l_match, p2l_match_callout, p2l_match_all, p2l_scratch_free and        *)
(* p2l_free for one pattern, with every allocation free to fail.  An        *)
(* allocation, or a call of PCRE2, is a step.  Result codes keep their      *)
(* numbers, since the UTF-8 errors are recognised by their range.           *)
(***************************************************************************)
EXTENDS Integers

CONSTANTS Limit,        \* match and depth limits asked for, 0 for the default
          CompileCode,  \* errors of pcre2_compile
          MatchCode,    \* results of pcre2_match
          Groups        \* capture_count + 1

ASSUME WrapperAssumption ==
    /\ 0 \in Limit /\ Limit \subseteq Nat
    /\ CompileCode \subseteq Nat \ {0}
    /\ MatchCode \subseteq Int
    /\ Groups \in Nat \ {0}

VARIABLES
    pc,
    live,     \* the C objects that exist
    limits,   \* the limits p2l_compile was called with
    call,     \* the match call: function, spans argument, scratch or NULL
    context,  \* the limits of the match context the engine runs with
    rc,       \* what the match call returned
    engine,   \* history: what pcre2_match returned in this call, 0 if not run
    error     \* the code in the p2l_error record, reused by all calls

vars == <<pc, live, limits, call, context, rc, engine, error>>

Compiled == {"code", "regex", "mcontext"}
Scratch == {"scratch", "md"}
Object == Compiled \cup Scratch \cup {"ccontext", "temp", "callout_context"}

NOMATCH == -1
P2L_ERR_PARTIAL == -2
P2L_ERR_BADUTF == -3
P2L_ERR_MATCHLIMIT == -4
P2L_ERR_DEPTHLIMIT == -5
P2L_ERR_NOMEMORY == -6
P2L_ERR_INTERNAL == -8
P2L_ERR_SHORTBUF == -10

\* What the match functions may return.
Result == Nat \cup {P2L_ERR_PARTIAL, P2L_ERR_BADUTF, P2L_ERR_MATCHLIMIT,
                   P2L_ERR_DEPTHLIMIT, P2L_ERR_NOMEMORY, P2L_ERR_INTERNAL,
                   P2L_ERR_SHORTBUF}

\* What Compile keeps of its arguments; no limits, no match context.
Unlimited == [match |-> 0, depth |-> 0]
NeedsContext == limits # Unlimited

Call == [api : {"match", "callout", "all"}, spans : {"none", "short", "enough"},
         scratch : BOOLEAN]

Init ==
    /\ pc = "ccontext" /\ live = {}
    /\ limits \in [match : Limit, depth : Limit]
    /\ context = Unlimited
    /\ call = [api |-> "match", spans |-> "none", scratch |-> FALSE]
    /\ rc = 0 /\ engine = 0 /\ error = 0

\* The step of a function from one point to another, with what it allocates,
\* what it frees and what it leaves in the error record.
Step(from, to, new, gone, code) ==
    /\ pc = from /\ pc' = to
    /\ live' = (live \cup new) \ gone
    /\ error' = code

matching == <<limits, call, context, rc, engine>>

------------------------------------------------------------------------------
(* p2l_compile                                                             *)

\* Without a compile context the look-behind cap keeps its default.
CreateCompileContext ==
    /\ \E new \in {{"ccontext"}, {}} : Step("ccontext", "compile", new, {}, 0)
    /\ UNCHANGED matching

Pcre2Compile ==
    /\ \/ Step("compile", "calloc", {"code"}, {"ccontext"}, error)
       \/ \E c \in CompileCode : Step("compile", "failed", {}, {"ccontext"}, c)
    /\ UNCHANGED matching

CallocRegex ==
    /\ \/ Step("calloc", IF NeedsContext THEN "mcontext" ELSE "ready", {"regex"}, {}, error)
       \/ Step("calloc", "failed", {}, {"code"}, P2L_ERR_NOMEMORY)
    /\ UNCHANGED matching

\* Mutant: the compiled code is forgotten on the way out.
CreateMatchContextLeaks ==
    /\ \/ Step("mcontext", "ready", {"mcontext"}, {}, error)
       \/ Step("mcontext", "failed", {}, {"regex"}, P2L_ERR_NOMEMORY)
    /\ UNCHANGED matching

CreateMatchContext ==
    /\ \/ Step("mcontext", "ready", {"mcontext"}, {}, error)
       \/ Step("mcontext", "failed", {}, {"code", "regex"}, P2L_ERR_NOMEMORY)
    /\ UNCHANGED matching

------------------------------------------------------------------------------
(* p2l_scratch_new                                                         *)

ScratchNew ==
    /\ "scratch" \notin live
    /\ \/ Step("ready", "scratch", {"scratch"}, {}, error)
       \/ Step("ready", "ready", {}, {}, error)
    /\ UNCHANGED matching

ScratchMatchData ==
    /\ \/ Step("scratch", "ready", {"md"}, {}, error)
       \/ Step("scratch", "ready", {}, {"scratch"}, error)
    /\ UNCHANGED matching

------------------------------------------------------------------------------
(* p2l_match and p2l_match_callout (p2l_match_impl), p2l_match_all          *)

\* p2l_match_all insists on a buffer.
StartMatch ==
    /\ \E c \in Call :
          /\ c.scratch => "md" \in live
          /\ c.api = "all" => c.spans = "enough"
          /\ call' = c
    /\ Step("ready", "matchdata", {}, {}, 0)
    /\ context' = Unlimited /\ rc' = 0 /\ engine' = 0
    /\ UNCHANGED limits

\* Return to Go: rc, after freeing what only this call used.
Return(from, result, code) ==
    /\ Step(from, "returned", {}, {"temp", "callout_context"}, code)
    /\ rc' = result
    /\ UNCHANGED <<limits, call, context>>

TakeMatchData ==
    \/ /\ call.scratch
       /\ Step("matchdata", "context", {}, {}, error)
       /\ UNCHANGED matching
    \/ /\ ~call.scratch
       /\ \/ Step("matchdata", "context", {"temp"}, {}, error) /\ UNCHANGED matching
          \/ Return("matchdata", P2L_ERR_NOMEMORY, P2L_ERR_NOMEMORY) /\ UNCHANGED engine

\* Mutant: the context of a callout match has no depth limit.
TakeContextShallow ==
    \/ /\ call.api = "callout"
       /\ Step("context", "engine", {"callout_context"}, {}, error)
       /\ context' = [limits EXCEPT !.depth = 0]
       /\ UNCHANGED <<limits, call, rc, engine>>
    \/ /\ call.api # "callout"
       /\ Step("context", "engine", {}, {}, error)
       /\ context' = IF "mcontext" \in live THEN limits ELSE Unlimited
       /\ UNCHANGED <<limits, call, rc, engine>>

\* A callout needs a context of its own, with the limits set once more; the
\* shared one is read only.
TakeContext ==
    \/ /\ call.api = "callout"
       /\ \/ /\ Step("context", "engine", {"callout_context"}, {}, error)
             /\ context' = limits
             /\ UNCHANGED <<limits, call, rc, engine>>
          \/ Return("context", P2L_ERR_NOMEMORY, error) /\ UNCHANGED engine
    \/ /\ call.api # "callout"
       /\ Step("context", "engine", {}, {}, error)
       /\ context' = IF "mcontext" \in live THEN limits ELSE Unlimited
       /\ UNCHANGED <<limits, call, rc, engine>>

\* Mutant: other errors fall through to success.
MapMatchErrorSucceeds(code) ==
    CASE code = -2  -> P2L_ERR_PARTIAL
      [] code = -47 -> P2L_ERR_MATCHLIMIT
      [] code = -53 -> P2L_ERR_DEPTHLIMIT
      [] code = -48 -> P2L_ERR_NOMEMORY
      [] code = -36 \/ code \in -28..-3 -> P2L_ERR_BADUTF
      [] OTHER -> 0

\* map_match_error: named errors, the UTF-8 ones by their range.
MapMatchError(code) ==
    CASE code = -2  -> P2L_ERR_PARTIAL
      [] code = -47 -> P2L_ERR_MATCHLIMIT
      [] code = -53 -> P2L_ERR_DEPTHLIMIT
      [] code = -48 -> P2L_ERR_NOMEMORY
      [] code = -36 \/ code \in -28..-3 -> P2L_ERR_BADUTF
      [] OTHER -> P2L_ERR_INTERNAL

\* One search decides; its spans are copied if there is room for them.
RunMatch ==
    /\ call.api # "all"
    /\ \E code \in MatchCode :
          /\ engine' = code
          /\ \/ /\ code >= 0 /\ call.spans = "short"
                /\ Return("engine", P2L_ERR_SHORTBUF, error)
             \/ /\ code >= 0 /\ call.spans # "short"
                /\ Return("engine", IF code > 0 THEN code ELSE Groups, error)
             \/ /\ code = NOMATCH
                /\ Return("engine", 0, error)
             \/ /\ code < NOMATCH
                /\ Return("engine", MapMatchError(code), code)

\* Mutant: the error return skips the release of the match data.
RunMatchAllLeaks ==
    /\ call.api = "all"
    /\ \E code \in MatchCode :
          /\ engine' = code
          /\ \/ /\ code >= 0
                /\ Step("engine", "engine", {}, {}, error)
                /\ UNCHANGED <<limits, call, context, rc>>
             \/ /\ code >= 0
                /\ \E more \in {0, 1} : Return("engine", more, error)
             \/ /\ code = NOMATCH
                /\ Return("engine", 0, error)
             \/ /\ code < NOMATCH
                /\ Step("engine", "returned", {}, {}, code)
                /\ rc' = MapMatchError(code)
                /\ UNCHANGED <<limits, call, context>>

\* Search after search, until the buffer is full (1) or the subject is used
\* up (0), or one fails.
RunMatchAll ==
    /\ call.api = "all"
    /\ \E code \in MatchCode :
          /\ engine' = code
          /\ \/ /\ code >= 0
                /\ Step("engine", "engine", {}, {}, error)
                /\ UNCHANGED <<limits, call, context, rc>>
             \/ /\ code >= 0
                /\ \E more \in {0, 1} : Return("engine", more, error)
             \/ /\ code = NOMATCH
                /\ Return("engine", 0, error)
             \/ /\ code < NOMATCH
                /\ Return("engine", MapMatchError(code), code)

\* Go has read the result; the scratch, with the record, is used again.
Resume ==
    /\ Step("returned", "ready", {}, {}, error)
    /\ UNCHANGED matching

\* freeAll, then p2l_free.
Free ==
    /\ Step("ready", "freed", {}, Scratch \cup Compiled, error)
    /\ UNCHANGED matching

Ended == pc \in {"freed", "failed"} /\ UNCHANGED vars

Next ==
    \/ CreateCompileContext \/ Pcre2Compile \/ CallocRegex \/ CreateMatchContext
    \/ ScratchNew \/ ScratchMatchData
    \/ StartMatch \/ TakeMatchData \/ TakeContext \/ RunMatch \/ RunMatchAll
    \/ Resume \/ Free \/ Ended

Spec == Init /\ [][Next]_vars

------------------------------------------------------------------------------
(* Properties                                                              *)

\* Between calls exactly what Go holds a pointer to exists: all of the
\* pattern or nothing of it, a whole scratch or none, nothing of a call;
\* whichever allocation failed (the error paths of p2l_compile,
\* p2l_scratch_new and p2l_match_impl).
OwnedExactly ==
    /\ pc \in {"failed", "freed"} => live = {}
    /\ pc \in {"ready", "returned"} =>
          \E scratch \in {{}, Scratch} :
              live = {"code", "regex"} \cup scratch
                     \cup (IF NeedsContext THEN {"mcontext"} ELSE {})

\* The limits given to Compile bound every match, one with a callout too
\* ("catastrophic-backtracking protection"), and the engine has match data.
EngineIsProtected ==
    pc = "engine" =>
        /\ context = limits
        /\ live \cap {"md", "temp"} # {}
        /\ call.scratch <=> "temp" \notin live

\* What Go reads from the record belongs to this call although the record is
\* used again: translateMatchError of an internal error, and a CompileError;
\* and a failed search is never reported as a match or as no match.
ErrorIsOfThisCall ==
    /\ pc = "failed" => error # 0
    /\ pc = "returned" =>
          /\ rc = P2L_ERR_INTERNAL => error = engine
          /\ rc >= 0 => error = 0 /\ engine >= NOMATCH
          /\ engine < NOMATCH => rc < 0
==============================================================================
