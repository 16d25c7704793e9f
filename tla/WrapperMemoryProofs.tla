-------------------------- MODULE WrapperMemoryProofs --------------------------
(***************************************************************************)
(* WrapperMemory for any limits, error codes and results of the engine.    *)
(* The inductive invariant says what exists at every point of a function,  *)
(* and what the error record holds there.                                  *)
(***************************************************************************)
EXTENDS WrapperMemory, TLAPS

\* What Compile gives to Go, with and without a scratch.
Pattern == {"code", "regex"} \cup (IF NeedsContext THEN {"mcontext"} ELSE {})
Kept == {Pattern, Pattern \cup Scratch}

Points == {"ccontext", "compile", "calloc", "mcontext", "ready", "scratch", "matchdata",
           "context", "engine", "returned", "failed", "freed"}

TypeInv ==
    /\ pc \in Points
    /\ live \subseteq Object
    /\ call \in Call
    /\ rc \in Int /\ engine \in Int /\ error \in Int

\* What exists at each point: a function adds its own objects, in order.
LiveInv ==
    /\ pc = "ccontext" => live = {}
    /\ pc = "compile" => live \subseteq {"ccontext"}
    /\ pc = "calloc" => live = {"code"}
    /\ pc = "mcontext" => live = {"code", "regex"} /\ NeedsContext
    /\ pc \in {"ready", "returned"} => live \in Kept
    /\ pc = "scratch" => live = Pattern \cup {"scratch"}
    /\ pc = "matchdata" => live \in Kept
    /\ pc \in {"context", "engine"} => live \ {"temp", "callout_context"} \in Kept
    /\ pc \in {"matchdata", "context", "engine"} /\ call.scratch => "md" \in live
    /\ pc \in {"context", "engine"} => (call.scratch <=> "temp" \notin live)
    /\ pc \in {"failed", "freed"} => live = {}

\* The engine runs under the limits asked for, and the record is clear until
\* something fails.
CallInv ==
    /\ pc = "engine" => context = limits
    /\ pc \in {"matchdata", "context", "engine"} => error = 0 /\ engine >= 0

\* The inductive invariant.
IndInv == TypeInv /\ LiveInv /\ CallInv /\ ErrorIsOfThisCall

------------------------------------------------------------------------------
\* map_match_error gives a code of the wrapper, never the number of a match.
LEMMA MappedIsError ==
    ASSUME NEW code \in Int
    PROVE  /\ MapMatchError(code) \in Int
           /\ MapMatchError(code) < 0
BY DEF MapMatchError, P2L_ERR_PARTIAL, P2L_ERR_BADUTF, P2L_ERR_MATCHLIMIT,
       P2L_ERR_DEPTHLIMIT, P2L_ERR_NOMEMORY, P2L_ERR_INTERNAL

\* No call has been made: nothing is allocated and there is no error.
LEMMA IndInit == Init => IndInv
BY DEF Init, IndInv, TypeInv, LiveInv, CallInv, ErrorIsOfThisCall, Points, Call

\* Every step, of every function and on every path, keeps the invariant.
LEMMA IndStep == IndInv /\ [Next]_vars => IndInv'
<1> SUFFICES ASSUME IndInv, [Next]_vars PROVE IndInv'
  OBVIOUS
<1> USE WrapperAssumption
    DEF Step, matching, Points, NOMATCH, P2L_ERR_NOMEMORY, P2L_ERR_INTERNAL, P2L_ERR_SHORTBUF
\* Compile: nothing but the code, the regex and its context outlives it.
<1>1. CASE CreateCompileContext
  <2>1. TypeInv'
    BY <1>1 DEF IndInv, CreateCompileContext, TypeInv, Object, Compiled, Scratch
  <2>2. CallInv' /\ ErrorIsOfThisCall'
    BY <1>1 DEF IndInv, CreateCompileContext, TypeInv, CallInv, ErrorIsOfThisCall
  <2>3. LiveInv'
    BY <1>1 DEF IndInv, CreateCompileContext, LiveInv
  <2> QED
    BY <2>1, <2>2, <2>3 DEF IndInv
<1>2. CASE Pcre2Compile
  <2>1. TypeInv'
    <3>1. "code" \in Object
      BY DEF Object, Compiled
    <3> QED
      BY <1>2, <3>1 DEF IndInv, Pcre2Compile, TypeInv
  <2>2. CallInv' /\ ErrorIsOfThisCall'
    BY <1>2 DEF IndInv, Pcre2Compile, TypeInv, CallInv, ErrorIsOfThisCall
  <2>3. LiveInv'
    BY <1>2 DEF IndInv, Pcre2Compile, LiveInv
  <2> QED
    BY <2>1, <2>2, <2>3 DEF IndInv
<1>3. CASE CallocRegex
  <2>1. TypeInv'
    <3>1. "regex" \in Object
      BY DEF Object, Compiled
    <3> QED
      BY <1>3, <3>1 DEF IndInv, CallocRegex, TypeInv
  <2>2. CallInv' /\ ErrorIsOfThisCall'
    BY <1>3 DEF IndInv, CallocRegex, TypeInv, CallInv, ErrorIsOfThisCall
  <2>3. LiveInv'
    BY <1>3 DEF IndInv, CallocRegex, LiveInv, Kept, Pattern, NeedsContext
  <2> QED
    BY <2>1, <2>2, <2>3 DEF IndInv
<1>4. CASE CreateMatchContext
  <2>1. TypeInv'
    <3>1. "mcontext" \in Object
      BY DEF Object, Compiled
    <3> QED
      BY <1>4, <3>1 DEF IndInv, CreateMatchContext, TypeInv
  <2>2. CallInv' /\ ErrorIsOfThisCall'
    BY <1>4 DEF IndInv, CreateMatchContext, TypeInv, CallInv, ErrorIsOfThisCall
  <2>3. LiveInv'
    BY <1>4 DEF IndInv, CreateMatchContext, LiveInv, Kept, Pattern, NeedsContext
  <2> QED
    BY <2>1, <2>2, <2>3 DEF IndInv
\* A scratch is made whole or not at all.
<1>5. CASE ScratchNew
  <2>1. TypeInv' /\ CallInv' /\ ErrorIsOfThisCall'
    BY <1>5 DEF IndInv, ScratchNew, TypeInv, CallInv, ErrorIsOfThisCall, Object, Scratch
  <2>2. live = Pattern
    BY <1>5 DEF IndInv, ScratchNew, LiveInv, Kept, Scratch
  <2>3. LiveInv'
    BY <1>5, <2>2 DEF IndInv, ScratchNew, LiveInv, Kept, Pattern, NeedsContext
  <2> QED
    BY <2>1, <2>3 DEF IndInv
<1>6. CASE ScratchMatchData
  <2>1. TypeInv' /\ CallInv' /\ ErrorIsOfThisCall'
    BY <1>6 DEF IndInv, ScratchMatchData, TypeInv, CallInv, ErrorIsOfThisCall, Object, Scratch
  <2>2. LiveInv'
    BY <1>6 DEF IndInv, ScratchMatchData, LiveInv, Kept, Pattern, NeedsContext, Scratch
  <2> QED
    BY <2>1, <2>2 DEF IndInv
\* A match adds what it needs for itself, and every return takes it away.
<1>7. CASE StartMatch
  <2>1. TypeInv' /\ CallInv' /\ ErrorIsOfThisCall'
    BY <1>7 DEF IndInv, StartMatch, TypeInv, CallInv, ErrorIsOfThisCall
  <2>2. LiveInv'
    BY <1>7 DEF IndInv, StartMatch, LiveInv, Kept, Pattern, NeedsContext
  <2> QED
    BY <2>1, <2>2 DEF IndInv
<1>8. ASSUME pc \in {"matchdata", "context", "engine"}, NEW r, NEW c, Return(pc, r, c)
      PROVE  LiveInv' /\ live' \subseteq Object /\ pc' = "returned"
  <2>1. live' = live \ {"temp", "callout_context"} /\ pc' = "returned" /\ UNCHANGED limits
    BY <1>8 DEF Return
  <2>2. live' \in Kept
    BY <1>8, <2>1 DEF IndInv, LiveInv, Kept, Pattern, Scratch
  <2> QED
    BY <2>1, <2>2 DEF IndInv, LiveInv, TypeInv, Kept, Pattern, NeedsContext
<1>9. CASE TakeMatchData
  <2>1. CASE UNCHANGED matching
    <3>1. TypeInv' /\ CallInv' /\ ErrorIsOfThisCall'
      BY <1>9, <2>1 DEF IndInv, TakeMatchData, Return, TypeInv, CallInv, ErrorIsOfThisCall, Object
    <3>2. LiveInv'
      BY <1>9, <2>1 DEF IndInv, TakeMatchData, Return, LiveInv, Kept, Pattern, NeedsContext, Scratch
    <3> QED
      BY <3>1, <3>2 DEF IndInv
  <2>2. CASE Return("matchdata", P2L_ERR_NOMEMORY, P2L_ERR_NOMEMORY) /\ UNCHANGED engine
    <3>1. LiveInv' /\ live' \subseteq Object /\ pc' = "returned"
      BY <1>8, <2>2 DEF Return
    <3> QED
      BY <2>2, <3>1 DEF IndInv, Return, TypeInv, CallInv, ErrorIsOfThisCall
  <2> QED
    BY <1>9, <2>1, <2>2 DEF TakeMatchData
<1>10. CASE TakeContext
  <2>1. CASE Return("context", P2L_ERR_NOMEMORY, error) /\ UNCHANGED engine
    <3>1. LiveInv' /\ live' \subseteq Object /\ pc' = "returned"
      BY <1>8, <2>1 DEF Return
    <3> QED
      BY <2>1, <3>1 DEF IndInv, Return, TypeInv, CallInv, ErrorIsOfThisCall
  <2>2. CASE /\ \E new \in {{}, {"callout_context"}} : Step("context", "engine", new, {}, error)
             /\ context' = limits
             /\ UNCHANGED <<limits, call, rc, engine>>
    <3>1. TypeInv' /\ CallInv' /\ ErrorIsOfThisCall'
      BY <2>2 DEF IndInv, TypeInv, CallInv, ErrorIsOfThisCall, Object
    <3>2. LiveInv'
      BY <2>2 DEF IndInv, LiveInv, Kept, Pattern, NeedsContext, Scratch
    <3> QED
      BY <3>1, <3>2 DEF IndInv
  \* Without a match context the limits are the defaults.
  <2>3. ASSUME pc = "context" PROVE limits = IF "mcontext" \in live THEN limits ELSE Unlimited
    BY <2>3 DEF IndInv, LiveInv, Kept, Pattern, NeedsContext, Scratch
  <2> QED
    BY <1>10, <2>1, <2>2, <2>3 DEF TakeContext
<1>11. CASE RunMatch
  <2>1. PICK code \in MatchCode :
           /\ engine' = code
           /\ \/ /\ code >= 0 /\ call.spans = "short"
                 /\ Return("engine", P2L_ERR_SHORTBUF, error)
              \/ /\ code >= 0 /\ call.spans # "short"
                 /\ Return("engine", IF code > 0 THEN code ELSE Groups, error)
              \/ /\ code = NOMATCH
                 /\ Return("engine", 0, error)
              \/ /\ code < NOMATCH
                 /\ Return("engine", MapMatchError(code), code)
    BY <1>11 DEF RunMatch
  <2>2. code \in Int /\ MapMatchError(code) \in Int /\ MapMatchError(code) < 0
    BY MappedIsError
  <2>3. LiveInv' /\ live' \subseteq Object /\ pc' = "returned"
    BY <1>8, <2>1 DEF Return
  <2> QED
    BY <2>1, <2>2, <2>3 DEF IndInv, Return, TypeInv, CallInv, ErrorIsOfThisCall
<1>12. CASE RunMatchAll
  <2>1. PICK code \in MatchCode :
           /\ engine' = code
           /\ \/ /\ code >= 0
                 /\ Step("engine", "engine", {}, {}, error)
                 /\ UNCHANGED <<limits, call, context, rc>>
              \/ /\ code >= 0
                 /\ \E more \in {0, 1} : Return("engine", more, error)
              \/ /\ code = NOMATCH
                 /\ Return("engine", 0, error)
              \/ /\ code < NOMATCH
                 /\ Return("engine", MapMatchError(code), code)
    BY <1>12 DEF RunMatchAll
  <2>2. code \in Int /\ MapMatchError(code) \in Int /\ MapMatchError(code) < 0
    BY MappedIsError
  <2>3. CASE Step("engine", "engine", {}, {}, error) /\ code >= 0 /\ UNCHANGED <<limits, call, context, rc>>
    <3>1. LiveInv'
      BY <2>3 DEF IndInv, LiveInv, Kept, Pattern, NeedsContext
    <3> QED
      BY <2>1, <2>2, <2>3, <3>1 DEF IndInv, TypeInv, CallInv, ErrorIsOfThisCall
  <2>4. CASE \E r, c : Return("engine", r, c)
    <3>1. LiveInv' /\ live' \subseteq Object /\ pc' = "returned"
      BY <1>8, <2>4 DEF Return
    <3> QED
      BY <2>1, <2>2, <3>1 DEF IndInv, Return, TypeInv, CallInv, ErrorIsOfThisCall
  <2> QED
    BY <2>1, <2>3, <2>4
<1>13. CASE Resume
  BY <1>13 DEF IndInv, Resume, TypeInv, LiveInv, CallInv, ErrorIsOfThisCall, Kept, Pattern, NeedsContext
<1>14. CASE Free
  <2>1. live' = {}
    BY <1>14 DEF IndInv, Free, LiveInv, Kept, Pattern, Scratch, Compiled
  <2> QED
    BY <1>14, <2>1 DEF IndInv, Free, TypeInv, LiveInv, CallInv, ErrorIsOfThisCall
<1>15. CASE UNCHANGED vars
  BY <1>15 DEF vars, IndInv, TypeInv, LiveInv, CallInv, ErrorIsOfThisCall, Kept, Pattern, NeedsContext
<1> QED
  BY <1>1, <1>2, <1>3, <1>4, <1>5, <1>6, <1>7, <1>9, <1>10, <1>11, <1>12, <1>13, <1>14, <1>15
  DEF Next, Ended

------------------------------------------------------------------------------
\* The inductive invariant holds in every state that is reached.
THEOREM Invariance == Spec => []IndInv
<1>1. IndInv /\ UNCHANGED vars => IndInv'
  BY IndStep
<1> QED
  BY IndInit, IndStep, PTL DEF Spec

\* Whichever allocations of p2l_compile, p2l_scratch_new and the match
\* functions fail, in whatever sequence of calls: between calls exactly what
\* Go owns exists, and after a failed compile or a free nothing does.
THEOREM NothingLeaks == Spec => []OwnedExactly
<1>1. IndInv => OwnedExactly
  BY DEF IndInv, LiveInv, OwnedExactly, Kept, Pattern
<1> QED
  BY <1>1, Invariance, PTL

\* Every run of the engine is bounded by the limits of Compile, through the
\* shared match context or through that of a callout match, and has match data.
THEOREM LimitsAlwaysApply == Spec => []EngineIsProtected
<1>1. IndInv => EngineIsProtected
  BY DEF IndInv, LiveInv, CallInv, EngineIsProtected
<1> QED
  BY <1>1, Invariance, PTL

\* The error record that scratches carry from call to call never tells Go
\* of an earlier one, whatever codes the engine returns.
THEOREM ErrorsAreFresh == Spec => []ErrorIsOfThisCall
<1>1. IndInv => ErrorIsOfThisCall
  BY DEF IndInv
<1> QED
  BY <1>1, Invariance, PTL
==============================================================================
