------------------------------ MODULE SetLimits ------------------------------
(***************************************************************************)
(* A regexp2.Regexp shared by goroutines that match and goroutines that    *)
(* call SetMatchLimits.  A compiled generation is a lib.Regexp for the      *)
(* pattern and one for every ECMAScript lookbehind in it, which callouts   *)
(* use in the middle of a match.  The fields of the regexp2.Regexp are read *)
(* and written without a lock: every read and every write is a step.  Each *)
(* lib.Regexp has its own lock (RegexpLifecycle says what it promises);    *)
(* here its Close is announced, waits for the readers, then frees.         *)
(***************************************************************************)
EXTENDS Naturals, FiniteSets, GoRWMutex

CONSTANTS Reader, Writer,  \* goroutines
          Plans,           \* number of lookbehinds with a static plan
          MaxGen,          \* bound: calls of SetMatchLimits
          Limit            \* what a match may end with besides "ok"

ASSUME SetLimitsAssumption ==
    /\ Reader \cap Writer = {}
    /\ Plans \in Nat /\ MaxGen \in Nat
    /\ "ErrClosed" \notin Limit

VARIABLES
    main, looks,   \* the generation of re.re and of re.lookbehinds
    gens,          \* generations begun
    state, lock,   \* of each lib.Regexp
    pc,            \* where each goroutine is
    at, sub,       \* Reader: the lib.Regexp it matches on, and in a callout
    cbErr,         \* Reader: callbackErr, "nil" or an error
    result,        \* Reader: what its last match returned
    own, old, oldLooks,  \* Writer: new generation, old, oldLookbehinds
    plan,          \* Writer: the plan it compiles or closes
    raced,         \* history: SetMatchLimits ran during the reader's match
    lost           \* history: what was overwritten by a writer that had not
                   \* read it and so does not close it

fields == <<main, looks>>
reading == <<at, sub, cbErr, result, raced>>
writing == <<own, old, oldLooks, plan>>
vars == <<fields, gens, state, lock, pc, reading, writing, lost>>

Actor == Reader \cup Writer
Gen == 0..MaxGen
Handle == Gen \X (0..Plans)   \* <<g, 0>> the pattern, <<g, k>> plan k

Compiling == {"plans", "main"}
Swapping == {"loadRe", "loadLooks", "storeRe", "storeLooks"}
Closing == {"closeMain", "waitMain", "closePlans", "waitPlan"}
Setting(w) == pc[w] \in Compiling \cup Swapping \cup Closing

\* Compile has returned generation 0.
Init ==
    /\ main = 0 /\ looks = 0 /\ gens = 0
    /\ state = [h \in Handle |-> IF h[1] = 0 THEN "open" ELSE "none"]
    /\ lock = [h \in Handle |-> FreeLock]
    /\ pc = [p \in Actor |-> "idle"]
    /\ at = [p \in Reader |-> <<0, 0>>] /\ sub = [p \in Reader |-> <<0, 0>>]
    /\ cbErr = [p \in Reader |-> "nil"] /\ result = [p \in Reader |-> "none"]
    /\ own = [w \in Writer |-> 0] /\ old = [w \in Writer |-> 0]
    /\ oldLooks = [w \in Writer |-> 0] /\ plan = [w \in Writer |-> 1]
    /\ raced = [p \in Reader |-> FALSE]
    /\ lost = {}

Goto(p, from, to) ==
    /\ pc[p] = from
    /\ pc' = [pc EXCEPT ![p] = to]

------------------------------------------------------------------------------
(* A match: Find, or FindFromCallout with findWithECMAScriptLookbehinds    *)

\* re.re is read; until its lock is taken a SetMatchLimits may close it.
StartMatch(p) ==
    /\ Goto(p, "idle", "loaded")
    /\ at' = [at EXCEPT ![p] = <<main, 0>>]
    /\ result' = [result EXCEPT ![p] = "none"]
    /\ raced' = [raced EXCEPT ![p] = \E w \in Writer : Setting(w)]
    /\ UNCHANGED <<fields, gens, state, lock, sub, cbErr, writing, lost>>

LockMain(p) ==
    /\ Goto(p, "loaded", "rlock")
    /\ lock' = [lock EXCEPT ![at[p]] = RLock(@, p)]
    /\ UNCHANGED <<fields, gens, state, reading, writing, lost>>

\* The locals of a match end with it.
Return(p) ==
    /\ at' = [at EXCEPT ![p] = <<0, 0>>]
    /\ cbErr' = [cbErr EXCEPT ![p] = "nil"]

\* Closed already: the match is refused.
RefuseMatch(p) ==
    /\ p \in lock[at[p]].readers
    /\ state[at[p]] = "closed"
    /\ Goto(p, "rlock", "idle")
    /\ result' = [result EXCEPT ![p] = "ErrClosed"]
    /\ lock' = [lock EXCEPT ![at[p]] = RUnlock(@, p)]
    /\ Return(p)
    /\ UNCHANGED <<fields, gens, state, sub, raced, writing, lost>>

EnterC(p) ==
    /\ p \in lock[at[p]].readers
    /\ state[at[p]] # "closed"
    /\ Goto(p, "rlock", "inC")
    /\ UNCHANGED <<fields, gens, state, lock, reading, writing, lost>>

\* A callout: re.lookbehinds is read anew, whatever generation runs in C.
Callout(p) ==
    /\ Goto(p, "inC", "subLoaded")
    /\ \E k \in 1..Plans : sub' = [sub EXCEPT ![p] = <<looks, k>>]
    /\ UNCHANGED <<fields, gens, state, lock, at, cbErr, result, raced, writing, lost>>

LockPlan(p) ==
    /\ Goto(p, "subLoaded", "subLock")
    /\ lock' = [lock EXCEPT ![sub[p]] = RLock(@, p)]
    /\ UNCHANGED <<fields, gens, state, reading, writing, lost>>

\* The first error of a callout is kept in callbackErr.
Keep(p, e) == cbErr' = [cbErr EXCEPT ![p] = IF @ = "nil" THEN e ELSE @]

RefusePlan(p) ==
    /\ p \in lock[sub[p]].readers
    /\ state[sub[p]] = "closed"
    /\ Goto(p, "subLock", "inC")
    /\ Keep(p, "ErrClosed")
    /\ lock' = [lock EXCEPT ![sub[p]] = RUnlock(@, p)]
    /\ sub' = [sub EXCEPT ![p] = <<0, 0>>]
    /\ UNCHANGED <<fields, gens, state, at, result, raced, writing, lost>>

EnterPlan(p) ==
    /\ p \in lock[sub[p]].readers
    /\ state[sub[p]] # "closed"
    /\ Goto(p, "subLock", "sub")
    /\ UNCHANGED <<fields, gens, state, lock, reading, writing, lost>>

\* Mutant: the lock of the plan is not given back.
LeavePlanKeepsLock(p) ==
    /\ Goto(p, "sub", "inC")
    /\ \/ UNCHANGED cbErr
       \/ \E e \in Limit : Keep(p, e)
    /\ sub' = [sub EXCEPT ![p] = <<0, 0>>]
    /\ UNCHANGED <<fields, gens, state, lock, at, result, raced, writing, lost>>

LeavePlan(p) ==
    /\ Goto(p, "sub", "inC")
    /\ \/ UNCHANGED cbErr
       \/ \E e \in Limit : Keep(p, e)
    /\ lock' = [lock EXCEPT ![sub[p]] = RUnlock(@, p)]
    /\ sub' = [sub EXCEPT ![p] = <<0, 0>>]
    /\ UNCHANGED <<fields, gens, state, at, result, raced, writing, lost>>

\* The match ends: its own error first, then callbackErr, then the match.
LeaveC(p) ==
    /\ Goto(p, "inC", "idle")
    /\ \E e \in {IF cbErr[p] = "nil" THEN "ok" ELSE cbErr[p]} \cup Limit :
          result' = [result EXCEPT ![p] = e]
    /\ lock' = [lock EXCEPT ![at[p]] = RUnlock(@, p)]
    /\ Return(p)
    /\ UNCHANGED <<fields, gens, state, sub, raced, writing, lost>>

------------------------------------------------------------------------------
(* SetMatchLimits                                                          *)

StartSet(w) ==
    /\ gens < MaxGen
    /\ Goto(w, "idle", IF Plans > 0 THEN "plans" ELSE "main")
    /\ gens' = gens + 1
    /\ own' = [own EXCEPT ![w] = gens + 1]
    /\ plan' = [plan EXCEPT ![w] = 1]
    /\ raced' = [p \in Reader |-> raced[p] \/ pc[p] # "idle"]
    /\ UNCHANGED <<fields, state, lock, at, sub, cbErr, result, old, oldLooks, lost>>

\* compileECMAScriptLookbehinds: one plan after the other.
CompilePlan(w) ==
    /\ Goto(w, "plans", IF plan[w] < Plans THEN "plans" ELSE "main")
    /\ state' = [state EXCEPT ![<<own[w], plan[w]>>] = "open"]
    /\ plan' = [plan EXCEPT ![w] = @ + 1]
    /\ UNCHANGED <<fields, gens, lock, reading, own, old, oldLooks, lost>>

\* A plan does not compile: the earlier ones are dropped as they are.
CompilePlanFails(w) ==
    /\ Goto(w, "plans", "idle")
    /\ UNCHANGED <<fields, gens, state, lock, reading, writing, lost>>

CompileMain(w) ==
    /\ Goto(w, "main", "loadRe")
    /\ state' = [state EXCEPT ![<<own[w], 0>>] = "open"]
    /\ UNCHANGED <<fields, gens, lock, reading, writing, lost>>

\* Mutant: the new plans are not closed when the pattern does not compile.
CompileMainFailsLeaks(w) ==
    /\ Goto(w, "main", "idle")
    /\ UNCHANGED <<fields, gens, state, lock, reading, writing, lost>>

\* The pattern does not compile: the new plans, still private, are closed.
CompileMainFails(w) ==
    /\ Goto(w, "main", "idle")
    /\ state' = [h \in Handle |->
                    IF h[1] = own[w] /\ state[h] = "open" THEN "closed" ELSE state[h]]
    /\ UNCHANGED <<fields, gens, lock, reading, writing, lost>>

LoadRe(w) ==
    /\ Goto(w, "loadRe", "loadLooks")
    /\ old' = [old EXCEPT ![w] = main]
    /\ UNCHANGED <<fields, gens, state, lock, reading, own, oldLooks, plan, lost>>

LoadLooks(w) ==
    /\ Goto(w, "loadLooks", "storeRe")
    /\ oldLooks' = [oldLooks EXCEPT ![w] = looks]
    /\ UNCHANGED <<fields, gens, state, lock, reading, own, old, plan, lost>>

StoreRe(w) ==
    /\ Goto(w, "storeRe", "storeLooks")
    /\ main' = own[w]
    /\ lost' = lost \cup {h \in {<<main, 0>>} : main # old[w]}
    /\ UNCHANGED <<looks, gens, state, lock, reading, writing>>

\* Mutant: the new plans are not published.
StoreLooksForgets(w) ==
    /\ Goto(w, "storeLooks", "closeMain")
    /\ plan' = [plan EXCEPT ![w] = 1]
    /\ UNCHANGED <<fields, gens, state, lock, reading, own, old, oldLooks, lost>>

\* Without lookbehinds the field stays nil.
StoreLooks(w) ==
    /\ Goto(w, "storeLooks", "closeMain")
    /\ looks' = IF Plans > 0 THEN own[w] ELSE looks
    /\ plan' = [plan EXCEPT ![w] = 1]
    /\ lost' = lost \cup {h \in {looks} \X (1..Plans) : looks # oldLooks[w]}
    /\ UNCHANGED <<main, gens, state, lock, reading, own, old, oldLooks>>

\* lib.Regexp.Close by w: announce, then free when the readers have left.
AnnounceClose(w, h) ==
    /\ CanAnnounce(lock[h])
    /\ lock' = [lock EXCEPT ![h] = Announce(@, w)]

\* Mutant: Close does not wait for the matches in flight.
FinishCloseAtOnce(w, h) ==
    /\ w \in lock[h].writer
    /\ state' = [state EXCEPT ![h] = "closed"]
    /\ lock' = [lock EXCEPT ![h] = Unlock(@)]

\* Mutant: the deferred Unlock is missing.
FinishCloseKeepsLock(w, h) ==
    /\ Inside(lock[h], w)
    /\ state' = [state EXCEPT ![h] = "closed"]
    /\ UNCHANGED lock

FinishClose(w, h) ==
    /\ Inside(lock[h], w)
    /\ state' = [state EXCEPT ![h] = "closed"]
    /\ lock' = [lock EXCEPT ![h] = Unlock(@)]

CloseMain(w) ==
    \/ /\ Goto(w, "closeMain", "waitMain")
       /\ AnnounceClose(w, <<old[w], 0>>)
       /\ UNCHANGED <<fields, gens, state, reading, writing, lost>>
    \/ /\ Goto(w, "waitMain", IF Plans > 0 THEN "closePlans" ELSE "idle")
       /\ FinishClose(w, <<old[w], 0>>)
       /\ UNCHANGED <<fields, gens, reading, writing, lost>>

ClosePlan(w) ==
    \/ /\ Goto(w, "closePlans", "waitPlan")
       /\ AnnounceClose(w, <<oldLooks[w], plan[w]>>)
       /\ UNCHANGED <<fields, gens, state, reading, writing, lost>>
    \/ /\ Goto(w, "waitPlan", IF plan[w] < Plans THEN "closePlans" ELSE "idle")
       /\ FinishClose(w, <<oldLooks[w], plan[w]>>)
       /\ plan' = [plan EXCEPT ![w] = @ + 1]
       /\ UNCHANGED <<fields, gens, reading, own, old, oldLooks, lost>>

------------------------------------------------------------------------------
\* The steps of a goroutine that is inside a match or inside SetMatchLimits.
MatchStep(p) ==
    \/ LockMain(p) \/ RefuseMatch(p) \/ EnterC(p) \/ LockPlan(p)
    \/ RefusePlan(p) \/ EnterPlan(p) \/ LeavePlan(p)

SetStep(w) ==
    \/ CompilePlan(w) \/ CompilePlanFails(w) \/ CompileMain(w) \/ CompileMainFails(w)
    \/ LoadRe(w) \/ LoadLooks(w) \/ StoreRe(w) \/ StoreLooks(w)
    \/ CloseMain(w) \/ ClosePlan(w)

Next ==
    \/ \E p \in Reader : StartMatch(p) \/ MatchStep(p) \/ Callout(p) \/ LeaveC(p)
    \/ \E w \in Writer : StartSet(w) \/ SetStep(w)

\* Goroutines in a method run; a match ends though it may call out often.
Fairness ==
    /\ \A p \in Reader : WF_vars(MatchStep(p)) /\ SF_vars(LeaveC(p))
    /\ \A w \in Writer : WF_vars(SetStep(w))

Spec == Init /\ [][Next]_vars
FairSpec == Spec /\ Fairness

------------------------------------------------------------------------------
(* Properties                                                              *)

\* What a match uses, the pattern and the plan of the callout inside it, is
\* not freed under it, although the callout's plan may belong to another
\* generation than the pattern it was called from.
NoUseAfterFree ==
    \A p \in Reader :
        /\ pc[p] \in {"inC", "subLoaded", "subLock", "sub"} => state[at[p]] = "open"
        /\ pc[p] = "sub" => state[sub[p]] = "open"

\* What the fields point to is open at all times, also with two calls of
\* SetMatchLimits at once: each closes only what it replaced itself.
FieldsAreOpen ==
    /\ state[<<main, 0>>] = "open"
    /\ \A k \in 1..Plans : state[<<looks, k>>] = "open"

\* A match is refused with ErrClosed only if a SetMatchLimits ran meanwhile.
ClosedOnlyByRace == \A p \in Reader : result[p] = "ErrClosed" => raced[p]

\* Once no SetMatchLimits runs, nothing is left open but the generation in
\* use, the plans compiled before one that failed to compile, and what one
\* of two racing SetMatchLimits overwrote of the other.
OnlyFailuresLeak ==
    (\A w \in Writer : ~Setting(w)) =>
        \A h \in Handle :
            state[h] = "open" =>
                \/ h = <<main, 0>> \/ h[1] = looks
                \/ h \in lost
                \/ h[2] > 0 /\ state[<<h[1], Plans>>] = "none"

\* "Safe for concurrent use by multiple goroutines", SetMatchLimits included.
NeverRefused == \A p \in Reader : result[p] # "ErrClosed"

\* SetMatchLimits returns although matches keep coming, and so do matches
\* that call out to a plan while it is being closed.
SetReturns == \A w \in Writer : Setting(w) ~> pc[w] = "idle"
MatchReturns == \A p \in Reader : pc[p] # "idle" ~> pc[p] = "idle"
==============================================================================
