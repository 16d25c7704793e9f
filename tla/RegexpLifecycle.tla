--------------------------- MODULE RegexpLifecycle ---------------------------
(***************************************************************************)
(* One compiled lib.Regexp and the C memory behind it, shared by           *)
(* goroutines that match on it, close it and forget it, and by the garbage *)
(* collector, which runs its finalizer.  Each method is cut where another  *)
(* goroutine can see the difference: at the RWMutex, at the critical       *)
(* sections of the scratch pool, and at the C calls, which run outside the *)
(* pool's mutex.  A critical section of pool.mu is one step.               *)
(***************************************************************************)
EXTENDS Naturals, Sequences, FiniteSets, SequencesExt, GoRWMutex

CONSTANTS Caller,   \* goroutines that use the Regexp
          GC,       \* the goroutine that runs finalizers
          Scratch,  \* addresses calloc can return for a p2l_scratch
          None      \* the nil *matchScratch

ASSUME LifecycleAssumption == GC \notin Caller /\ None \notin Scratch

VARIABLES
    pc,       \* where each goroutine is
    op,       \* the method a matching goroutine runs
    ret,      \* what its last match returned
    held,     \* ms: the scratch it took from the pool or allocated
    lock,     \* r.mu
    closed,   \* r.closed
    ptr,      \* r.ptr # nil (and pool.re # nil: the two change together)
    free,     \* pool.free
    all,      \* pool.all
    regex,    \* the C regex, its code and match context
    heap,     \* the C scratch at each address
    handles,  \* goroutines whose cgo.Handle exists
    refs,     \* goroutines that still refer to the Regexp
    armed     \* the finalizer is set

pool == <<free, all>>
vars == <<pc, op, ret, held, lock, closed, ptr, free, all, regex, heap,
          handles, refs, armed>>

Actor == Caller \cup {GC}

MatchPC == {"rlock", "get", "alloc", "register", "ready", "inC", "callback",
            "put", "runlock"}
ClosePC == {"wlock", "announced", "freeAll", "freeCode", "wunlock"}

\* The goroutine holds the read lock and found the Regexp open.
InMatch(p) == pc[p] \in {"get", "alloc", "register", "ready", "inC", "callback", "put"}

\* C code is running on behalf of the goroutine, or waits for its callback.
InC(p) == pc[p] \in {"inC", "callback"}

Outcomes == {"match", "nomatch", "error"}

\* The types of the variables.
TypeOK ==
    /\ pc \in [Actor -> {"idle"} \cup MatchPC \cup ClosePC]
    /\ op \in [Caller -> {"none", "match", "callout"}]
    /\ ret \in [Caller -> Outcomes \cup {"none", "ErrClosed", "ErrNoMemory"}]
    /\ held \in [Caller -> Scratch \cup {None}]
    /\ lock \in LockType(Actor)
    /\ closed \in BOOLEAN
    /\ ptr \in BOOLEAN
    /\ free \in Seq(Scratch)
    /\ all \in Seq(Scratch)
    /\ regex \in {"live", "freed"}
    /\ heap \in [Scratch -> {"unallocated", "live", "freed"}]
    /\ handles \in SUBSET Caller
    /\ refs \in SUBSET Caller
    /\ armed \in BOOLEAN

\* Compile has returned: no scratch yet, the finalizer set, the Regexp shared.
Init ==
    /\ pc = [p \in Actor |-> "idle"]
    /\ op = [p \in Caller |-> "none"]
    /\ ret = [p \in Caller |-> "none"]
    /\ held = [p \in Caller |-> None]
    /\ lock = FreeLock
    /\ closed = FALSE
    /\ ptr = TRUE
    /\ free = <<>>
    /\ all = <<>>
    /\ regex = "live"
    /\ heap = [s \in Scratch |-> "unallocated"]
    /\ handles = {}
    /\ refs = Caller
    /\ armed = TRUE

Goto(p, from, to) ==
    /\ pc[p] = from
    /\ pc' = [pc EXCEPT ![p] = to]

------------------------------------------------------------------------------
(* runMatch, runMatchAll ("match") and runMatchCallout ("callout")         *)

StartMatch(p, o) ==
    /\ p \in refs
    /\ Goto(p, "idle", "rlock")
    /\ op' = [op EXCEPT ![p] = o]
    /\ lock' = RLock(lock, p)
    /\ UNCHANGED <<ret, held, closed, ptr, pool, regex, heap, handles, refs, armed>>

\* Mutant: the test of r.closed is lost.
CheckClosedNever(p) ==
    /\ p \in lock.readers
    /\ Goto(p, "rlock", "get")
    /\ UNCHANGED <<op, ret, held, lock, closed, ptr, pool, regex, heap, handles, refs, armed>>

\* Mutant: the early return for a closed Regexp does not unlock.
CheckClosedKeepsLock(p) ==
    /\ p \in lock.readers
    /\ Goto(p, "rlock", IF closed THEN "idle" ELSE "get")
    /\ ret' = IF closed THEN [ret EXCEPT ![p] = "ErrClosed"] ELSE ret
    /\ UNCHANGED <<op, held, lock, closed, ptr, pool, regex, heap, handles, refs, armed>>

\* The first statement under the read lock.
CheckClosed(p) ==
    /\ p \in lock.readers
    /\ \/ /\ closed
          /\ Goto(p, "rlock", "runlock")
          /\ ret' = [ret EXCEPT ![p] = "ErrClosed"]
       \/ /\ ~closed
          /\ Goto(p, "rlock", "get")
          /\ UNCHANGED ret
    /\ UNCHANGED <<op, held, lock, closed, ptr, pool, regex, heap, handles, refs, armed>>

\* Mutant: get reads the last free scratch and does not take it off.
PoolGetKeeps(p) ==
    /\ free # <<>>
    /\ Goto(p, "get", "ready")
    /\ held' = [held EXCEPT ![p] = Last(free)]
    /\ UNCHANGED <<op, ret, lock, closed, ptr, pool, regex, heap, handles, refs, armed>>

\* Mutant: a reused scratch is registered in pool.all again.
PoolGetRegisters(p) ==
    /\ free # <<>>
    /\ Goto(p, "get", "ready")
    /\ held' = [held EXCEPT ![p] = Last(free)]
    /\ free' = Front(free)
    /\ all' = Append(all, Last(free))
    /\ UNCHANGED <<op, ret, lock, closed, ptr, regex, heap, handles, refs, armed>>

\* scratchPool.get reuses the scratch that was put back last ...
PoolGet(p) ==
    /\ free # <<>>
    /\ Goto(p, "get", "ready")
    /\ held' = [held EXCEPT ![p] = Last(free)]
    /\ free' = Front(free)
    /\ UNCHANGED <<op, ret, lock, closed, ptr, all, regex, heap, handles, refs, armed>>

\* ... and with none free leaves pool.mu to allocate, if pool.re is set.
PoolMiss(p) ==
    /\ free = <<>>
    /\ Goto(p, "get", IF ptr THEN "alloc" ELSE "runlock")
    /\ ret' = IF ptr THEN ret ELSE [ret EXCEPT ![p] = "ErrNoMemory"]
    /\ UNCHANGED <<op, held, lock, closed, ptr, pool, regex, heap, handles, refs, armed>>

\* p2l_scratch_new returns some unused address, or NULL.
ScratchNew(p) ==
    /\ \/ \E s \in Scratch :
            /\ heap[s] # "live"
            /\ Goto(p, "alloc", "register")
            /\ heap' = [heap EXCEPT ![s] = "live"]
            /\ held' = [held EXCEPT ![p] = s]
            /\ UNCHANGED ret
       \/ /\ Goto(p, "alloc", "runlock")
          /\ ret' = [ret EXCEPT ![p] = "ErrNoMemory"]
          /\ UNCHANGED <<heap, held>>
    /\ UNCHANGED <<op, lock, closed, ptr, pool, regex, handles, refs, armed>>

\* Mutant: a new scratch is not recorded in pool.all.
PoolRegisterForgets(p) ==
    /\ Goto(p, "register", "ready")
    /\ UNCHANGED <<op, ret, held, lock, closed, ptr, pool, regex, heap, handles, refs, armed>>

PoolRegister(p) ==
    /\ Goto(p, "register", "ready")
    /\ all' = Append(all, held[p])
    /\ UNCHANGED <<op, ret, held, lock, closed, ptr, free, regex, heap, handles, refs, armed>>

\* Mutant: the read lock is given back before the C call.
EnterCUnlocked(p) ==
    /\ Goto(p, "ready", "inC")
    /\ lock' = RUnlock(lock, p)
    /\ handles' = IF op[p] = "callout" THEN handles \cup {p} ELSE handles
    /\ UNCHANGED <<op, ret, held, closed, ptr, pool, regex, heap, refs, armed>>

\* p2l_match, p2l_match_all or p2l_match_callout; the last with a handle.
EnterC(p) ==
    /\ Goto(p, "ready", "inC")
    /\ handles' = IF op[p] = "callout" THEN handles \cup {p} ELSE handles
    /\ UNCHANGED <<op, ret, held, lock, closed, ptr, pool, regex, heap, refs, armed>>

\* bridge_callout -> p2l_go_callout: Go code runs in the middle of the match.
CalloutEnter(p) ==
    /\ p \in handles
    /\ Goto(p, "inC", "callback")
    /\ UNCHANGED <<op, ret, held, lock, closed, ptr, pool, regex, heap, handles, refs, armed>>

\* The callback returns, or panics and p2l_go_callout returns 1 for it.
CalloutReturn(p) ==
    /\ Goto(p, "callback", "inC")
    /\ UNCHANGED <<op, ret, held, lock, closed, ptr, pool, regex, heap, handles, refs, armed>>

\* Mutant: the error path returns without putting the scratch back.
LeaveCDropsScratch(p) ==
    /\ \E o \in Outcomes :
          /\ Goto(p, "inC", IF o = "error" THEN "runlock" ELSE "put")
          /\ ret' = [ret EXCEPT ![p] = o]
    /\ handles' = handles \ {p}
    /\ UNCHANGED <<op, held, lock, closed, ptr, pool, regex, heap, refs, armed>>

\* The C call returns; the deferred handle.Delete runs.
LeaveC(p) ==
    /\ Goto(p, "inC", "put")
    /\ \E o \in Outcomes : ret' = [ret EXCEPT ![p] = o]
    /\ handles' = handles \ {p}
    /\ UNCHANGED <<op, held, lock, closed, ptr, pool, regex, heap, refs, armed>>

PoolPut(p) ==
    /\ Goto(p, "put", "runlock")
    /\ free' = Append(free, held[p])
    /\ held' = [held EXCEPT ![p] = None]
    /\ UNCHANGED <<op, ret, lock, closed, ptr, all, regex, heap, handles, refs, armed>>

ReadUnlock(p) ==
    /\ Goto(p, "runlock", "idle")
    /\ op' = [op EXCEPT ![p] = "none"]
    /\ lock' = RUnlock(lock, p)
    /\ UNCHANGED <<ret, held, closed, ptr, pool, regex, heap, handles, refs, armed>>

------------------------------------------------------------------------------
(* Close, and finalize with the same body on the finalizer goroutine       *)

StartClose(p) ==
    /\ p \in refs
    /\ Goto(p, "idle", "wlock")
    /\ UNCHANGED <<op, ret, held, lock, closed, ptr, pool, regex, heap, handles, refs, armed>>

\* A goroutine outside any method of the Regexp drops its last reference.
Forget(p) ==
    /\ pc[p] = "idle"
    /\ p \in refs
    /\ refs' = refs \ {p}
    /\ UNCHANGED <<pc, op, ret, held, lock, closed, ptr, pool, regex, heap, handles, armed>>

\* The Regexp is unreachable: the runtime clears its finalizer and runs it.
Finalize ==
    /\ refs = {}
    /\ armed
    /\ armed' = FALSE
    /\ Goto(GC, "idle", "wlock")
    /\ UNCHANGED <<op, ret, held, lock, closed, ptr, pool, regex, heap, handles, refs>>

AnnounceWriter(p) ==
    /\ CanAnnounce(lock)
    /\ Goto(p, "wlock", "announced")
    /\ lock' = Announce(lock, p)
    /\ UNCHANGED <<op, ret, held, closed, ptr, pool, regex, heap, handles, refs, armed>>

\* Mutant: the early return of a second Close does not unlock.
MarkClosedKeepsLock(p) ==
    /\ Inside(lock, p)
    /\ Goto(p, "announced", IF closed THEN "idle" ELSE "freeAll")
    /\ closed' = TRUE
    /\ UNCHANGED <<op, ret, held, lock, ptr, pool, regex, heap, handles, refs, armed>>

\* The readers have left: return if closed already, close otherwise.
MarkClosed(p) ==
    /\ Inside(lock, p)
    /\ \/ /\ closed
          /\ Goto(p, "announced", "wunlock")
          /\ UNCHANGED closed
       \/ /\ ~closed
          /\ Goto(p, "announced", "freeAll")
          /\ closed' = TRUE
    /\ UNCHANGED <<op, ret, held, lock, ptr, pool, regex, heap, handles, refs, armed>>

FreeAll(p) ==
    /\ Goto(p, "freeAll", "freeCode")
    /\ heap' = [s \in Scratch |-> IF s \in ToSet(all) THEN "freed" ELSE heap[s]]
    /\ all' = <<>>
    /\ free' = <<>>
    /\ UNCHANGED <<op, ret, held, lock, closed, ptr, regex, handles, refs, armed>>

\* p2l_free and the nil assignments; only Close clears the finalizer.
FreeCode(p) ==
    /\ Goto(p, "freeCode", "wunlock")
    /\ regex' = IF ptr THEN "freed" ELSE regex
    /\ ptr' = FALSE
    /\ armed' = (armed /\ p = GC)
    /\ UNCHANGED <<op, ret, held, lock, closed, pool, heap, handles, refs>>

WriteUnlock(p) ==
    /\ Goto(p, "wunlock", "idle")
    /\ lock' = Unlock(lock)
    /\ UNCHANGED <<op, ret, held, closed, ptr, pool, regex, heap, handles, refs, armed>>

------------------------------------------------------------------------------
\* The steps a goroutine takes once it has called a method.
MatchStep(p) ==
    \/ CheckClosed(p) \/ PoolGet(p) \/ PoolMiss(p) \/ ScratchNew(p)
    \/ PoolRegister(p) \/ EnterC(p) \/ CalloutReturn(p) \/ LeaveC(p)
    \/ PoolPut(p) \/ ReadUnlock(p)

CloseStep(p) == MarkClosed(p) \/ FreeAll(p) \/ FreeCode(p) \/ WriteUnlock(p)

\* Nobody refers to the Regexp and no finalizer is left to run.
Collected ==
    /\ refs = {}
    /\ ~armed
    /\ \A p \in Actor : pc[p] = "idle"
    /\ UNCHANGED vars

Next ==
    \/ \E p \in Caller :
          \/ \E o \in {"match", "callout"} : StartMatch(p, o)
          \/ MatchStep(p)
          \/ CalloutEnter(p)
          \/ StartClose(p)
          \/ Forget(p)
    \/ Finalize
    \/ \E p \in Actor : AnnounceWriter(p) \/ CloseStep(p)
    \/ Collected

(***************************************************************************)
(* A goroutine inside a method is scheduled.  The C call ends whatever the *)
(* callbacks do (PCRE2's match limit counts the steps between callouts),   *)
(* and sync.Mutex hands the writer mutex over in the order of arrival when *)
(* a goroutine has waited for long: strong fairness for these two.  Nothing *)
(* is assumed of the calls themselves, of Forget or of the collector.      *)
(***************************************************************************)
Fairness ==
    /\ \A p \in Caller : WF_vars(MatchStep(p)) /\ SF_vars(LeaveC(p))
    /\ \A p \in Actor : WF_vars(CloseStep(p)) /\ SF_vars(AnnounceWriter(p))

Spec == Init /\ [][Next]_vars
FairSpec == Spec /\ Fairness

------------------------------------------------------------------------------
(* Properties                                                              *)

\* Two goroutines never work in the same match data, and the pool never
\* hands out a scratch that is in use (scratchPool.get and put).
ScratchExclusive ==
    /\ \A p, q \in Caller : p # q /\ held[p] # None => held[p] # held[q]
    /\ \A p \in Caller : held[p] \notin ToSet(free)

\* While C code runs for a goroutine, the pattern it reads, the scratch it
\* writes and the handle its callback looks up exist: Close waits for the
\* matches in flight (the read lock held across the C call).
NoUseAfterFree ==
    /\ \A p \in Caller : InC(p) => regex = "live" /\ heap[held[p]] = "live"
    /\ \A p \in Caller : pc[p] = "alloc" => regex = "live"
    /\ \A p \in Caller : pc[p] = "callback" => p \in handles

\* Close and finalize free what is allocated, each thing once, however often
\* and by whomever they are called (freeAll walks pool.all).
FreesOnce ==
    \A p \in Actor :
        /\ pc[p] = "freeAll" =>
              IsInjective(all) /\ \A s \in ToSet(all) : heap[s] = "live"
        /\ pc[p] = "freeCode" => regex = "live"

\* Once a closing goroutine is out, no C memory of the Regexp is left, nor
\* once a Regexp nobody closed has been collected (the "leak safety net").
NoLeak ==
    \/ closed /\ lock.writer = {}
    \/ refs = {} /\ ~armed /\ \A p \in Actor : pc[p] = "idle"
    => /\ regex = "freed"
       /\ \A s \in Scratch : heap[s] # "live"

\* The pool never holds more scratches than goroutines ever matched at the
\* same time, although get allocates outside pool.mu and put may refill the
\* pool meanwhile.
PoolBounded == Len(all) <= Cardinality(Caller)

\* The Regexp keeps the promises of RegexpHandle: every match that runs saw
\* it open, Close takes effect once and between matches, and every match
\* begun later is refused with ErrClosed.
Handle == INSTANCE RegexpHandle WITH
    open    <- ~closed,
    active  <- {p \in Caller : InMatch(p)},
    outcome <- [p \in Caller |-> IF InMatch(p) THEN "none" ELSE ret[p]]

HandleSpec == Handle!Spec

\* A Close returns although matches keep coming: the waiting writer keeps
\* new readers out and the matches in flight end.
CloseReturns == \A p \in Actor : pc[p] \in ClosePC ~> pc[p] = "idle"

\* A match returns although it queued up behind one Close after the other.
MatchReturns == \A p \in Caller : pc[p] \in MatchPC ~> pc[p] = "idle"
==============================================================================
