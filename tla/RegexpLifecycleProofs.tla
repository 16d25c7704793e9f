------------------------ MODULE RegexpLifecycleProofs ------------------------
(***************************************************************************)
(* RegexpLifecycle for any number of goroutines and any addresses.  The    *)
(* inductive invariant has three parts: who owns the lock, who owns each   *)
(* scratch, and what is left after Close.  The bound of the pool counts on *)
(* top of it.                                                              *)
(***************************************************************************)
EXTENDS RegexpLifecycle, SequenceTheorems, FiniteSetTheorems, TLAPS

\* Where an actor has the read lock, has announced itself as a writer, has the write
\* lock, and where a goroutine has a scratch.
ReadPC == MatchPC \ {"rlock"}
WritePC == ClosePC \ {"wlock"}
InsidePC == {"freeAll", "freeCode", "wunlock"}
HoldPC == {"register", "ready", "inC", "callback", "put"}

\* The program counters and the lock agree, and a writer inside is alone.
LockInv ==
    /\ \A p \in Actor : p \in lock.readers => p \in Caller /\ pc[p] \in MatchPC
    /\ \A p \in Actor : p \in lock.queued => p \in Caller /\ pc[p] = "rlock"
    /\ lock.readers \cap lock.queued = {}
    /\ \A p \in Actor : pc[p] \in ReadPC => p \in lock.readers
    /\ \A p \in Actor : p \in lock.writer <=> pc[p] \in WritePC
    /\ \A p, q \in lock.writer : p = q
    /\ \A p \in Actor : pc[p] \in InsidePC => lock.readers = {}

\* A live scratch belongs to exactly one place: to the goroutine that holds
\* it, or to the free list; pool.all knows it from its registration on.
PoolInv ==
    /\ IsInjective(free)
    /\ IsInjective(all)
    /\ ToSet(free) \subseteq ToSet(all)
    /\ \A s \in ToSet(all) : heap[s] = "live"
    /\ \A p \in Caller : held[p] # None <=> pc[p] \in HoldPC
    /\ \A p \in Caller : held[p] # None => heap[held[p]] = "live" /\ held[p] \notin ToSet(free)
    /\ \A p \in Caller : pc[p] = "register" => held[p] \notin ToSet(all)
    /\ \A p \in Caller : pc[p] \in HoldPC \ {"register"} => held[p] \in ToSet(all)
    /\ \A p, q \in Caller : p # q /\ held[p] # None => held[p] # held[q]
    /\ \A s \in Scratch : heap[s] = "live" =>
          s \in ToSet(all) \/ \E p \in Caller : held[p] = s

\* No match runs on a closed Regexp; what is not freed yet, the goroutine
\* that closed it is about to free; without a finalizer somebody closes it.
CloseInv ==
    /\ \A p \in Caller : closed => ~InMatch(p)
    /\ regex = "live" <=> ptr
    /\ ~closed => regex = "live"
    /\ \A p \in Actor : pc[p] \in {"freeAll", "freeCode"} => closed /\ regex = "live"
    /\ closed => regex = "freed" \/ \E p \in Actor : pc[p] \in {"freeAll", "freeCode"}
    /\ closed => all = <<>> \/ \E p \in Actor : pc[p] = "freeAll"
    /\ \A p \in Caller : pc[p] = "callback" => p \in handles
    /\ \A p \in Caller : pc[p] = "put" => ret[p] \in Outcomes
    /\ ~armed => closed \/ pc[GC] \in {"wlock", "announced"}

\* The inductive invariant.
IndInv == TypeOK /\ LockInv /\ PoolInv /\ CloseInv

------------------------------------------------------------------------------
\* p.all = nil and p.free = nil: the empty pool.
LEMMA EmptyPool ==
    /\ <<>> \in Seq(Scratch)
    /\ ToSet(<<>>) = {}
    /\ IsInjective(<<>>)
<1>1. <<>> \in Seq(Scratch)
  BY EmptySeq
<1>2. DOMAIN <<>> = {}
  OBVIOUS
<1>3. ToSet(<<>>) = {}
  BY <1>2 DEF ToSet
<1>4. IsInjective(<<>>)
  BY <1>2, Zenon DEF IsInjective
<1> QED
  BY <1>1, <1>3, <1>4

\* append(p.free, s) and append(p.all, ms): one element more, at the end.
LEMMA AppendSeq ==
    ASSUME NEW S, NEW s \in Seq(S), NEW e \in S
    PROVE  /\ Append(s, e) \in Seq(S)
           /\ ToSet(Append(s, e)) = ToSet(s) \cup {e}
           /\ IsInjective(s) /\ e \notin ToSet(s) => IsInjective(Append(s, e))
<1> DEFINE t == Append(s, e)
<1>1. /\ t \in Seq(S)
      /\ Len(t) = Len(s) + 1
      /\ \A i \in 1..Len(s) : t[i] = s[i]
      /\ t[Len(s) + 1] = e
  OBVIOUS
<1>2. DOMAIN s = 1..Len(s) /\ DOMAIN t = 1..(Len(s) + 1) /\ Len(s) \in Nat
  BY <1>1
<1>3. ToSet(t) = ToSet(s) \cup {e}
  BY <1>1, <1>2 DEF ToSet
<1>4. IsInjective(s) /\ e \notin ToSet(s) => IsInjective(t)
  BY <1>1, <1>2 DEF ToSet, IsInjective
<1> QED
  BY <1>1, <1>3, <1>4

\* p.free[:n-1] and p.free[n-1]: the last element leaves.
LEMMA FrontSeq ==
    ASSUME NEW S, NEW s \in Seq(S), s # <<>>
    PROVE  /\ Front(s) \in Seq(S)
           /\ Last(s) \in S /\ Last(s) \in ToSet(s)
           /\ ToSet(Front(s)) \subseteq ToSet(s)
           /\ IsInjective(s) => IsInjective(Front(s)) /\ Last(s) \notin ToSet(Front(s))
<1> DEFINE n == Len(s)
           t == Front(s)
<1>1. n \in Nat /\ n >= 1 /\ DOMAIN s = 1..n
  OBVIOUS
<1>2. t \in Seq(S) /\ Len(t) = n - 1 /\ \A i \in 1..(n - 1) : t[i] = s[i]
  BY <1>1 DEF Front
<1>3. DOMAIN t = 1..(n - 1)
  BY <1>1, <1>2
<1>4. Last(s) \in S /\ Last(s) \in ToSet(s)
  BY <1>1 DEF Last, ToSet
<1>5. ToSet(t) \subseteq ToSet(s)
  BY <1>1, <1>2, <1>3 DEF ToSet
<1>6. IsInjective(s) => IsInjective(t) /\ Last(s) \notin ToSet(t)
  BY <1>1, <1>2, <1>3 DEF IsInjective, ToSet, Last
<1> QED
  BY <1>2, <1>4, <1>5, <1>6

------------------------------------------------------------------------------
\* Every step of every goroutine and of the collector keeps the invariant.
LEMMA IndStep == IndInv /\ [Next]_vars => IndInv'
<1> SUFFICES ASSUME IndInv, [Next]_vars PROVE IndInv'
  OBVIOUS
<1> USE LifecycleAssumption DEF IndInv, Actor, Goto, MatchPC, ClosePC, pool
<1>1. ASSUME NEW p \in Caller, NEW o \in {"match", "callout"}, StartMatch(p, o)
      PROVE  IndInv'
  <2>1. TypeOK'
    BY <1>1 DEF StartMatch, TypeOK, LockType, RLock
  <2>2. LockInv'
    <3>1. pc[p] = "idle" /\ pc' = [pc EXCEPT ![p] = "rlock"]
      BY <1>1 DEF StartMatch
    <3>2. CASE lock.writer = {}
      <4>1. lock' = [lock EXCEPT !.readers = @ \cup {p}]
        BY <1>1, <3>2 DEF StartMatch, RLock
      <4> QED
        BY <3>1, <3>2, <4>1 DEF TypeOK, LockInv, LockType, ReadPC, WritePC, InsidePC
    <3>3. CASE lock.writer # {}
      <4>1. lock' = [lock EXCEPT !.queued = @ \cup {p}]
        BY <1>1, <3>3 DEF StartMatch, RLock
      <4> QED
        BY <3>1, <4>1 DEF TypeOK, LockInv, LockType, ReadPC, WritePC, InsidePC
    <3> QED
      BY <3>2, <3>3
  <2>3. PoolInv'
    BY <1>1 DEF StartMatch, TypeOK, PoolInv, HoldPC
  <2>4. CloseInv'
    BY <1>1 DEF StartMatch, TypeOK, CloseInv, InMatch
  <2> QED
    BY <2>1, <2>2, <2>3, <2>4
<1>2. ASSUME NEW p \in Caller, CheckClosed(p)
      PROVE  IndInv'
  <2>1. TypeOK'
    <3>1. pc' \in [Actor -> {"idle"} \cup MatchPC \cup ClosePC]
      <4>1. \/ pc' = [pc EXCEPT ![p] = "runlock"]
            \/ pc' = [pc EXCEPT ![p] = "get"]
        BY <1>2 DEF CheckClosed
      <4> QED
        BY <4>1 DEF TypeOK, MatchPC
    <3>2. ret' \in [Caller -> Outcomes \cup {"none", "ErrClosed", "ErrNoMemory"}]
      <4>1. ret' = [ret EXCEPT ![p] = "ErrClosed"] \/ ret' = ret
        BY <1>2 DEF CheckClosed
      <4> QED
        BY <4>1 DEF TypeOK
    <3>3. UNCHANGED <<op, held, lock, closed, ptr, pool, regex, heap, handles, refs, armed>>
      BY <1>2 DEF CheckClosed
    <3> QED
      BY <3>1, <3>2, <3>3 DEF TypeOK
  <2>2. LockInv'
    <3>1. p \in lock.readers /\ p \notin lock.queued /\ UNCHANGED lock
      BY <1>2 DEF CheckClosed, TypeOK, LockInv, LockType
    <3>2. pc[p] = "rlock" /\ pc' = [pc EXCEPT ![p] = IF closed THEN "runlock" ELSE "get"]
      BY <1>2 DEF CheckClosed
    <3> QED
      BY <3>1, <3>2 DEF TypeOK, LockInv, LockType, ReadPC, WritePC, InsidePC
  <2>3. PoolInv'
    <3>1. CASE closed
      BY <1>2, <3>1 DEF CheckClosed, TypeOK, PoolInv, HoldPC
    <3>2. CASE ~closed
      BY <1>2, <3>2 DEF CheckClosed, TypeOK, PoolInv, HoldPC
    <3> QED
      BY <3>1, <3>2
  <2>4. CloseInv'
    BY <1>2 DEF CheckClosed, TypeOK, CloseInv, InMatch
  <2> QED
    BY <2>1, <2>2, <2>3, <2>4
<1>3. ASSUME NEW p \in Caller, PoolGet(p)
      PROVE  IndInv'
  <2>1. TypeOK'
    BY <1>3, FrontSeq DEF PoolGet, TypeOK
  <2>2. LockInv'
    BY <1>3 DEF PoolGet, TypeOK, LockInv, ReadPC, WritePC, InsidePC
  <2>3. PoolInv'
    BY <1>3, FrontSeq DEF PoolGet, TypeOK, PoolInv, HoldPC
  <2>4. CloseInv'
    BY <1>3 DEF PoolGet, TypeOK, CloseInv, InMatch
  <2> QED
    BY <2>1, <2>2, <2>3, <2>4
<1>4. ASSUME NEW p \in Caller, PoolMiss(p)
      PROVE  IndInv'
  <2>1. TypeOK'
    BY <1>4 DEF PoolMiss, TypeOK
  <2>2. LockInv'
    BY <1>4 DEF PoolMiss, TypeOK, LockInv, ReadPC, WritePC, InsidePC
  <2>3. PoolInv'
    BY <1>4 DEF PoolMiss, TypeOK, PoolInv, HoldPC
  <2>4. CloseInv'
    BY <1>4 DEF PoolMiss, TypeOK, CloseInv, InMatch
  <2> QED
    BY <2>1, <2>2, <2>3, <2>4
<1>5. ASSUME NEW p \in Caller, ScratchNew(p)
      PROVE  IndInv'
  <2>1. TypeOK'
    <3>1. ASSUME Goto(p, "alloc", "runlock"), UNCHANGED <<heap, held>>,
                 ret' = [ret EXCEPT ![p] = "ErrNoMemory"]
          PROVE  TypeOK'
      BY <1>5, <3>1 DEF ScratchNew, TypeOK
    <3>2. ASSUME NEW s \in Scratch, heap[s] # "live", Goto(p, "alloc", "register"),
                 heap' = [heap EXCEPT ![s] = "live"], held' = [held EXCEPT ![p] = s],
                 ret' = ret
          PROVE  TypeOK'
      BY <1>5, <3>2 DEF ScratchNew, TypeOK
    <3> QED
      BY <1>5, <3>1, <3>2 DEF ScratchNew
  <2>2. LockInv'
    <3>1. ASSUME Goto(p, "alloc", "runlock"), UNCHANGED <<heap, held>>,
                 ret' = [ret EXCEPT ![p] = "ErrNoMemory"]
          PROVE  LockInv'
      BY <1>5, <3>1 DEF ScratchNew, TypeOK, LockInv, ReadPC, WritePC, InsidePC
    <3>2. ASSUME NEW s \in Scratch, heap[s] # "live", Goto(p, "alloc", "register"),
                 heap' = [heap EXCEPT ![s] = "live"], held' = [held EXCEPT ![p] = s],
                 ret' = ret
          PROVE  LockInv'
      BY <1>5, <3>2 DEF ScratchNew, TypeOK, LockInv, ReadPC, WritePC, InsidePC
    <3> QED
      BY <1>5, <3>1, <3>2 DEF ScratchNew
  <2>3. PoolInv'
    <3>1. ASSUME Goto(p, "alloc", "runlock"), UNCHANGED <<heap, held>>,
                 ret' = [ret EXCEPT ![p] = "ErrNoMemory"]
          PROVE  PoolInv'
      BY <1>5, <3>1 DEF ScratchNew, TypeOK, PoolInv, HoldPC
    <3>2. ASSUME NEW s \in Scratch, heap[s] # "live", Goto(p, "alloc", "register"),
                 heap' = [heap EXCEPT ![s] = "live"], held' = [held EXCEPT ![p] = s],
                 ret' = ret
          PROVE  PoolInv'
      BY <1>5, <3>2 DEF ScratchNew, TypeOK, PoolInv, HoldPC
    <3> QED
      BY <1>5, <3>1, <3>2 DEF ScratchNew
  <2>4. CloseInv'
    <3>1. ASSUME Goto(p, "alloc", "runlock"), UNCHANGED <<heap, held>>,
                 ret' = [ret EXCEPT ![p] = "ErrNoMemory"]
          PROVE  CloseInv'
      BY <1>5, <3>1 DEF ScratchNew, TypeOK, CloseInv, InMatch
    <3>2. ASSUME NEW s \in Scratch, heap[s] # "live", Goto(p, "alloc", "register"),
                 heap' = [heap EXCEPT ![s] = "live"], held' = [held EXCEPT ![p] = s],
                 ret' = ret
          PROVE  CloseInv'
      BY <1>5, <3>2 DEF ScratchNew, TypeOK, CloseInv, InMatch
    <3> QED
      BY <1>5, <3>1, <3>2 DEF ScratchNew
  <2> QED
    BY <2>1, <2>2, <2>3, <2>4
<1>6. ASSUME NEW p \in Caller, PoolRegister(p)
      PROVE  IndInv'
  <2>1. TypeOK'
    <3>1. held[p] \in Scratch
      BY <1>6 DEF PoolRegister, TypeOK, PoolInv, HoldPC
    <3> QED
      BY <1>6, <3>1, AppendSeq DEF PoolRegister, TypeOK
  <2>2. LockInv'
    BY <1>6 DEF PoolRegister, TypeOK, LockInv, ReadPC, WritePC, InsidePC
  <2>3. PoolInv'
    BY <1>6, AppendSeq DEF PoolRegister, TypeOK, PoolInv, HoldPC
  <2>4. CloseInv'
    BY <1>6 DEF PoolRegister, TypeOK, CloseInv, InMatch
  <2> QED
    BY <2>1, <2>2, <2>3, <2>4
<1>7. ASSUME NEW p \in Caller, EnterC(p)
      PROVE  IndInv'
  <2>1. TypeOK'
    BY <1>7 DEF EnterC, TypeOK
  <2>2. LockInv'
    BY <1>7 DEF EnterC, TypeOK, LockInv, ReadPC, WritePC, InsidePC
  <2>3. PoolInv'
    BY <1>7 DEF EnterC, TypeOK, PoolInv, HoldPC
  <2>4. CloseInv'
    BY <1>7 DEF EnterC, TypeOK, CloseInv, InMatch
  <2> QED
    BY <2>1, <2>2, <2>3, <2>4
<1>8. ASSUME NEW p \in Caller, CalloutReturn(p)
      PROVE  IndInv'
  <2>1. TypeOK'
    BY <1>8 DEF CalloutReturn, TypeOK
  <2>2. LockInv'
    BY <1>8 DEF CalloutReturn, TypeOK, LockInv, ReadPC, WritePC, InsidePC
  <2>3. PoolInv'
    BY <1>8 DEF CalloutReturn, TypeOK, PoolInv, HoldPC
  <2>4. CloseInv'
    BY <1>8 DEF CalloutReturn, TypeOK, CloseInv, InMatch
  <2> QED
    BY <2>1, <2>2, <2>3, <2>4
<1>9. ASSUME NEW p \in Caller, LeaveC(p)
      PROVE  IndInv'
  <2>1. TypeOK'
    BY <1>9 DEF LeaveC, TypeOK, Outcomes
  <2>2. LockInv'
    BY <1>9 DEF LeaveC, TypeOK, LockInv, ReadPC, WritePC, InsidePC
  <2>3. PoolInv'
    BY <1>9 DEF LeaveC, TypeOK, PoolInv, HoldPC
  <2>4. CloseInv'
    BY <1>9 DEF LeaveC, TypeOK, CloseInv, InMatch
  <2> QED
    BY <2>1, <2>2, <2>3, <2>4
<1>10. ASSUME NEW p \in Caller, PoolPut(p)
      PROVE  IndInv'
  <2>1. TypeOK'
    <3>1. held[p] \in Scratch
      BY <1>10 DEF PoolPut, TypeOK, PoolInv, HoldPC
    <3> QED
      BY <1>10, <3>1, AppendSeq DEF PoolPut, TypeOK
  <2>2. LockInv'
    BY <1>10 DEF PoolPut, TypeOK, LockInv, ReadPC, WritePC, InsidePC
  <2>3. PoolInv'
    BY <1>10, AppendSeq DEF PoolPut, TypeOK, PoolInv, HoldPC
  <2>4. CloseInv'
    BY <1>10 DEF PoolPut, TypeOK, CloseInv, InMatch
  <2> QED
    BY <2>1, <2>2, <2>3, <2>4
<1>11. ASSUME NEW p \in Caller, ReadUnlock(p)
      PROVE  IndInv'
  <2>1. TypeOK'
    BY <1>11 DEF ReadUnlock, TypeOK, LockType, RUnlock
  <2>2. LockInv'
    BY <1>11 DEF ReadUnlock, TypeOK, LockInv, LockType, RUnlock, ReadPC, WritePC, InsidePC
  <2>3. PoolInv'
    BY <1>11 DEF ReadUnlock, TypeOK, PoolInv, HoldPC
  <2>4. CloseInv'
    BY <1>11 DEF ReadUnlock, TypeOK, CloseInv, InMatch
  <2> QED
    BY <2>1, <2>2, <2>3, <2>4
<1>12. ASSUME NEW p \in Caller, CalloutEnter(p)
      PROVE  IndInv'
  <2>1. TypeOK'
    BY <1>12 DEF CalloutEnter, TypeOK
  <2>2. LockInv'
    BY <1>12 DEF CalloutEnter, TypeOK, LockInv, ReadPC, WritePC, InsidePC
  <2>3. PoolInv'
    BY <1>12 DEF CalloutEnter, TypeOK, PoolInv, HoldPC
  <2>4. CloseInv'
    BY <1>12 DEF CalloutEnter, TypeOK, CloseInv, InMatch
  <2> QED
    BY <2>1, <2>2, <2>3, <2>4
<1>13. ASSUME NEW p \in Caller, StartClose(p)
      PROVE  IndInv'
  <2>1. TypeOK'
    BY <1>13 DEF StartClose, TypeOK
  <2>2. LockInv'
    BY <1>13 DEF StartClose, TypeOK, LockInv, ReadPC, WritePC, InsidePC
  <2>3. PoolInv'
    BY <1>13 DEF StartClose, TypeOK, PoolInv, HoldPC
  <2>4. CloseInv'
    BY <1>13 DEF StartClose, TypeOK, CloseInv, InMatch
  <2> QED
    BY <2>1, <2>2, <2>3, <2>4
<1>14. ASSUME NEW p \in Caller, Forget(p)
      PROVE  IndInv'
  <2>1. TypeOK'
    BY <1>14 DEF Forget, TypeOK
  <2>2. LockInv'
    BY <1>14 DEF Forget, TypeOK, LockInv, ReadPC, WritePC, InsidePC
  <2>3. PoolInv'
    BY <1>14 DEF Forget, TypeOK, PoolInv, HoldPC
  <2>4. CloseInv'
    BY <1>14 DEF Forget, TypeOK, CloseInv, InMatch
  <2> QED
    BY <2>1, <2>2, <2>3, <2>4
<1>15. ASSUME Finalize
      PROVE  IndInv'
  <2>1. TypeOK'
    BY <1>15 DEF Finalize, TypeOK
  <2>2. LockInv'
    BY <1>15 DEF Finalize, TypeOK, LockInv, ReadPC, WritePC, InsidePC
  <2>3. PoolInv'
    BY <1>15 DEF Finalize, TypeOK, PoolInv, HoldPC
  <2>4. CloseInv'
    BY <1>15 DEF Finalize, TypeOK, CloseInv, InMatch
  <2> QED
    BY <2>1, <2>2, <2>3, <2>4
<1>16. ASSUME NEW p \in Actor, AnnounceWriter(p)
      PROVE  IndInv'
  <2>1. TypeOK'
    BY <1>16 DEF AnnounceWriter, TypeOK, LockType, CanAnnounce, Announce
  <2>2. LockInv'
    BY <1>16 DEF AnnounceWriter, TypeOK, LockInv, LockType, CanAnnounce, Announce, ReadPC, WritePC, InsidePC
  <2>3. PoolInv'
    BY <1>16 DEF AnnounceWriter, TypeOK, PoolInv, HoldPC
  <2>4. CloseInv'
    BY <1>16 DEF AnnounceWriter, TypeOK, CloseInv, InMatch
  <2> QED
    BY <2>1, <2>2, <2>3, <2>4
<1>17. ASSUME NEW p \in Actor, MarkClosed(p)
      PROVE  IndInv'
  <2>1. TypeOK'
    <3>1. pc' \in [Actor -> {"idle"} \cup MatchPC \cup ClosePC]
      <4>1. \/ pc' = [pc EXCEPT ![p] = "wunlock"]
            \/ pc' = [pc EXCEPT ![p] = "freeAll"]
        BY <1>17 DEF MarkClosed
      <4> QED
        BY <4>1 DEF TypeOK, ClosePC
    <3>2. closed' \in BOOLEAN
      BY <1>17 DEF MarkClosed, TypeOK
    <3>3. UNCHANGED <<op, ret, held, lock, ptr, free, all, regex, heap, handles, refs, armed>>
      BY <1>17 DEF MarkClosed
    <3> QED
      BY <3>1, <3>2, <3>3 DEF TypeOK
  <2>2. LockInv'
    BY <1>17 DEF MarkClosed, TypeOK, LockInv, Inside, ReadPC, WritePC, InsidePC
  <2>3. PoolInv'
    <3>1. /\ held' = held /\ free' = free /\ all' = all /\ heap' = heap
          /\ pc[p] = "announced"
          /\ pc' = [pc EXCEPT ![p] = "wunlock"] \/ pc' = [pc EXCEPT ![p] = "freeAll"]
      BY <1>17 DEF MarkClosed
    <3>2. /\ pc[p] \notin HoldPC /\ pc'[p] \notin HoldPC
          /\ \A q \in Caller : q # p => pc'[q] = pc[q]
      BY <3>1 DEF TypeOK, HoldPC
    <3>3. \A q \in Caller : held'[q] # None <=> pc'[q] \in HoldPC
      BY <3>1, <3>2 DEF PoolInv
    <3>4. \A q \in Caller : pc'[q] = "register" => held'[q] \notin ToSet(all')
      BY <3>1, <3>2 DEF PoolInv, HoldPC
    <3>5. \A q \in Caller : pc'[q] \in HoldPC \ {"register"} => held'[q] \in ToSet(all')
      BY <3>1, <3>2 DEF PoolInv
    <3> QED
      BY <3>1, <3>3, <3>4, <3>5 DEF PoolInv
  <2>4. CloseInv'
    BY <1>17 DEF MarkClosed, TypeOK, CloseInv, InMatch, LockInv, Inside, ReadPC
  <2> QED
    BY <2>1, <2>2, <2>3, <2>4
<1>18. ASSUME NEW p \in Actor, FreeAll(p)
      PROVE  IndInv'
  <2>1. TypeOK'
    BY <1>18, EmptyPool DEF FreeAll, TypeOK
  <2>2. LockInv'
    BY <1>18 DEF FreeAll, TypeOK, LockInv, ReadPC, WritePC, InsidePC
  <2>3. PoolInv'
    BY <1>18, EmptyPool DEF FreeAll, TypeOK, PoolInv, CloseInv, InMatch, HoldPC
  <2>4. CloseInv'
    BY <1>18 DEF FreeAll, TypeOK, CloseInv, InMatch, LockInv, WritePC
  <2> QED
    BY <2>1, <2>2, <2>3, <2>4
<1>19. ASSUME NEW p \in Actor, FreeCode(p)
      PROVE  IndInv'
  <2>1. TypeOK'
    BY <1>19 DEF FreeCode, TypeOK
  <2>2. LockInv'
    BY <1>19 DEF FreeCode, TypeOK, LockInv, ReadPC, WritePC, InsidePC
  <2>3. PoolInv'
    BY <1>19 DEF FreeCode, TypeOK, PoolInv, HoldPC
  <2>4. CloseInv'
    BY <1>19 DEF FreeCode, TypeOK, CloseInv, InMatch, LockInv, WritePC
  <2> QED
    BY <2>1, <2>2, <2>3, <2>4
<1>20. ASSUME NEW p \in Actor, WriteUnlock(p)
      PROVE  IndInv'
  <2>1. TypeOK'
    BY <1>20 DEF WriteUnlock, TypeOK, LockType, Unlock
  <2>2. LockInv'
    BY <1>20 DEF WriteUnlock, TypeOK, LockInv, LockType, Unlock, ReadPC, WritePC, InsidePC
  <2>3. PoolInv'
    BY <1>20 DEF WriteUnlock, TypeOK, PoolInv, HoldPC
  <2>4. CloseInv'
    BY <1>20 DEF WriteUnlock, TypeOK, CloseInv, InMatch
  <2> QED
    BY <2>1, <2>2, <2>3, <2>4
<1>21. CASE UNCHANGED vars
  BY <1>21 DEF vars, TypeOK, LockInv, PoolInv, CloseInv, InMatch
<1> QED
  BY <1>1, <1>2, <1>3, <1>4, <1>5, <1>6, <1>7, <1>8, <1>9, <1>10, <1>11, <1>12, <1>13, <1>14, <1>15, <1>16, <1>17, <1>18, <1>19, <1>20, <1>21 DEF Next, MatchStep, CloseStep, Collected

\* A Regexp that Compile has just returned satisfies the invariant.
LEMMA IndInit == Init => IndInv
<1> SUFFICES ASSUME Init PROVE IndInv
  OBVIOUS
<1> USE LifecycleAssumption DEF Init, Actor, FreeLock
<1>1. TypeOK
  BY EmptyPool DEF TypeOK, LockType
<1>2. LockInv
  BY DEF LockInv, MatchPC, ClosePC, ReadPC, WritePC, InsidePC
<1>3. PoolInv
  BY EmptyPool DEF PoolInv, HoldPC
<1>4. CloseInv
  BY DEF CloseInv, InMatch
<1> QED
  BY <1>1, <1>2, <1>3, <1>4 DEF IndInv

\* The invariant holds in every state of every behaviour.
THEOREM Invariance == Spec => []IndInv
<1> QED
  BY IndInit, IndStep, PTL DEF Spec

------------------------------------------------------------------------------
\* Every variable keeps its type, for any number of goroutines.
THEOREM TypeCorrect == Spec => []TypeOK
<1>1. IndInv => TypeOK
  BY DEF IndInv
<1> QED
  BY <1>1, Invariance, PTL

\* The pool gives a scratch to one goroutine at a time (get, put).
THEOREM PoolIsExclusive == Spec => []ScratchExclusive
<1>1. IndInv => ScratchExclusive
  <2> SUFFICES ASSUME IndInv, NEW p \in Caller PROVE held[p] \notin ToSet(free)
    BY DEF IndInv, PoolInv, ScratchExclusive
  <2>1. ToSet(free) \subseteq Scratch
    BY DEF IndInv, TypeOK, ToSet
  <2>2. CASE held[p] = None
    BY <2>1, <2>2, LifecycleAssumption
  <2>3. CASE held[p] # None
    BY <2>3 DEF IndInv, PoolInv
  <2> QED
    BY <2>2, <2>3
<1> QED
  BY <1>1, Invariance, PTL

\* Close never frees what a match still uses (the read lock is held across
\* the C call).
THEOREM MatchesAreMemorySafe == Spec => []NoUseAfterFree
<1>1. IndInv => NoUseAfterFree
  <2> SUFFICES ASSUME IndInv, NEW p \in Caller
               PROVE  /\ InC(p) => regex = "live" /\ heap[held[p]] = "live"
                      /\ pc[p] = "alloc" => regex = "live"
                      /\ pc[p] = "callback" => p \in handles
    BY DEF NoUseAfterFree
  <2>1. InMatch(p) => regex = "live"
    BY DEF IndInv, CloseInv
  <2>2. InC(p) => held[p] # None
    BY DEF IndInv, PoolInv, HoldPC, InC
  <2> QED
    BY <2>1, <2>2 DEF IndInv, PoolInv, CloseInv, InC, InMatch
<1> QED
  BY <1>1, Invariance, PTL

\* However many goroutines call Close, and with the finalizer besides, each
\* scratch and the pattern are freed once.
THEOREM FreesAreUnique == Spec => []FreesOnce
<1>1. IndInv => FreesOnce
  BY DEF IndInv, PoolInv, CloseInv, FreesOnce
<1> QED
  BY <1>1, Invariance, PTL

\* A closed Regexp, and one that was collected unclosed, left nothing behind.
THEOREM CloseLeaksNothing == Spec => []NoLeak
<1>1. IndInv => NoLeak
  <2> SUFFICES ASSUME IndInv,
                      \/ closed /\ lock.writer = {}
                      \/ refs = {} /\ ~armed /\ \A p \in Actor : pc[p] = "idle"
               PROVE  regex = "freed" /\ \A s \in Scratch : heap[s] # "live"
    BY DEF NoLeak
  <2>1. closed /\ \A p \in Actor : pc[p] \notin {"freeAll", "freeCode"}
    BY DEF IndInv, CloseInv, LockInv, WritePC, ClosePC, Actor
  <2>2. regex = "freed" /\ all = <<>>
    BY <2>1 DEF IndInv, CloseInv
  <2>3. \A p \in Caller : held[p] = None
    BY <2>1 DEF IndInv, CloseInv, PoolInv, HoldPC, InMatch
  <2> QED
    BY <2>2, <2>3, EmptyPool, LifecycleAssumption DEF IndInv, PoolInv
<1> QED
  BY <1>1, Invariance, PTL

------------------------------------------------------------------------------
\* Each step of the implementation is a step of the abstract handle, or
\* changes nothing a caller can see.
LEMMA HandleStep == IndInv /\ [Next]_vars => [Handle!Next]_(Handle!vars)
<1> SUFFICES ASSUME IndInv, [Next]_vars PROVE [Handle!Next]_(Handle!vars)
  OBVIOUS
<1> DEFINE act == {p \in Caller : InMatch(p)}
           out == [p \in Caller |-> IF InMatch(p) THEN "none" ELSE ret[p]]
<1> USE DEF IndInv, TypeOK, Actor, Goto, InMatch
<1>1. ASSUME NEW p \in Caller, NEW o \in {"match", "callout"}, StartMatch(p, o)
      PROVE  UNCHANGED Handle!vars
  BY <1>1 DEF StartMatch, Handle!vars
<1>2. ASSUME NEW p \in Caller, PoolGet(p)
      PROVE  UNCHANGED Handle!vars
  BY <1>2 DEF PoolGet, Handle!vars
<1>3. ASSUME NEW p \in Caller, PoolRegister(p)
      PROVE  UNCHANGED Handle!vars
  BY <1>3 DEF PoolRegister, Handle!vars
<1>4. ASSUME NEW p \in Caller, EnterC(p)
      PROVE  UNCHANGED Handle!vars
  BY <1>4 DEF EnterC, Handle!vars
<1>5. ASSUME NEW p \in Caller, CalloutReturn(p)
      PROVE  UNCHANGED Handle!vars
  BY <1>5 DEF CalloutReturn, Handle!vars
<1>6. ASSUME NEW p \in Caller, LeaveC(p)
      PROVE  UNCHANGED Handle!vars
  BY <1>6 DEF LeaveC, Handle!vars
<1>7. ASSUME NEW p \in Caller, ReadUnlock(p)
      PROVE  UNCHANGED Handle!vars
  BY <1>7 DEF ReadUnlock, Handle!vars
<1>8. ASSUME NEW p \in Caller, CalloutEnter(p)
      PROVE  UNCHANGED Handle!vars
  BY <1>8 DEF CalloutEnter, Handle!vars
<1>9. ASSUME NEW p \in Caller, StartClose(p)
      PROVE  UNCHANGED Handle!vars
  BY <1>9 DEF StartClose, Handle!vars
<1>10. ASSUME NEW p \in Actor, AnnounceWriter(p)
      PROVE  UNCHANGED Handle!vars
  BY <1>10 DEF AnnounceWriter, Handle!vars
<1>11. ASSUME NEW p \in Actor, FreeAll(p)
      PROVE  UNCHANGED Handle!vars
  BY <1>11 DEF FreeAll, Handle!vars
<1>12. ASSUME NEW p \in Actor, FreeCode(p)
      PROVE  UNCHANGED Handle!vars
  BY <1>12 DEF FreeCode, Handle!vars
<1>13. ASSUME NEW p \in Actor, WriteUnlock(p)
      PROVE  UNCHANGED Handle!vars
  BY <1>13 DEF WriteUnlock, Handle!vars
<1>14. ASSUME NEW p \in Caller, Forget(p)
       PROVE  UNCHANGED Handle!vars
  BY <1>14 DEF Forget, Handle!vars
<1>15. ASSUME Finalize
       PROVE  UNCHANGED Handle!vars
  BY <1>15, LifecycleAssumption DEF Finalize, Handle!vars
<1>16. ASSUME NEW p \in Caller, CheckClosed(p)
       PROVE  Handle!Next
  <2>1. CASE closed
    <3>1. ret' = [ret EXCEPT ![p] = "ErrClosed"] /\ act' = act /\ closed' = closed
      BY <1>16, <2>1 DEF CheckClosed
    <3>2. out' = [out EXCEPT ![p] = "ErrClosed"]
      BY <1>16, <2>1, <3>1 DEF CheckClosed
    <3> QED
      BY <2>1, <3>1, <3>2 DEF Handle!Next, Handle!Refuse
  <2>2. CASE ~closed
    <3>1. act' = act \cup {p} /\ p \notin act /\ closed' = closed
      BY <1>16, <2>2 DEF CheckClosed
    <3>2. out' = [out EXCEPT ![p] = "none"]
      BY <1>16, <2>2 DEF CheckClosed
    <3> QED
      BY <2>2, <3>1, <3>2 DEF Handle!Next, Handle!Begin
  <2> QED
    BY <2>1, <2>2
<1>17. ASSUME NEW p \in Caller, PoolMiss(p)
       PROVE  UNCHANGED Handle!vars
  <2>1. ptr
    BY <1>17 DEF PoolMiss, CloseInv
  <2> QED
    BY <1>17, <2>1 DEF PoolMiss, Handle!vars
<1>18. ASSUME NEW p \in Caller, ScratchNew(p)
       PROVE  [Handle!Next]_(Handle!vars)
  <2>1. ASSUME NEW s \in Scratch, Goto(p, "alloc", "register"), ret' = ret
        PROVE  UNCHANGED Handle!vars
    BY <1>18, <2>1 DEF ScratchNew, Handle!vars
  <2>2. ASSUME Goto(p, "alloc", "runlock"), ret' = [ret EXCEPT ![p] = "ErrNoMemory"]
        PROVE  Handle!Next
    <3>1. act' = act \ {p} /\ p \in act /\ closed' = closed
      BY <1>18, <2>2 DEF ScratchNew
    <3>2. out' = [out EXCEPT ![p] = "ErrNoMemory"]
      BY <1>18, <2>2 DEF ScratchNew
    <3> QED
      BY <3>1, <3>2 DEF Handle!Next, Handle!End, Handle!Outcomes
  <2> QED
    BY <1>18, <2>1, <2>2 DEF ScratchNew
<1>19. ASSUME NEW p \in Caller, PoolPut(p)
       PROVE  Handle!Next
  <2>1. ret[p] \in Outcomes
    BY <1>19 DEF PoolPut, CloseInv
  <2>2. act' = act \ {p} /\ p \in act /\ closed' = closed
    BY <1>19 DEF PoolPut
  <2>3. out' = [out EXCEPT ![p] = ret[p]]
    BY <1>19 DEF PoolPut
  <2> QED
    BY <2>1, <2>2, <2>3 DEF Handle!Next, Handle!End, Handle!Outcomes, Outcomes
<1>20. ASSUME NEW p \in Actor, MarkClosed(p)
       PROVE  [Handle!Next]_(Handle!vars)
  <2>1. CASE closed
    BY <1>20, <2>1 DEF MarkClosed, Handle!vars
  <2>2. CASE ~closed
    <3>1. act = {}
      BY <1>20 DEF MarkClosed, Inside, LockInv, ReadPC, MatchPC
    <3>2. act' = act /\ out' = out /\ closed' = TRUE
      BY <1>20, <2>2 DEF MarkClosed
    <3> QED
      BY <2>2, <3>1, <3>2 DEF Handle!Next, Handle!Close
  <2> QED
    BY <2>1, <2>2
<1>21. CASE UNCHANGED vars
  BY <1>21 DEF vars, Handle!vars
<1> QED
  BY <1>1, <1>2, <1>3, <1>4, <1>5, <1>6, <1>7, <1>8, <1>9, <1>10, <1>11, <1>12, <1>13, <1>14, <1>15, <1>16, <1>17, <1>18, <1>19, <1>20, <1>21
     DEF Next, MatchStep, CloseStep, Collected

\* lib.Regexp keeps the promises of RegexpHandle: each match ran on an open
\* pattern, Close took effect once and between matches, and every later
\* match is refused with ErrClosed.
THEOREM ImplementsHandle == Spec => HandleSpec
<1>1. Init => Handle!Init
  BY DEF Init, Handle!Init, Actor, InMatch
<1> QED
  BY <1>1, HandleStep, Invariance, PTL DEF Spec, HandleSpec, Handle!Spec

------------------------------------------------------------------------------
(* The scratch pool never outgrows the goroutines that match, for any       *)
(* finite number of them.  get finds no free scratch, leaves pool.mu to     *)
(* allocate one and records it later; the bound holds because the           *)
(* goroutines on that way can be counted with the scratches.                *)

\* Goroutines between a get that found nothing and the registration.
Allocating == {p \in Caller : pc[p] \in {"alloc", "register"}}

\* A scratch of the pool is free, or some goroutine works in it.
Accounted == \A s \in ToSet(all) : s \in ToSet(free) \/ \E p \in Caller : held[p] = s

\* Each scratch of the pool, and each on its way there, has its own goroutine.
Counted == Len(all) + Cardinality(Allocating) <= Cardinality(Caller)

\* The inductive invariant, on top of the one above.
BoundInv == IndInv /\ Accounted /\ Counted

------------------------------------------------------------------------------
\* Every step keeps the scratches accounted for.
LEMMA AccountedKeeps ==
    ASSUME IndInv, Accounted, [Next]_vars
    PROVE  Accounted'
<1>. USE LifecycleAssumption DEF Goto, pool, Accounted
<1>1. ASSUME NEW p \in Caller, PoolGet(p)
      PROVE  Accounted'
  <2>1. /\ free \in Seq(Scratch) /\ free # <<>> /\ held \in [Caller -> Scratch \cup {None}]
        /\ held[p] = None /\ ToSet(all) \subseteq Scratch
    <3>1. pc[p] = "get" /\ free # <<>>
        BY <1>1 DEF PoolGet
    <3>2. free \in Seq(Scratch) /\ held \in [Caller -> Scratch \cup {None}] /\ all \in Seq(Scratch)
        BY DEF IndInv, TypeOK
    <3>3. held[p] = None
        BY <3>1 DEF IndInv, PoolInv, HoldPC
    <3>4. ToSet(all) \subseteq Scratch
        BY <3>2 DEF ToSet
    <3>. QED BY <3>1, <3>2, <3>3, <3>4
  <2>2. ToSet(free) \subseteq ToSet(Front(free)) \cup {Last(free)}
    <3>1. Len(free) \in Nat /\ Len(free) >= 1 /\ DOMAIN free = 1..Len(free)
        BY <2>1
    <3>2. /\ DOMAIN Front(free) = 1..(Len(free) - 1)
          /\ \A i \in 1..(Len(free) - 1) : Front(free)[i] = free[i]
        BY <2>1, <3>1 DEF Front
    <3>. QED BY <3>1, <3>2 DEF ToSet, Last
  <2>3. /\ held' = [held EXCEPT ![p] = Last(free)] /\ free' = Front(free) /\ all' = all
      BY <1>1 DEF PoolGet
  <2>. QED BY <2>1, <2>2, <2>3
<1>2. ASSUME NEW p \in Caller, ScratchNew(p)
      PROVE  Accounted'
  <2>1. held \in [Caller -> Scratch \cup {None}] /\ held[p] = None /\ ToSet(all) \subseteq Scratch
      BY <1>2 DEF ScratchNew, IndInv, TypeOK, PoolInv, HoldPC, ToSet
  <2>2. /\ free' = free /\ all' = all
        /\ held' = held \/ \E s \in Scratch : held' = [held EXCEPT ![p] = s]
      BY <1>2 DEF ScratchNew
  <2>. QED BY <2>1, <2>2
<1>3. ASSUME NEW p \in Caller, PoolRegister(p)
      PROVE  Accounted'
  <2>1. all \in Seq(Scratch) /\ held[p] \in Scratch
      BY <1>3 DEF PoolRegister, IndInv, TypeOK, PoolInv, HoldPC
  <2>2. ToSet(all') = ToSet(all) \cup {held[p]}
      BY <1>3, <2>1, AppendSeq DEF PoolRegister
  <2>. QED BY <1>3, <2>2 DEF PoolRegister
<1>4. ASSUME NEW p \in Caller, PoolPut(p)
      PROVE  Accounted'
  <2>1. /\ free \in Seq(Scratch) /\ held \in [Caller -> Scratch \cup {None}]
        /\ held[p] \in Scratch /\ ToSet(all) \subseteq Scratch
      BY <1>4 DEF PoolPut, IndInv, TypeOK, PoolInv, HoldPC, ToSet
  <2>2. ToSet(free') = ToSet(free) \cup {held[p]}
      BY <1>4, <2>1, AppendSeq DEF PoolPut
  <2>. QED BY <1>4, <2>1, <2>2 DEF PoolPut
<1>5. ASSUME NEW p \in Actor, FreeAll(p)
      PROVE  Accounted'
    BY <1>5, EmptyPool DEF FreeAll
<1>6. ASSUME NEW p \in Caller, NEW o \in {"match", "callout"}, StartMatch(p, o)
      PROVE  Accounted'
    BY <1>6 DEF StartMatch
<1>7. ASSUME NEW p \in Caller,
             \/ CheckClosed(p) \/ PoolMiss(p) \/ EnterC(p) \/ CalloutReturn(p)
             \/ LeaveC(p) \/ ReadUnlock(p) \/ CalloutEnter(p) \/ StartClose(p) \/ Forget(p)
      PROVE  Accounted'
    BY <1>7 DEF CheckClosed, PoolMiss, EnterC, CalloutReturn, LeaveC, ReadUnlock,
                CalloutEnter, StartClose, Forget
<1>8. ASSUME Finalize
      PROVE  Accounted'
    BY <1>8 DEF Finalize
<1>9. ASSUME NEW p \in Actor,
             AnnounceWriter(p) \/ MarkClosed(p) \/ FreeCode(p) \/ WriteUnlock(p)
      PROVE  Accounted'
    BY <1>9 DEF AnnounceWriter, MarkClosed, FreeCode, WriteUnlock
<1>10. CASE UNCHANGED vars
    BY <1>10 DEF vars
<1>. QED BY <1>1, <1>2, <1>3, <1>4, <1>5, <1>6, <1>7, <1>8, <1>9, <1>10
         DEF Next, MatchStep, CloseStep, Collected

------------------------------------------------------------------------------
\* Goroutines that allocate come from PoolMiss alone, and pool.all grows in
\* PoolRegister alone.
LEMMA CountedSteps ==
    ASSUME IndInv, [Next]_vars
    PROVE  \/ \E p \in Caller : PoolMiss(p) \/ PoolRegister(p)
           \/ all' \in {all, <<>>} /\ Allocating' \subseteq Allocating
<1>. USE DEF Goto, pool, Allocating
<1>0. pc \in [Actor -> {"idle"} \cup MatchPC \cup ClosePC] /\ Caller \subseteq Actor
    BY DEF IndInv, TypeOK, Actor
<1>. DEFINE Goal == all' \in {all, <<>>} /\ Allocating' \subseteq Allocating
<1>1. ASSUME NEW p \in Caller, NEW o \in {"match", "callout"}, StartMatch(p, o)
      PROVE  Goal
    BY <1>0, <1>1 DEF StartMatch
<1>2. ASSUME NEW p \in Caller, CheckClosed(p)
      PROVE  Goal
    BY <1>0, <1>2 DEF CheckClosed
<1>3. ASSUME NEW p \in Caller, PoolGet(p) \/ PoolPut(p)
      PROVE  Goal
    BY <1>0, <1>3 DEF PoolGet, PoolPut
<1>4. ASSUME NEW p \in Caller, ScratchNew(p)
      PROVE  Goal
    BY <1>0, <1>4 DEF ScratchNew
<1>5. ASSUME NEW p \in Caller,
             EnterC(p) \/ CalloutEnter(p) \/ CalloutReturn(p) \/ LeaveC(p) \/ ReadUnlock(p)
      PROVE  Goal
    BY <1>0, <1>5 DEF EnterC, CalloutEnter, CalloutReturn, LeaveC, ReadUnlock
<1>6. ASSUME NEW p \in Caller, StartClose(p) \/ Forget(p)
      PROVE  Goal
    BY <1>0, <1>6 DEF StartClose, Forget
<1>7. ASSUME Finalize
      PROVE  Goal
    BY <1>0, <1>7 DEF Finalize, Actor
<1>8. ASSUME NEW p \in Actor,
             AnnounceWriter(p) \/ MarkClosed(p) \/ FreeAll(p) \/ FreeCode(p) \/ WriteUnlock(p)
      PROVE  Goal
    BY <1>0, <1>8 DEF AnnounceWriter, MarkClosed, FreeAll, FreeCode, WriteUnlock
<1>9. CASE UNCHANGED vars
    BY <1>9 DEF vars
<1>. QED BY <1>1, <1>2, <1>3, <1>4, <1>5, <1>6, <1>7, <1>8, <1>9
         DEF Next, MatchStep, CloseStep, Collected

\* When get finds no free scratch, each scratch of the pool is in the hands of
\* a goroutine, none of which is allocating, nor the one that called get.
LEMMA RoomForOneMore ==
    ASSUME IsFiniteSet(Caller), IndInv, Accounted, NEW p \in Caller, pc[p] = "get", free = <<>>
    PROVE  Len(all) + Cardinality(Allocating) + 1 <= Cardinality(Caller)
<1>. DEFINE Users == {q \in Caller : held[q] \in ToSet(all)}
            n == Len(all)
            user == [i \in 1..n |-> CHOOSE q \in Caller : held[q] = all[i]]
<1>1. all \in Seq(Scratch) /\ n \in Nat /\ DOMAIN all = 1..n
    BY DEF IndInv, TypeOK
<1>2. \A i, j \in 1..n : all[i] = all[j] => i = j
    BY <1>1 DEF IndInv, PoolInv, IsInjective
<1>3. \A i \in 1..n : all[i] \in ToSet(all)
    BY <1>1 DEF ToSet
<1>4. \A i \in 1..n : user[i] \in Caller /\ held[user[i]] = all[i]
    BY <1>3, EmptyPool DEF Accounted
<1>5. user \in Injection(1..n, Users)
  <2>1. user \in [1..n -> Users]
      BY <1>3, <1>4
  <2>2. \A i, j \in DOMAIN user : user[i] = user[j] => i = j
      BY <1>2, <1>4
  <2>. QED BY <2>1, <2>2 DEF Injection, IsInjective
<1>6. /\ Users \subseteq Caller /\ Allocating \subseteq Caller
      /\ p \notin Users \cup Allocating /\ Users \cap Allocating = {}
  <2>1. None \notin ToSet(all)
      BY <1>1, LifecycleAssumption DEF ToSet
  <2>2. \A q \in Caller : held[q] \in ToSet(all) => pc[q] \in HoldPC \ {"register"}
      BY <2>1 DEF IndInv, PoolInv
  <2>. QED BY <2>2 DEF Allocating, HoldPC
<1>. HIDE DEF Users, user
<1>7. IsFiniteSet(Users) /\ n <= Cardinality(Users)
  <2>1. IsFiniteSet(Users)
      BY <1>6, FS_Subset
  <2>2. Cardinality(1..n) = n
    <3>. HIDE DEF n
    <3>1. n \in Int /\ 1 \in Int /\ Cardinality(1..n) = IF 1 > n THEN 0 ELSE n - 1 + 1
        BY <1>1, FS_Interval
    <3>. QED BY <1>1, <3>1
  <2>. QED BY <1>5, <2>1, <2>2, FS_Injection
<1>8. IsFiniteSet(Allocating)
    BY <1>6, FS_Subset
<1>9. /\ IsFiniteSet(Users \cup Allocating)
      /\ Cardinality(Users \cup Allocating) = Cardinality(Users) + Cardinality(Allocating)
  <2>1. Cardinality(Users \cap Allocating) = 0
      BY <1>6, FS_EmptySet
  <2>2. Cardinality(Users) \in Nat /\ Cardinality(Allocating) \in Nat
      BY <1>7, <1>8, FS_CardinalityType
  <2>3. /\ IsFiniteSet(Users \cup Allocating)
        /\ Cardinality(Users \cup Allocating) =
              Cardinality(Users) + Cardinality(Allocating) - Cardinality(Users \cap Allocating)
      BY <1>7, <1>8, FS_Union
  <2>. QED BY <2>1, <2>2, <2>3
<1>10. Cardinality((Users \cup Allocating) \cup {p}) = Cardinality(Users \cup Allocating) + 1
    BY <1>6, <1>9, FS_AddElement
<1>11. Cardinality((Users \cup Allocating) \cup {p}) <= Cardinality(Caller)
    BY <1>6, FS_Subset
<1>. QED BY <1>1, <1>7, <1>8, <1>9, <1>10, <1>11, FS_CardinalityType

\* Every step keeps the count.
LEMMA CountedKeeps ==
    ASSUME IsFiniteSet(Caller), IndInv, Accounted, Counted, [Next]_vars
    PROVE  Counted'
<1>1. /\ all \in Seq(Scratch) /\ Len(all) \in Nat
      /\ pc \in [Actor -> {"idle"} \cup MatchPC \cup ClosePC] /\ Caller \subseteq Actor
    BY DEF IndInv, TypeOK, Actor
<1>2. IsFiniteSet(Allocating) /\ Cardinality(Allocating) \in Nat /\ Cardinality(Caller) \in Nat
    BY FS_Subset, FS_CardinalityType DEF Allocating
<1>3. ASSUME NEW p \in Caller, PoolMiss(p)
      PROVE  Counted'
  <2>1. pc[p] = "get" /\ free = <<>> /\ all' = all
      BY <1>3 DEF PoolMiss, Goto, pool
  <2>2. Len(all) + Cardinality(Allocating) + 1 <= Cardinality(Caller)
      BY <2>1, RoomForOneMore
  <2>3. Allocating' \subseteq Allocating \cup {p}
      BY <1>1, <1>3 DEF PoolMiss, Goto, Allocating
  <2>4. /\ Cardinality(Allocating') <= Cardinality(Allocating) + 1
        /\ Cardinality(Allocating') \in Nat
    <3>1. /\ IsFiniteSet(Allocating \cup {p})
          /\ Cardinality(Allocating \cup {p}) =
                IF p \in Allocating THEN Cardinality(Allocating) ELSE Cardinality(Allocating) + 1
        BY <1>2, FS_AddElement
    <3>2. /\ IsFiniteSet(Allocating')
          /\ Cardinality(Allocating') <= Cardinality(Allocating \cup {p})
        BY <2>3, <3>1, FS_Subset
    <3>3. Cardinality(Allocating') \in Nat
        BY <3>2, FS_CardinalityType
    <3>. QED BY <1>2, <3>1, <3>2, <3>3
  <2>. QED BY <1>1, <1>2, <2>1, <2>2, <2>4 DEF Counted
<1>4. ASSUME NEW p \in Caller, PoolRegister(p)
      PROVE  Counted'
  <2>1. held[p] \in Scratch /\ p \in Allocating
      BY <1>4 DEF PoolRegister, Goto, IndInv, TypeOK, PoolInv, HoldPC, Allocating
  <2>2. Len(all') = Len(all) + 1
      BY <1>1, <1>4, <2>1 DEF PoolRegister
  <2>3. Allocating' = Allocating \ {p}
      BY <1>1, <1>4 DEF PoolRegister, Goto, Allocating
  <2>4. Cardinality(Allocating') = Cardinality(Allocating) - 1
      BY <1>2, <2>1, <2>3, FS_RemoveElement
  <2>. QED BY <1>1, <1>2, <2>2, <2>4 DEF Counted
<1>5. ASSUME all' \in {all, <<>>}, Allocating' \subseteq Allocating
      PROVE  Counted'
  <2>1. Len(all') <= Len(all) /\ Len(all') \in Nat
      BY <1>1, <1>5
  <2>2. Cardinality(Allocating') <= Cardinality(Allocating) /\ IsFiniteSet(Allocating')
      BY <1>2, <1>5, FS_Subset
  <2>3. Cardinality(Allocating') \in Nat
      BY <2>2, FS_CardinalityType
  <2>. QED BY <1>1, <1>2, <2>1, <2>2, <2>3 DEF Counted
<1>. QED BY <1>3, <1>4, <1>5, CountedSteps

------------------------------------------------------------------------------
\* The pool holds at most one scratch for each goroutine, although get
\* allocates outside pool.mu while others put theirs back.
THEOREM PoolStaysBounded ==
    ASSUME IsFiniteSet(Caller)
    PROVE  Spec => []PoolBounded
<1>1. ASSUME Init PROVE Accounted /\ Counted
  <2>1. all = <<>> /\ ToSet(all) = {} /\ Allocating = {}
      BY <1>1, EmptyPool DEF Init, Allocating, Actor
  <2>2. Cardinality(Allocating) = 0 /\ Cardinality(Caller) \in Nat
      BY <2>1, FS_EmptySet, FS_CardinalityType
  <2>. QED BY <2>1, <2>2 DEF Accounted, Counted
<1>2. BoundInv /\ [Next]_vars => BoundInv'
    BY IndStep, AccountedKeeps, CountedKeeps DEF BoundInv
<1>3. BoundInv => PoolBounded
  <2>1. SUFFICES ASSUME IndInv, Counted PROVE PoolBounded
      BY DEF BoundInv
  <2>2. Len(all) \in Nat /\ Cardinality(Allocating) \in Nat /\ Cardinality(Caller) \in Nat
      BY <2>1, FS_Subset, FS_CardinalityType DEF IndInv, TypeOK, Allocating
  <2>. QED BY <2>1, <2>2 DEF Counted, PoolBounded
<1>4. Init => BoundInv
    BY <1>1, IndInit DEF BoundInv
<1>. QED BY <1>2, <1>3, <1>4, PTL DEF Spec
==============================================================================
