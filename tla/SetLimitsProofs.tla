---------------------------- MODULE SetLimitsProofs ----------------------------
(***************************************************************************)
(* SetLimits for any number of goroutines, plans and generations.  The     *)
(* argument: a generation that a SetMatchLimits has not yet published is   *)
(* known to nobody else, generations are published once, and so what a     *)
(* writer closes after publishing its own is never published again.        *)
(***************************************************************************)
EXTENDS SetLimits, TLAPS

ReaderPC == {"idle", "loaded", "rlock", "inC", "subLoaded", "subLock", "sub"}
WriterPC == {"idle"} \cup Compiling \cup Swapping \cup Closing
InCallout == {"subLoaded", "subLock", "sub"}
InMain == {"inC"} \cup InCallout

TypeInv ==
    /\ main \in Gen /\ looks \in Gen /\ gens \in Gen
    /\ state \in [Handle -> {"none", "open", "closed"}]
    /\ lock \in [Handle -> LockType(Actor)]
    /\ pc \in [Actor -> ReaderPC \cup WriterPC]
    /\ \A p \in Reader : pc[p] \in ReaderPC
    /\ \A w \in Writer : pc[w] \in WriterPC
    /\ at \in [Reader -> Handle] /\ sub \in [Reader -> Handle]
    /\ cbErr \in [Reader -> Limit \cup {"nil", "ErrClosed"}]
    /\ result \in [Reader -> Limit \cup {"none", "ok", "ErrClosed"}]
    /\ raced \in [Reader -> BOOLEAN]
    /\ own \in [Writer -> Gen] /\ old \in [Writer -> Gen] /\ oldLooks \in [Writer -> Gen]
    /\ plan \in [Writer -> Nat \ {0}]
    /\ lost \in SUBSET Handle

\* Points at which the pattern, and the plans, of own[w] are w's alone.
OwnsMain(w) == pc[w] \in Compiling \cup {"loadRe", "loadLooks", "storeRe"}
OwnsLooks(w) == pc[w] \in Compiling \cup Swapping
\* Points at which what w replaced is still to be closed by w.
ClosesMain(w) == pc[w] \in {"storeLooks", "closeMain", "waitMain"}
ClosesLooks(w) == pc[w] \in Closing

\* A generation begun is new to everything; it becomes known when published.
GenInv ==
    /\ main <= gens /\ looks <= gens
    /\ \A w \in Writer : own[w] <= gens /\ old[w] <= gens /\ oldLooks[w] <= gens
    /\ \A p \in Reader : at[p][1] <= gens /\ sub[p][1] <= gens
    /\ \A w \in Writer : Setting(w) => own[w] > 0
    /\ \A w, v \in Writer : w # v /\ own[w] > 0 => own[w] # own[v]
    /\ \A w \in Writer : OwnsMain(w) =>
          /\ own[w] # main
          /\ \A v \in Writer : own[w] # old[v]
          /\ \A p \in Reader : own[w] # at[p][1]
    /\ \A w \in Writer : OwnsLooks(w) =>
          /\ own[w] # looks
          /\ \A v \in Writer : own[w] # oldLooks[v]
          /\ \A p \in Reader : own[w] # sub[p][1]
    /\ \A w \in Writer : ClosesMain(w) => old[w] # main
    /\ \A w \in Writer : ClosesLooks(w) /\ Plans > 0 => oldLooks[w] # looks
    /\ \A w \in Writer : pc[w] \in {"plans", "closePlans", "waitPlan"} => plan[w] <= Plans

\* What is compiled so far of the generations begun.
StateInv ==
    /\ \A h \in Handle : h[1] > gens => state[h] = "none"
    /\ state[<<0, 0>>] # "none"
    /\ \A w \in Writer : \A k \in 1..Plans : state[<<oldLooks[w], k>>] # "none"
    /\ \A w \in Writer : pc[w] = "plans" =>
          /\ state[<<own[w], 0>>] = "none"
          /\ \A k \in 1..Plans : k < plan[w] => state[<<own[w], k>>] = "open"
          /\ \A k \in 1..Plans : k >= plan[w] => state[<<own[w], k>>] = "none"
    /\ \A w \in Writer : pc[w] \in {"loadRe", "loadLooks", "storeRe"} => state[<<own[w], 0>>] = "open"
    /\ \A w \in Writer : pc[w] \in {"main"} \cup Swapping =>
          \A k \in 1..Plans : state[<<own[w], k>>] = "open"

\* A goroutine in C holds the read lock of what it matches on.
ReaderInv ==
    /\ \A p \in Reader : at[p][2] = 0
    /\ \A p \in Reader : pc[p] \in InCallout => sub[p][2] > 0
    /\ \A p \in Reader : state[at[p]] # "none" /\ state[sub[p]] # "none"
    /\ \A p \in Reader : pc[p] \in InMain => p \in lock[at[p]].readers
    /\ \A p \in Reader : pc[p] = "sub" => p \in lock[sub[p]].readers

\* As long as no SetMatchLimits has run during a match, it meets nothing
\* closed.
RaceInv ==
    \A p \in Reader :
        /\ pc[p] = "idle" => cbErr[p] = "nil"
        /\ pc[p] # "idle" =>
              /\ (\E w \in Writer : Setting(w)) => raced[p]
              /\ ~raced[p] => state[at[p]] # "closed" /\ cbErr[p] # "ErrClosed"
              /\ ~raced[p] /\ pc[p] \in InCallout => state[sub[p]] # "closed"

\* What writer w still has to publish or to close.
Pending(w, h) ==
    \/ OwnsMain(w) /\ h[1] = own[w]
    \/ pc[w] = "storeLooks" /\ h[1] = own[w] /\ h[2] > 0
    \/ ClosesMain(w) /\ h = <<old[w], 0>>
    \/ pc[w] \in {"closeMain", "waitMain"} /\ h[1] = oldLooks[w] /\ h[2] > 0
    \/ pc[w] \in {"closePlans", "waitPlan"} /\ h[1] = oldLooks[w] /\ h[2] >= plan[w]

\* Everything that is open is published, pending, or a known loss.
Accounted(h) ==
    \/ h = <<main, 0>>
    \/ h[1] = looks /\ h[2] > 0
    \/ h \in lost
    \/ h[2] > 0 /\ state[<<h[1], Plans>>] = "none"
    \/ \E w \in Writer : Pending(w, h)

LeakInv ==
    /\ \A w \in Writer : pc[w] \in {"closeMain", "waitMain"} => plan[w] = 1
    /\ \A h \in Handle : state[h] = "open" => Accounted(h)

IndInv ==
    /\ TypeInv /\ GenInv /\ StateInv /\ ReaderInv /\ RaceInv /\ LeakInv
    /\ NoUseAfterFree /\ FieldsAreOpen /\ ClosedOnlyByRace

------------------------------------------------------------------------------
\* Handles are pairs of a generation and 0 or the number of a plan.
LEMMA Pairs ==
    /\ \A g \in Gen, k \in 0..Plans : <<g, k>> \in Handle /\ <<g, k>>[1] = g /\ <<g, k>>[2] = k
    /\ \A h \in Handle : h[1] \in Gen /\ h[2] \in 0..Plans /\ h = <<h[1], h[2]>>
BY SetLimitsAssumption DEF Handle

\* What the operations of a lock do to the goroutines that hold it.
LEMMA LockSteps ==
    ASSUME NEW l \in LockType(Actor), NEW p \in Actor
    PROVE  /\ RLock(l, p) \in LockType(Actor) /\ l.readers \subseteq RLock(l, p).readers
           /\ RUnlock(l, p) \in LockType(Actor) /\ RUnlock(l, p).readers = l.readers \ {p}
           /\ Announce(l, p) \in LockType(Actor) /\ Announce(l, p).readers = l.readers
           /\ Unlock(l) \in LockType(Actor) /\ l.readers \subseteq Unlock(l).readers
BY DEF LockType, RLock, RUnlock, Announce, Unlock

\* The invariant holds when Compile has returned.
LEMMA IndInit == Init => IndInv
<1> SUFFICES ASSUME Init PROVE IndInv
  OBVIOUS
<1> USE SetLimitsAssumption DEF Init
<1>1. 0 \in Gen /\ 0 \in 0..Plans
  BY DEF Gen
<1>2. TypeInv
  BY <1>1, Pairs DEF TypeInv, ReaderPC, WriterPC, LockType, FreeLock, Actor
<1>3. GenInv
  BY <1>1, Pairs DEF GenInv, Actor, Setting, OwnsMain, OwnsLooks, ClosesMain, ClosesLooks,
                 Compiling, Swapping, Closing
<1>4. StateInv
  BY <1>1, Pairs, SMTT(20) DEF StateInv, Actor, Swapping, Gen
<1>5. ReaderInv /\ RaceInv
  BY <1>1, Pairs DEF ReaderInv, RaceInv, Actor, InMain, InCallout
<1>6. LeakInv
  <2> SUFFICES ASSUME NEW h \in Handle, state[h] = "open", h # <<main, 0>>
               PROVE  h[1] = looks /\ h[2] > 0
    BY DEF LeakInv, Accounted, Actor
  <2> QED
    BY Pairs
<1>7. NoUseAfterFree /\ FieldsAreOpen /\ ClosedOnlyByRace
  <2>1. NoUseAfterFree /\ ClosedOnlyByRace
    BY DEF NoUseAfterFree, ClosedOnlyByRace, Actor
  <2>2. FieldsAreOpen
    BY <1>1, Pairs DEF FieldsAreOpen
  <2> QED
    BY <2>1, <2>2
<1> QED
  BY <1>2, <1>3, <1>4, <1>5, <1>6, <1>7 DEF IndInv

------------------------------------------------------------------------------
(* Matches.                                                                *)

\* No step of a match touches what writers and the fields refer to.
LEMMA MatchFrame ==
    ASSUME IndInv, NEW p \in Reader, NEW to \in ReaderPC,
           pc' = [pc EXCEPT ![p] = to],
           UNCHANGED <<fields, gens, state, writing, lost>>
    PROVE  /\ \A w \in Writer : pc'[w] = pc[w]
           /\ \A q \in Reader : q # p => pc'[q] = pc[q]
           /\ pc'[p] = to
           /\ StateInv' /\ FieldsAreOpen' /\ LeakInv'
<1> USE SetLimitsAssumption DEF fields, writing
<1>1. pc \in [Actor -> ReaderPC \cup WriterPC] /\ p \in Actor
  BY DEF IndInv, TypeInv, Actor
<1>2. \A w \in Writer : pc'[w] = pc[w]
  BY <1>1 DEF Actor
<1>3. pc'[p] = to /\ \A q \in Reader : q # p => pc'[q] = pc[q]
  BY <1>1 DEF Actor
<1>4. StateInv' /\ FieldsAreOpen'
  BY <1>2 DEF IndInv, StateInv, FieldsAreOpen
<1>5. LeakInv'
  BY <1>2 DEF IndInv, LeakInv, Accounted, Pending, OwnsMain, ClosesMain
<1> QED
  BY <1>2, <1>3, <1>4, <1>5

\* A match refers to what the fields refer to, or to nothing new.
LEMMA MatchRefers ==
    ASSUME IndInv,
           at' \in [Reader -> Handle], sub' \in [Reader -> Handle],
           \A q \in Reader : at'[q] \in {at[q], <<main, 0>>, <<0, 0>>},
           \A q \in Reader : sub'[q] \in {sub[q], <<0, 0>>} \/ \E k \in 1..Plans : sub'[q] = <<looks, k>>,
           \A w \in Writer : pc'[w] = pc[w],
           UNCHANGED <<fields, gens, state, writing, lost>>
    PROVE  /\ GenInv'
           /\ \A q \in Reader : at'[q][2] = 0
           /\ \A q \in Reader : state'[at'[q]] # "none" /\ state'[sub'[q]] # "none"
<1> USE SetLimitsAssumption DEF fields, writing
<1>1. 0 \in Gen /\ 0 \in 0..Plans /\ main \in Gen /\ looks \in Gen /\ gens \in Nat
  BY DEF Gen, IndInv, TypeInv
<1>2. \A q \in Reader : at'[q][1] \in {at[q][1], main, 0} /\ at'[q][2] \in {at[q][2], 0}
  BY <1>1, Pairs
<1>3. \A q \in Reader : sub'[q][1] \in {sub[q][1], looks, 0}
  BY <1>1, Pairs
<1>4. GenInv'
  BY <1>1, <1>2, <1>3 DEF IndInv, GenInv, Setting, OwnsMain, OwnsLooks, ClosesMain, ClosesLooks,
                          Compiling, Swapping, Closing
<1>5. \A q \in Reader : at'[q][2] = 0
  BY <1>2 DEF IndInv, ReaderInv
<1>6. \A q \in Reader : state'[at'[q]] # "none" /\ state'[sub'[q]] # "none"
  BY DEF IndInv, ReaderInv, StateInv, FieldsAreOpen
<1> QED
  BY <1>4, <1>5, <1>6

\* What a step of p's match to another point must see to, for p alone.
KeptTypes ==
    /\ at' \in [Reader -> Handle] /\ sub' \in [Reader -> Handle]
    /\ lock' \in [Handle -> LockType(Actor)]
    /\ cbErr' \in [Reader -> Limit \cup {"nil", "ErrClosed"}]
    /\ result' \in [Reader -> Limit \cup {"none", "ok", "ErrClosed"}]
    /\ raced' \in [Reader -> BOOLEAN]

KeptOthers(p) ==
    \A q \in Reader \ {p} :
        /\ at'[q] = at[q] /\ sub'[q] = sub[q] /\ cbErr'[q] = cbErr[q]
        /\ result'[q] = result[q] /\ raced'[q] = raced[q]
        /\ \A h \in Handle : q \in lock[h].readers => q \in lock'[h].readers

KeptRefs(p, to) ==
    /\ at'[p] \in {at[p], <<main, 0>>, <<0, 0>>}
    /\ sub'[p] \in {sub[p], <<0, 0>>} \/ \E k \in 1..Plans : sub'[p] = <<looks, k>>
    /\ to \in InCallout => sub'[p][2] > 0

KeptUse(p, to) ==
    /\ to \in InMain => p \in lock'[at'[p]].readers /\ state[at'[p]] = "open"
    /\ to = "sub" => p \in lock'[sub'[p]].readers /\ state[sub'[p]] = "open"

KeptRace(p, to) ==
    /\ to = "idle" => cbErr'[p] = "nil"
    /\ to # "idle" /\ (\E w \in Writer : Setting(w)) => raced'[p]
    /\ ~raced'[p] => /\ result'[p] # "ErrClosed"
                     /\ to # "idle" => state[at'[p]] # "closed" /\ cbErr'[p] # "ErrClosed"
                     /\ to \in InCallout => state[sub'[p]] # "closed"

Kept(p, to) ==
    KeptTypes /\ KeptOthers(p) /\ KeptRefs(p, to) /\ KeptUse(p, to) /\ KeptRace(p, to)

\* A step of p's match that sees to these keeps the invariant.
LEMMA MatchKeeps ==
    ASSUME IndInv, NEW p \in Reader, NEW to \in ReaderPC,
           pc' = [pc EXCEPT ![p] = to], Kept(p, to),
           UNCHANGED <<fields, gens, state, writing, lost>>
    PROVE  IndInv'
<1> USE SetLimitsAssumption DEF fields, writing
<1>1. /\ \A w \in Writer : pc'[w] = pc[w]
      /\ \A q \in Reader : q # p => pc'[q] = pc[q]
      /\ pc'[p] = to
      /\ StateInv' /\ FieldsAreOpen' /\ LeakInv'
  BY MatchFrame
<1>2. TypeInv'
  <2>1. pc' \in [Actor -> ReaderPC \cup WriterPC]
    BY DEF IndInv, TypeInv
  <2>2. /\ \A q \in Reader : pc'[q] \in ReaderPC
        /\ \A w \in Writer : pc'[w] \in WriterPC
    BY <1>1 DEF IndInv, TypeInv
  <2> QED
    BY <2>1, <2>2 DEF IndInv, TypeInv, Kept, KeptTypes, KeptOthers, KeptRefs, KeptUse, KeptRace
<1>3. /\ GenInv'
      /\ \A q \in Reader : at'[q][2] = 0
      /\ \A q \in Reader : state'[at'[q]] # "none" /\ state'[sub'[q]] # "none"
  <2>1. \A q \in Reader : at'[q] \in {at[q], <<main, 0>>, <<0, 0>>}
    BY DEF Kept, KeptTypes, KeptOthers, KeptRefs, KeptUse, KeptRace
  <2>2. \A q \in Reader : sub'[q] \in {sub[q], <<0, 0>>} \/ \E k \in 1..Plans : sub'[q] = <<looks, k>>
    BY DEF Kept, KeptTypes, KeptOthers, KeptRefs, KeptUse, KeptRace
  <2> QED
    BY <1>1, <1>2, <2>1, <2>2, MatchRefers DEF TypeInv
<1>4. \A q \in Reader \ {p} : at'[q] = at[q] /\ sub'[q] = sub[q] /\ at[q] \in Handle /\ sub[q] \in Handle
  BY DEF IndInv, TypeInv, Kept, KeptTypes, KeptOthers, KeptRefs, KeptUse, KeptRace
<1>5. ReaderInv'
  <2>1. \A q \in Reader : pc'[q] \in InCallout => sub'[q][2] > 0
    BY <1>1, <1>4 DEF IndInv, ReaderInv, Kept, KeptTypes, KeptOthers, KeptRefs, KeptUse, KeptRace
  <2>2. \A q \in Reader : pc'[q] \in InMain => q \in lock'[at'[q]].readers
    BY <1>1, <1>4 DEF IndInv, ReaderInv, Kept, KeptTypes, KeptOthers, KeptRefs, KeptUse, KeptRace
  <2>3. \A q \in Reader : pc'[q] = "sub" => q \in lock'[sub'[q]].readers
    BY <1>1, <1>4 DEF IndInv, ReaderInv, Kept, KeptTypes, KeptOthers, KeptRefs, KeptUse, KeptRace
  <2> QED
    BY <1>3, <2>1, <2>2, <2>3 DEF ReaderInv
<1>6. NoUseAfterFree'
  BY <1>1, <1>4 DEF IndInv, NoUseAfterFree, Kept, KeptTypes, KeptOthers, KeptUse, InMain, InCallout
<1>7. ClosedOnlyByRace'
  BY <1>1 DEF IndInv, ClosedOnlyByRace, Kept, KeptTypes, KeptOthers, KeptRefs, KeptUse, KeptRace
<1>8. RaceInv'
  <2>1. (\E w \in Writer : Setting(w)') <=> \E w \in Writer : Setting(w)
    BY <1>1 DEF Setting
  <2> QED
    BY <1>1, <1>4, <2>1 DEF IndInv, RaceInv, Kept, KeptTypes, KeptOthers, KeptRefs, KeptUse, KeptRace
<1> QED
  BY <1>1, <1>2, <1>3, <1>5, <1>6, <1>7, <1>8 DEF IndInv

\* What p itself knows of its match.
LEMMA MatchTypes ==
    ASSUME IndInv, NEW p \in Reader
    PROVE  /\ p \in Actor /\ at[p] \in Handle /\ sub[p] \in Handle
           /\ <<0, 0>> \in Handle /\ <<main, 0>> \in Handle
           /\ \A k \in 1..Plans : <<looks, k>> \in Handle /\ <<looks, k>>[2] = k
           /\ pc[p] \in InCallout => at[p] # sub[p]
           /\ \A h \in Handle : lock[h] \in LockType(Actor) /\ state[h] \in {"none", "open", "closed"}
<1>1. main \in Gen /\ looks \in Gen /\ 0 \in Gen /\ 0 \in 0..Plans /\ \A k \in 1..Plans : k \in 0..Plans
  BY SetLimitsAssumption DEF IndInv, TypeInv, Gen
<1>2. at[p] # sub[p] \/ pc[p] \notin InCallout
  BY DEF IndInv, ReaderInv
<1>3. p \in Actor /\ at[p] \in Handle /\ sub[p] \in Handle
  BY DEF IndInv, TypeInv, Actor
<1>4. \A h \in Handle : lock[h] \in LockType(Actor) /\ state[h] \in {"none", "open", "closed"}
  BY DEF IndInv, TypeInv
<1>5. /\ <<0, 0>> \in Handle /\ <<main, 0>> \in Handle
      /\ \A k \in 1..Plans : <<looks, k>> \in Handle /\ <<looks, k>>[2] = k
  BY <1>1, Pairs
<1> QED
  BY <1>2, <1>3, <1>4, <1>5

\* A read unlock takes nothing from the other goroutines.
LEMMA RUnlockStep ==
    ASSUME lock \in [Handle -> LockType(Actor)], NEW p \in Actor, NEW h \in Handle,
           lock' = [lock EXCEPT ![h] = RUnlock(@, p)]
    PROVE  /\ lock' \in [Handle -> LockType(Actor)]
           /\ \A g \in Handle, q \in Reader \ {p} : q \in lock[g].readers => q \in lock'[g].readers
           /\ \A g \in Handle \ {h} : lock'[g] = lock[g]
<1>1. /\ RUnlock(lock[h], p) \in LockType(Actor)
      /\ RUnlock(lock[h], p).readers = lock[h].readers \ {p}
  BY LockSteps
<1>2. \A g \in Handle : lock'[g] = IF g = h THEN RUnlock(lock[h], p) ELSE lock[g]
  OBVIOUS
<1> QED
  BY <1>1, <1>2

\* StartMatch reads re.re: what it reads is open.
LEMMA StartMatchKeeps == ASSUME IndInv, NEW p \in Reader, StartMatch(p) PROVE IndInv'
<1> USE SetLimitsAssumption, MatchTypes DEF StartMatch, Goto, fields, reading, writing
<1>1. KeptTypes
  BY LockSteps DEF KeptTypes, IndInv, TypeInv
<1>2. KeptOthers(p)
  BY LockSteps DEF KeptOthers, IndInv, TypeInv
<1>3. KeptRefs(p, "loaded")
  BY DEF KeptRefs, IndInv, TypeInv, ReaderInv, InCallout
<1>4. KeptUse(p, "loaded")
  BY LockSteps DEF KeptUse, IndInv, TypeInv, ReaderInv, NoUseAfterFree, InMain, InCallout
<1>5. KeptRace(p, "loaded")
  BY DEF KeptRace, IndInv, TypeInv, RaceInv, ClosedOnlyByRace, FieldsAreOpen, InCallout
<1> QED
  BY <1>1, <1>2, <1>3, <1>4, <1>5, MatchKeeps DEF Kept, ReaderPC

\* LockMain only asks for the lock of the pattern.
LEMMA LockMainKeeps == ASSUME IndInv, NEW p \in Reader, LockMain(p) PROVE IndInv'
<1> USE SetLimitsAssumption, MatchTypes DEF LockMain, Goto, fields, reading, writing
<1>1. KeptTypes
  BY LockSteps DEF KeptTypes, IndInv, TypeInv
<1>2. KeptOthers(p)
  <2>1. \A h \in Handle : lock'[h] = IF h = at[p] THEN RLock(lock[h], p) ELSE lock[h]
    BY DEF IndInv, TypeInv
  <2>2. lock[at[p]].readers \subseteq RLock(lock[at[p]], p).readers
    BY LockSteps
  <2>3. \A h \in Handle : lock[h].readers \subseteq lock'[h].readers
    BY <2>1, <2>2
  <2> QED
    BY <2>3 DEF KeptOthers
<1>3. KeptRefs(p, "rlock")
  BY DEF KeptRefs, IndInv, TypeInv, ReaderInv, InCallout
<1>4. KeptUse(p, "rlock")
  BY LockSteps DEF KeptUse, IndInv, TypeInv, ReaderInv, NoUseAfterFree, InMain, InCallout
<1>5. KeptRace(p, "rlock")
  BY DEF KeptRace, IndInv, TypeInv, RaceInv, ClosedOnlyByRace, FieldsAreOpen, InCallout
<1> QED
  BY <1>1, <1>2, <1>3, <1>4, <1>5, MatchKeeps DEF Kept, ReaderPC

\* A match is refused by a closed pattern only, which it met in a race.
LEMMA RefuseMatchKeeps == ASSUME IndInv, NEW p \in Reader, RefuseMatch(p) PROVE IndInv'
<1> USE SetLimitsAssumption, MatchTypes DEF RefuseMatch, Return, Goto, fields, reading, writing
<1>1. /\ lock \in [Handle -> LockType(Actor)]
      /\ lock' = [lock EXCEPT ![at[p]] = RUnlock(@, p)]
  BY DEF IndInv, TypeInv
<1>2. /\ lock' \in [Handle -> LockType(Actor)]
      /\ \A g \in Handle, q \in Reader \ {p} : q \in lock[g].readers => q \in lock'[g].readers
  BY <1>1, RUnlockStep
<1>3. KeptTypes
  BY <1>2 DEF KeptTypes, IndInv, TypeInv
<1>4. KeptOthers(p)
  BY <1>2 DEF KeptOthers, IndInv, TypeInv
<1>5. KeptRefs(p, "idle")
  BY DEF KeptRefs, IndInv, TypeInv, ReaderInv, InCallout
<1>6. KeptUse(p, "idle")
  BY LockSteps DEF KeptUse, IndInv, TypeInv, ReaderInv, NoUseAfterFree, InMain, InCallout
<1>7. KeptRace(p, "idle")
  BY DEF KeptRace, IndInv, TypeInv, RaceInv, ClosedOnlyByRace, FieldsAreOpen, InCallout
<1> QED
  BY <1>3, <1>4, <1>5, <1>6, <1>7, MatchKeeps DEF Kept, ReaderPC

\* EnterC has the read lock of an open pattern.
LEMMA EnterCKeeps == ASSUME IndInv, NEW p \in Reader, EnterC(p) PROVE IndInv'
<1> USE SetLimitsAssumption, MatchTypes DEF EnterC, Goto, fields, reading, writing
<1>1. KeptTypes
  BY LockSteps DEF KeptTypes, IndInv, TypeInv
<1>2. KeptOthers(p)
  BY LockSteps DEF KeptOthers, IndInv, TypeInv
<1>3. KeptRefs(p, "inC")
  BY DEF KeptRefs, IndInv, TypeInv, ReaderInv, InCallout
<1>4. KeptUse(p, "inC")
  BY LockSteps DEF KeptUse, IndInv, TypeInv, ReaderInv, NoUseAfterFree, InMain, InCallout
<1>5. KeptRace(p, "inC")
  BY DEF KeptRace, IndInv, TypeInv, RaceInv, ClosedOnlyByRace, FieldsAreOpen, InCallout
<1> QED
  BY <1>1, <1>2, <1>3, <1>4, <1>5, MatchKeeps DEF Kept, ReaderPC

\* Callout reads re.lookbehinds: what it reads is open.
LEMMA CalloutKeeps == ASSUME IndInv, NEW p \in Reader, Callout(p) PROVE IndInv'
<1> USE SetLimitsAssumption, MatchTypes DEF Callout, Goto, fields, reading, writing
<1>1. KeptTypes
  BY LockSteps DEF KeptTypes, IndInv, TypeInv
<1>2. KeptOthers(p)
  BY LockSteps DEF KeptOthers, IndInv, TypeInv
<1>3. KeptRefs(p, "subLoaded")
  BY DEF KeptRefs, IndInv, TypeInv, ReaderInv, InCallout
<1>4. KeptUse(p, "subLoaded")
  BY LockSteps DEF KeptUse, IndInv, TypeInv, ReaderInv, NoUseAfterFree, InMain, InCallout
<1>5. KeptRace(p, "subLoaded")
  BY DEF KeptRace, IndInv, TypeInv, RaceInv, ClosedOnlyByRace, FieldsAreOpen, InCallout
<1> QED
  BY <1>1, <1>2, <1>3, <1>4, <1>5, MatchKeeps DEF Kept, ReaderPC

\* LockPlan only asks for the lock of the plan.
LEMMA LockPlanKeeps == ASSUME IndInv, NEW p \in Reader, LockPlan(p) PROVE IndInv'
<1> USE SetLimitsAssumption, MatchTypes DEF LockPlan, Goto, fields, reading, writing
<1>1. KeptTypes
  BY LockSteps DEF KeptTypes, IndInv, TypeInv
<1>2. KeptOthers(p)
  <2>1. \A h \in Handle : lock'[h] = IF h = sub[p] THEN RLock(lock[h], p) ELSE lock[h]
    BY DEF IndInv, TypeInv
  <2>2. lock[sub[p]].readers \subseteq RLock(lock[sub[p]], p).readers
    BY LockSteps
  <2>3. \A h \in Handle : lock[h].readers \subseteq lock'[h].readers
    BY <2>1, <2>2
  <2> QED
    BY <2>3 DEF KeptOthers
<1>3. KeptRefs(p, "subLock")
  BY DEF KeptRefs, IndInv, TypeInv, ReaderInv, InCallout
<1>4. KeptUse(p, "subLock")
  BY LockSteps DEF KeptUse, IndInv, TypeInv, ReaderInv, NoUseAfterFree, InMain, InCallout
<1>5. KeptRace(p, "subLock")
  BY DEF KeptRace, IndInv, TypeInv, RaceInv, ClosedOnlyByRace, FieldsAreOpen, InCallout
<1> QED
  BY <1>1, <1>2, <1>3, <1>4, <1>5, MatchKeeps DEF Kept, ReaderPC

\* A callout is refused by a closed plan only, which it met in a race.
LEMMA RefusePlanKeeps == ASSUME IndInv, NEW p \in Reader, RefusePlan(p) PROVE IndInv'
<1> USE SetLimitsAssumption, MatchTypes DEF RefusePlan, Keep, Goto, fields, reading, writing
<1>1. /\ lock \in [Handle -> LockType(Actor)]
      /\ lock' = [lock EXCEPT ![sub[p]] = RUnlock(@, p)]
  BY DEF IndInv, TypeInv
<1>2. /\ lock' \in [Handle -> LockType(Actor)]
      /\ \A g \in Handle, q \in Reader \ {p} : q \in lock[g].readers => q \in lock'[g].readers
  BY <1>1, RUnlockStep
<1>3. KeptTypes
  BY <1>2 DEF KeptTypes, IndInv, TypeInv
<1>4. KeptOthers(p)
  BY <1>2 DEF KeptOthers, IndInv, TypeInv
<1>5. KeptRefs(p, "inC")
  BY DEF KeptRefs, IndInv, TypeInv, ReaderInv, InCallout
<1>6. KeptUse(p, "inC")
  BY LockSteps DEF KeptUse, IndInv, TypeInv, ReaderInv, NoUseAfterFree, InMain, InCallout
<1>7. KeptRace(p, "inC")
  BY DEF KeptRace, IndInv, TypeInv, RaceInv, ClosedOnlyByRace, FieldsAreOpen, InCallout
<1> QED
  BY <1>3, <1>4, <1>5, <1>6, <1>7, MatchKeeps DEF Kept, ReaderPC

\* EnterPlan has the read lock of an open plan.
LEMMA EnterPlanKeeps == ASSUME IndInv, NEW p \in Reader, EnterPlan(p) PROVE IndInv'
<1> USE SetLimitsAssumption, MatchTypes DEF EnterPlan, Goto, fields, reading, writing
<1>1. KeptTypes
  BY LockSteps DEF KeptTypes, IndInv, TypeInv
<1>2. KeptOthers(p)
  BY LockSteps DEF KeptOthers, IndInv, TypeInv
<1>3. KeptRefs(p, "sub")
  BY DEF KeptRefs, IndInv, TypeInv, ReaderInv, InCallout
<1>4. KeptUse(p, "sub")
  BY LockSteps DEF KeptUse, IndInv, TypeInv, ReaderInv, NoUseAfterFree, InMain, InCallout
<1>5. KeptRace(p, "sub")
  BY DEF KeptRace, IndInv, TypeInv, RaceInv, ClosedOnlyByRace, FieldsAreOpen, InCallout
<1> QED
  BY <1>1, <1>2, <1>3, <1>4, <1>5, MatchKeeps DEF Kept, ReaderPC

\* LeavePlan unlocks the plan and keeps the lock of the pattern.
LEMMA LeavePlanKeeps == ASSUME IndInv, NEW p \in Reader, LeavePlan(p) PROVE IndInv'
<1> USE SetLimitsAssumption, MatchTypes DEF LeavePlan, Keep, Goto, fields, reading, writing
<1>1. /\ lock \in [Handle -> LockType(Actor)]
      /\ lock' = [lock EXCEPT ![sub[p]] = RUnlock(@, p)]
  BY DEF IndInv, TypeInv
<1>2. /\ lock' \in [Handle -> LockType(Actor)]
      /\ \A g \in Handle, q \in Reader \ {p} : q \in lock[g].readers => q \in lock'[g].readers
  BY <1>1, RUnlockStep
<1>3. cbErr' \in [Reader -> Limit \cup {"nil", "ErrClosed"}] /\ \A q \in Reader \ {p} : cbErr'[q] = cbErr[q]
  <2>1. cbErr \in [Reader -> Limit \cup {"nil", "ErrClosed"}]
    BY DEF IndInv, TypeInv
  <2> QED
    BY <2>1
<1>4. KeptTypes
  BY <1>2, <1>3 DEF KeptTypes, IndInv, TypeInv
<1>5. KeptOthers(p)
  BY <1>2, <1>3 DEF KeptOthers, IndInv, TypeInv
<1>6. KeptRefs(p, "inC")
  BY DEF KeptRefs, IndInv, TypeInv, ReaderInv, InCallout
<1>7. KeptUse(p, "inC")
  BY LockSteps DEF KeptUse, IndInv, TypeInv, ReaderInv, NoUseAfterFree, InMain, InCallout
<1>8. KeptRace(p, "inC")
  BY DEF KeptRace, IndInv, TypeInv, RaceInv, ClosedOnlyByRace, FieldsAreOpen, InCallout
<1> QED
  BY <1>4, <1>5, <1>6, <1>7, <1>8, MatchKeeps DEF Kept, ReaderPC

\* LeaveC returns an error of the engine or what a callout has kept.
LEMMA LeaveCKeeps == ASSUME IndInv, NEW p \in Reader, LeaveC(p) PROVE IndInv'
<1> USE SetLimitsAssumption, MatchTypes DEF LeaveC, Return, Goto, fields, reading, writing
<1>1. /\ lock \in [Handle -> LockType(Actor)]
      /\ lock' = [lock EXCEPT ![at[p]] = RUnlock(@, p)]
  BY DEF IndInv, TypeInv
<1>2. /\ lock' \in [Handle -> LockType(Actor)]
      /\ \A g \in Handle, q \in Reader \ {p} : q \in lock[g].readers => q \in lock'[g].readers
  BY <1>1, RUnlockStep
<1>3. /\ result' \in [Reader -> Limit \cup {"none", "ok", "ErrClosed"}]
      /\ \A q \in Reader \ {p} : result'[q] = result[q]
  <2>1. /\ cbErr \in [Reader -> Limit \cup {"nil", "ErrClosed"}]
        /\ result \in [Reader -> Limit \cup {"none", "ok", "ErrClosed"}]
    BY DEF IndInv, TypeInv
  <2> QED
    BY <2>1
<1>4. KeptTypes
  BY <1>2, <1>3 DEF KeptTypes, IndInv, TypeInv
<1>5. KeptOthers(p)
  BY <1>2, <1>3 DEF KeptOthers, IndInv, TypeInv
<1>6. KeptRefs(p, "idle")
  BY DEF KeptRefs, IndInv, TypeInv, ReaderInv, InCallout
<1>7. KeptUse(p, "idle")
  BY LockSteps DEF KeptUse, IndInv, TypeInv, ReaderInv, NoUseAfterFree, InMain, InCallout
<1>8. KeptRace(p, "idle")
  BY DEF KeptRace, IndInv, TypeInv, RaceInv, ClosedOnlyByRace, FieldsAreOpen, InCallout
<1> QED
  BY <1>4, <1>5, <1>6, <1>7, <1>8, MatchKeeps DEF Kept, ReaderPC

------------------------------------------------------------------------------
(* SetMatchLimits.                                                         *)

\* What a step of w to another point leaves to the matches: nothing they
\* use is freed, and having seen it they know that they raced with it.
MatchesKept(w, to) ==
    /\ \A p \in Reader : pc'[p] = pc[p]
    /\ \A v \in Writer : v # w => pc'[v] = pc[v]
    /\ pc'[w] = to
    /\ pc' \in [Actor -> ReaderPC \cup WriterPC]
    /\ ReaderInv' /\ RaceInv' /\ NoUseAfterFree' /\ ClosedOnlyByRace'

\* What w itself knows of its call.
CallTypes(w) ==
    /\ w \in Actor /\ Gen \subseteq Nat
    /\ main \in Gen /\ looks \in Gen /\ gens \in Gen
    /\ own[w] \in Gen /\ old[w] \in Gen /\ oldLooks[w] \in Gen
    /\ plan[w] \in Nat \ {0}
    /\ <<own[w], 0>> \in Handle /\ <<old[w], 0>> \in Handle /\ <<main, 0>> \in Handle
    /\ plan[w] <= Plans => <<own[w], plan[w]>> \in Handle /\ <<oldLooks[w], plan[w]>> \in Handle
    /\ \A g \in Gen, k \in 1..Plans : <<g, k>> \in Handle

\* Any step of a call that only frees what no match is inside.
LEMMA SetFrame ==
    ASSUME IndInv, NEW w \in Writer, NEW to \in WriterPC,
           Setting(w),
           pc' = [pc EXCEPT ![w] = to],
           UNCHANGED reading,
           lock' \in [Handle -> LockType(Actor)],
           \A h \in Handle, p \in Reader : p \in lock[h].readers => p \in lock'[h].readers,
           \A h \in Handle : state[h] # "none" => state'[h] # "none",
           \A p \in Reader : pc[p] \in InMain => state'[at[p]] = state[at[p]],
           \A p \in Reader : pc[p] = "sub" => state'[sub[p]] = state[sub[p]]
    PROVE  MatchesKept(w, to)
<1> USE SetLimitsAssumption DEF reading
<1>1. pc \in [Actor -> ReaderPC \cup WriterPC] /\ w \in Actor
  BY DEF IndInv, TypeInv, Actor
<1>2. pc' \in [Actor -> ReaderPC \cup WriterPC]
  BY <1>1
<1>3. \A p \in Reader : pc'[p] = pc[p] /\ at[p] \in Handle /\ sub[p] \in Handle
  BY <1>1 DEF IndInv, TypeInv, Actor
<1>4. pc'[w] = to /\ \A v \in Writer : v # w => pc'[v] = pc[v]
  BY <1>1 DEF Actor
<1>5. ReaderInv'
  BY <1>3 DEF IndInv, ReaderInv
<1>6. NoUseAfterFree' /\ ClosedOnlyByRace'
  BY <1>3 DEF IndInv, NoUseAfterFree, ClosedOnlyByRace, InMain, InCallout
<1>7. RaceInv'
  BY <1>3 DEF IndInv, RaceInv, TypeInv
<1> QED
  BY <1>2, <1>3, <1>4, <1>5, <1>6, <1>7 DEF MatchesKept

\* What TypeInv says of the variables that a setter reads.
LEMMA SetTypes ==
    ASSUME IndInv, NEW w \in Writer
    PROVE  CallTypes(w)
<1>1. w \in Actor /\ Gen \subseteq Nat
  BY SetLimitsAssumption DEF Actor, Gen
<1>2. /\ w \in Actor /\ Gen \subseteq Nat
      /\ main \in Gen /\ looks \in Gen /\ gens \in Gen
      /\ own[w] \in Gen /\ old[w] \in Gen /\ oldLooks[w] \in Gen /\ plan[w] \in Nat \ {0}
      /\ \A h \in Handle : state[h] \in {"none", "open", "closed"} /\ lock[h] \in LockType(Actor)
  BY <1>1 DEF IndInv, TypeInv
<1>3. /\ 0 \in 0..Plans
      /\ \A k \in 1..Plans : k \in 0..Plans
      /\ plan[w] <= Plans => plan[w] \in 0..Plans
  BY <1>2, SetLimitsAssumption
<1> QED
  BY <1>2, <1>3, Pairs DEF CallTypes

\* Plans dropped by CompilePlanFails belong to a generation never completed.
LEMMA CompilePlanFailsKeeps == ASSUME IndInv, NEW w \in Writer, CompilePlanFails(w) PROVE IndInv'
<1>1. CallTypes(w)
  BY SetTypes
<1> USE <1>1, SetLimitsAssumption DEF Goto, fields, reading, writing, CallTypes, MatchesKept
<1> DEFINE to == "idle"
<1>2. to \in WriterPC /\ Setting(w) /\ pc' = [pc EXCEPT ![w] = to]
  BY DEF CompilePlanFails, WriterPC, Setting, Compiling, Swapping, Closing
<1> HIDE DEF to
<1>3. MatchesKept(w, to)
  BY <1>2, SetFrame DEF CompilePlanFails, IndInv, TypeInv
<1>4. TypeInv'
  BY <1>2, <1>3 DEF CompilePlanFails, IndInv, TypeInv
<1>5. GenInv'
  BY <1>3 DEF to, CompilePlanFails, IndInv, GenInv, Setting, OwnsMain, OwnsLooks, ClosesMain, ClosesLooks,
                 Compiling, Swapping, Closing
<1>6. StateInv'
  BY <1>3 DEF to, CompilePlanFails, IndInv, StateInv, Swapping
<1>7. FieldsAreOpen'
  BY <1>3 DEF to, CompilePlanFails, IndInv, FieldsAreOpen, StateInv
<1>8. LeakInv'
  <2> SUFFICES ASSUME NEW h \in Handle, state[h] = "open" PROVE Accounted(h)'
    BY <1>3 DEF to, CompilePlanFails, IndInv, LeakInv
  <2>1. Accounted(h) /\ h[2] \in 0..Plans /\ h = <<h[1], h[2]>>
    BY Pairs DEF IndInv, LeakInv
  <2>2. CASE h[1] = own[w]
    <3>1. h[2] > 0
      BY <2>1, <2>2 DEF CompilePlanFails, IndInv, StateInv
    <3>2. state[<<own[w], Plans>>] = "none"
      <4>1. pc[w] = "plans" /\ plan[w] <= Plans
        BY DEF CompilePlanFails, IndInv, GenInv
      <4>2. Plans \in 1..Plans /\ Plans >= plan[w]
        BY <2>1, <3>1, <4>1
      <4> QED
        BY <4>1, <4>2 DEF IndInv, StateInv
    <3> QED
      BY <2>2, <3>1, <3>2 DEF CompilePlanFails, Accounted
  <2>3. CASE h[1] # own[w]
    BY <1>3, <2>1, <2>3 DEF to, CompilePlanFails, Accounted, Pending, OwnsMain, ClosesMain
  <2> QED
    BY <2>2, <2>3
<1> QED
  BY <1>3, <1>4, <1>5, <1>6, <1>7, <1>8 DEF IndInv

\* LoadRe reads what is published: it is not its own.
LEMMA LoadReKeeps == ASSUME IndInv, NEW w \in Writer, LoadRe(w) PROVE IndInv'
<1>1. CallTypes(w)
  BY SetTypes
<1> USE <1>1, SetLimitsAssumption DEF Goto, fields, reading, writing, CallTypes, MatchesKept
<1> DEFINE to == "loadLooks"
<1>2. to \in WriterPC /\ Setting(w) /\ pc' = [pc EXCEPT ![w] = to]
  BY DEF LoadRe, WriterPC, Setting, Compiling, Swapping, Closing
<1> HIDE DEF to
<1>3. MatchesKept(w, to)
  BY <1>2, SetFrame DEF LoadRe, IndInv, TypeInv
<1>4. TypeInv'
  BY <1>2, <1>3 DEF LoadRe, IndInv, TypeInv
<1>5. GenInv'
  BY <1>3 DEF to, LoadRe, IndInv, GenInv, Setting, OwnsMain, OwnsLooks, ClosesMain, ClosesLooks,
                 Compiling, Swapping, Closing
<1>6. StateInv'
  BY <1>3 DEF to, LoadRe, IndInv, StateInv, Swapping
<1>7. FieldsAreOpen'
  BY <1>3 DEF to, LoadRe, IndInv, FieldsAreOpen, StateInv
<1>8. LeakInv'
  BY <1>3 DEF to, LoadRe, IndInv, LeakInv, Accounted, Pending, OwnsMain, ClosesMain, Compiling
<1> QED
  BY <1>3, <1>4, <1>5, <1>6, <1>7, <1>8 DEF IndInv

\* LoadLooks reads what is published: it is not its own.
LEMMA LoadLooksKeeps == ASSUME IndInv, NEW w \in Writer, LoadLooks(w) PROVE IndInv'
<1>1. CallTypes(w)
  BY SetTypes
<1> USE <1>1, SetLimitsAssumption DEF Goto, fields, reading, writing, CallTypes, MatchesKept
<1> DEFINE to == "storeRe"
<1>2. to \in WriterPC /\ Setting(w) /\ pc' = [pc EXCEPT ![w] = to]
  BY DEF LoadLooks, WriterPC, Setting, Compiling, Swapping, Closing
<1> HIDE DEF to
<1>3. MatchesKept(w, to)
  BY <1>2, SetFrame DEF LoadLooks, IndInv, TypeInv
<1>4. TypeInv'
  BY <1>2, <1>3 DEF LoadLooks, IndInv, TypeInv
<1>5. GenInv'
  BY <1>3 DEF to, LoadLooks, IndInv, GenInv, Setting, OwnsMain, OwnsLooks, ClosesMain, ClosesLooks,
                 Compiling, Swapping, Closing
<1>6. StateInv'
  BY <1>3, SMTT(20) DEF to, LoadLooks, IndInv, TypeInv, StateInv, FieldsAreOpen, Swapping
<1>7. FieldsAreOpen'
  BY <1>3 DEF to, LoadLooks, IndInv, FieldsAreOpen, StateInv
<1>8. LeakInv'
  BY <1>3 DEF to, LoadLooks, IndInv, LeakInv, Accounted, Pending, OwnsMain, ClosesMain, Compiling
<1> QED
  BY <1>3, <1>4, <1>5, <1>6, <1>7, <1>8 DEF IndInv

\* StoreRe publishes its own pattern, open and new; what it overwrites is its
\* own to close, or lost.
LEMMA StoreReKeeps == ASSUME IndInv, NEW w \in Writer, StoreRe(w) PROVE IndInv'
<1>1. CallTypes(w)
  BY SetTypes
<1> USE <1>1, SetLimitsAssumption DEF Goto, fields, reading, writing, CallTypes, MatchesKept
<1> DEFINE to == "storeLooks"
<1>2. to \in WriterPC /\ Setting(w) /\ pc' = [pc EXCEPT ![w] = to]
  BY DEF StoreRe, WriterPC, Setting, Compiling, Swapping, Closing
<1> HIDE DEF to
<1>3. MatchesKept(w, to)
  BY <1>2, SetFrame DEF StoreRe, IndInv, TypeInv
<1>4. TypeInv'
  BY <1>2, <1>3 DEF StoreRe, IndInv, TypeInv
<1>5. GenInv'
  BY <1>3 DEF to, StoreRe, IndInv, GenInv, Setting, OwnsMain, OwnsLooks, ClosesMain, ClosesLooks,
                 Compiling, Swapping, Closing
<1>6. StateInv'
  BY <1>3 DEF to, StoreRe, IndInv, StateInv, Swapping
<1>7. FieldsAreOpen'
  BY <1>3 DEF to, StoreRe, IndInv, FieldsAreOpen, StateInv
<1>8. LeakInv'
  <2> SUFFICES ASSUME NEW h \in Handle, state[h] = "open" PROVE Accounted(h)'
    BY <1>3 DEF to, StoreRe, IndInv, LeakInv
  <2>1. Accounted(h) /\ h[2] \in 0..Plans /\ h = <<h[1], h[2]>>
    BY Pairs DEF IndInv, LeakInv
  <2>2. CASE h = <<main, 0>>
    <3>1. old[w] = main => Pending(w, h)'
      BY <1>3, <2>2 DEF to, StoreRe, Pending, ClosesMain
    <3>2. old[w] # main => h \in lost'
      BY <2>2 DEF StoreRe
    <3> QED
      BY <3>1, <3>2 DEF Accounted
  <2>3. CASE h[1] = own[w]
    <3>1. h[2] = 0 => h = <<main', 0>>
      BY <2>1, <2>3 DEF StoreRe
    <3>2. h[2] > 0 => Pending(w, h)'
      BY <1>3, <2>3 DEF to, StoreRe, Pending
    <3> QED
      BY <2>1, <3>1, <3>2 DEF Accounted
  <2>4. CASE h # <<main, 0>> /\ h[1] # own[w]
    BY <1>3, <2>1, <2>4 DEF to, StoreRe, Accounted, Pending, OwnsMain, ClosesMain
  <2> QED
    BY <2>2, <2>3, <2>4
<1> QED
  BY <1>3, <1>4, <1>5, <1>6, <1>7, <1>8 DEF IndInv

\* StoreLooks publishes its own plans, all open; what it overwrites is its own
\* to close, or lost.
LEMMA StoreLooksKeeps == ASSUME IndInv, NEW w \in Writer, StoreLooks(w) PROVE IndInv'
<1>1. CallTypes(w)
  BY SetTypes
<1> USE <1>1, SetLimitsAssumption DEF Goto, fields, reading, writing, CallTypes, MatchesKept
<1> DEFINE to == "closeMain"
<1>2. to \in WriterPC /\ Setting(w) /\ pc' = [pc EXCEPT ![w] = to]
  BY DEF StoreLooks, WriterPC, Setting, Compiling, Swapping, Closing
<1> HIDE DEF to
<1>3. MatchesKept(w, to)
  BY <1>2, SetFrame DEF StoreLooks, IndInv, TypeInv
<1>4. TypeInv'
  <2>1. looks' \in Gen
    BY DEF StoreLooks
  <2>2. plan' \in [Writer -> Nat \ {0}]
    BY DEF StoreLooks, IndInv, TypeInv
  <2>3. lost' \in SUBSET Handle
    <3>1. {h \in {looks} \X (1..Plans) : looks # oldLooks[w]} \subseteq Handle
      <4>1. \A k \in 1..Plans : <<looks, k>> \in Handle
        OBVIOUS
      <4> QED
        BY <4>1
    <3> QED
      BY <3>1 DEF StoreLooks, IndInv, TypeInv
  <2> QED
    BY <1>2, <1>3, <2>1, <2>2, <2>3 DEF StoreLooks, IndInv, TypeInv
<1>5. GenInv'
  BY <1>3 DEF to, StoreLooks, IndInv, GenInv, Setting, OwnsMain, OwnsLooks, ClosesMain, ClosesLooks,
                 Compiling, Swapping, Closing
<1>6. StateInv'
  BY <1>3 DEF to, StoreLooks, IndInv, StateInv, Swapping
<1>7. FieldsAreOpen'
  <2>1. main' = main /\ state' = state
    BY DEF StoreLooks
  <2>2. CASE Plans = 0
    BY <2>1, <2>2 DEF IndInv, FieldsAreOpen
  <2>3. CASE Plans > 0
    <3>1. looks' = own[w] /\ pc[w] \in Swapping
      BY <2>3 DEF StoreLooks, Swapping
    <3> QED
      BY <2>1, <3>1 DEF IndInv, FieldsAreOpen, StateInv
  <2> QED
    BY <2>2, <2>3
<1>8. LeakInv'
  <2>1. \A v \in Writer : pc'[v] \in {"closeMain", "waitMain"} => plan'[v] = 1
    BY <1>3 DEF to, StoreLooks, IndInv, LeakInv, TypeInv
  <2> SUFFICES ASSUME NEW h \in Handle, state[h] = "open" PROVE Accounted(h)'
    BY <2>1 DEF StoreLooks, LeakInv
  <2>2. Accounted(h) /\ h[2] \in 0..Plans /\ h = <<h[1], h[2]>>
    BY Pairs DEF IndInv, LeakInv
  <2>3. CASE h[1] = looks /\ h[2] > 0
    <3>1. Plans > 0 /\ h \in {looks} \X (1..Plans)
      BY <2>2, <2>3
    <3>2. oldLooks[w] = looks => Pending(w, h)'
      BY <1>3, <2>3 DEF to, StoreLooks, Pending
    <3>3. oldLooks[w] # looks => h \in lost'
      BY <3>1 DEF StoreLooks
    <3> QED
      BY <3>2, <3>3 DEF Accounted
  <2>4. CASE h[1] = own[w] /\ h[2] > 0
    BY <2>2, <2>4 DEF StoreLooks, Accounted
  <2>5. CASE ~(h[1] = looks /\ h[2] > 0) /\ ~(h[1] = own[w] /\ h[2] > 0)
    <3>1. lost \subseteq lost' /\ main' = main
      BY DEF StoreLooks
    <3>2. \A v \in Writer : Pending(v, h) => Pending(v, h)'
      BY <1>3, <2>5 DEF to, StoreLooks, Pending, OwnsMain, ClosesMain, Compiling
    <3>3. state' = state
      BY DEF StoreLooks
    <3> QED
      BY <2>2, <2>5, <3>1, <3>2, <3>3 DEF Accounted
  <2> QED
    BY <2>3, <2>4, <2>5
<1> QED
  BY <1>3, <1>4, <1>5, <1>6, <1>7, <1>8 DEF IndInv

\* CompilePlan opens one more plan of a generation still private.
LEMMA CompilePlanKeeps == ASSUME IndInv, NEW w \in Writer, CompilePlan(w) PROVE IndInv'
<1>1. CallTypes(w)
  BY SetTypes
<1> USE <1>1, SetLimitsAssumption DEF Goto, fields, reading, writing, CallTypes, MatchesKept
<1> DEFINE to == IF plan[w] < Plans THEN "plans" ELSE "main"
<1>2. to \in WriterPC /\ Setting(w) /\ pc' = [pc EXCEPT ![w] = to]
  BY DEF CompilePlan, WriterPC, Setting, Compiling, Swapping, Closing
<1> HIDE DEF to
<1>3. /\ pc[w] = "plans" /\ plan[w] <= Plans /\ plan[w] \in 1..Plans
      /\ <<own[w], plan[w]>> \in Handle
      /\ state[<<own[w], plan[w]>>] = "none"
  <2>1. pc[w] = "plans" /\ plan[w] <= Plans
    BY DEF CompilePlan, IndInv, GenInv
  <2>2. plan[w] \in Nat \ {0} /\ Plans \in Nat
    BY DEF IndInv, TypeInv
  <2>3. plan[w] \in 1..Plans
    BY <2>1, <2>2
  <2>4. state[<<own[w], plan[w]>>] = "none"
    BY <2>1, <2>2, <2>3 DEF IndInv, StateInv
  <2> QED
    BY <2>1, <2>3, <2>4
<1>4. /\ \A h \in Handle : state'[h] = IF h = <<own[w], plan[w]>> THEN "open" ELSE state[h]
      /\ state' \in [Handle -> {"none", "open", "closed"}]
  BY <1>3 DEF CompilePlan, IndInv, TypeInv
<1>5. \A p \in Reader : at[p] \in Handle /\ sub[p] \in Handle
  BY DEF IndInv, TypeInv
<1>6. MatchesKept(w, to)
  <2>1. \A p \in Reader : pc[p] \in InMain => state'[at[p]] = state[at[p]]
    BY <1>3, <1>4, <1>5 DEF IndInv, ReaderInv
  <2>2. \A p \in Reader : pc[p] = "sub" => state'[sub[p]] = state[sub[p]]
    BY <1>3, <1>4, <1>5 DEF IndInv, ReaderInv
  <2>3. \A h \in Handle : state[h] # "none" => state'[h] # "none"
    BY <1>4
  <2>4. lock' = lock /\ lock \in [Handle -> LockType(Actor)]
    BY DEF CompilePlan, IndInv, TypeInv
  <2>5. UNCHANGED reading
    BY DEF CompilePlan
  <2> QED
    BY <1>2, <2>1, <2>2, <2>3, <2>4, <2>5, SetFrame
<1>7. TypeInv'
  <2>1. plan' \in [Writer -> Nat \ {0}]
    BY DEF CompilePlan, IndInv, TypeInv
  <2> QED
    BY <1>2, <1>6, <1>4, <2>1 DEF CompilePlan, IndInv, TypeInv
<1>8. GenInv'
  BY <1>6, <1>3, <1>4, Pairs DEF to, CompilePlan, IndInv, GenInv, Setting, OwnsMain, OwnsLooks, ClosesMain, ClosesLooks,
                 Compiling, Swapping, Closing
<1>9. StateInv'
  <2>1. /\ \A v \in Writer : v # w => own[v] # own[w] /\ own[v] \in Gen /\ own'[v] = own[v] /\ plan'[v] = plan[v]
        /\ gens' = gens /\ own' = own /\ own[w] <= gens /\ own[w] > 0
    BY <1>2 DEF CompilePlan, IndInv, GenInv, TypeInv
  <2>2. \A v \in Writer, k \in 0..Plans : v # w => state'[<<own[v], k>>] = state[<<own[v], k>>]
    BY <1>4, <2>1, Pairs
  <2>3. 0 \in 0..Plans /\ \A k \in 1..Plans : k \in 0..Plans
    OBVIOUS
  <2>4. \A h \in Handle : h[1] > gens' => state'[h] = "none"
    BY <1>4, <2>1, Pairs DEF IndInv, StateInv
  <2>5. state'[<<0, 0>>] # "none"
    BY <1>4, Pairs DEF IndInv, StateInv, Gen
  <2>6. \A v \in Writer : \A k \in 1..Plans : state'[<<oldLooks'[v], k>>] # "none"
    <3>1. oldLooks' = oldLooks /\ \A v \in Writer : oldLooks[v] \in Gen
      BY DEF CompilePlan, IndInv, TypeInv
    <3> QED
      BY <1>4, <2>3, <3>1, Pairs DEF IndInv, StateInv
  <2>7. \A v \in Writer : pc'[v] = "plans" =>
          /\ state'[<<own'[v], 0>>] = "none"
          /\ \A k \in 1..Plans : k < plan'[v] => state'[<<own'[v], k>>] = "open"
          /\ \A k \in 1..Plans : k >= plan'[v] => state'[<<own'[v], k>>] = "none"
    <3>1. ASSUME NEW v \in Writer, pc'[v] = "plans", v # w
          PROVE  /\ state'[<<own'[v], 0>>] = "none"
                 /\ \A k \in 1..Plans : k < plan'[v] => state'[<<own'[v], k>>] = "open"
                 /\ \A k \in 1..Plans : k >= plan'[v] => state'[<<own'[v], k>>] = "none"
      BY <1>6, <2>1, <2>2, <2>3, <3>1 DEF IndInv, StateInv
    <3>2. state'[<<own[w], 0>>] = "none"
      BY <1>3, <1>4, Pairs DEF IndInv, StateInv
    <3>3. \A k \in 1..Plans : state'[<<own[w], k>>] = IF k = plan[w] THEN "open" ELSE state[<<own[w], k>>]
      BY <1>4, <2>3, Pairs
    <3>4. plan'[w] = plan[w] + 1
      BY DEF CompilePlan, IndInv, TypeInv
    <3>5. own'[w] = own[w]
      BY <2>1
    <3>6. /\ \A k \in 1..Plans : k < plan'[w] => state'[<<own[w], k>>] = "open"
          /\ \A k \in 1..Plans : k >= plan'[w] => state'[<<own[w], k>>] = "none"
      BY <1>3, <3>3, <3>4 DEF IndInv, StateInv
    <3>7. /\ state'[<<own'[w], 0>>] = "none"
          /\ \A k \in 1..Plans : k < plan'[w] => state'[<<own'[w], k>>] = "open"
          /\ \A k \in 1..Plans : k >= plan'[w] => state'[<<own'[w], k>>] = "none"
      BY <3>2, <3>5, <3>6
    <3>8. ASSUME NEW v \in Writer, v = w
          PROVE  /\ state'[<<own'[v], 0>>] = "none"
                 /\ \A k \in 1..Plans : k < plan'[v] => state'[<<own'[v], k>>] = "open"
                 /\ \A k \in 1..Plans : k >= plan'[v] => state'[<<own'[v], k>>] = "none"
      BY <3>7, <3>8, Zenon
    <3> QED
      BY <3>1, <3>8
  <2>8. \A v \in Writer : pc'[v] \in {"loadRe", "loadLooks", "storeRe"} => state'[<<own'[v], 0>>] = "open"
    BY <1>3, <1>6, <1>4, <2>1, <2>2, <2>3, Pairs DEF to, CompilePlan, IndInv, TypeInv, StateInv
  <2>9. \A v \in Writer : pc'[v] \in {"main"} \cup Swapping =>
          \A k \in 1..Plans : state'[<<own'[v], k>>] = "open"
    BY <1>3, <1>6, <1>4, <2>1, <2>2, <2>3, Pairs DEF to, CompilePlan, IndInv, TypeInv, StateInv, Swapping
  <2> QED
    BY <2>4, <2>5, <2>7, <2>8, <2>9, <2>6 DEF StateInv
<1>10. FieldsAreOpen'
  BY <1>6, <1>3, <1>4, Pairs DEF to, CompilePlan, IndInv, FieldsAreOpen, StateInv
<1>11. LeakInv'
  <2>1. \A v \in Writer : pc'[v] \in {"closeMain", "waitMain"} => plan'[v] = 1
    BY <1>6 DEF to, CompilePlan, IndInv, LeakInv, TypeInv
  <2> SUFFICES ASSUME NEW h \in Handle, state'[h] = "open" PROVE Accounted(h)'
    BY <2>1 DEF LeakInv
  <2>2. h[2] \in 0..Plans /\ h = <<h[1], h[2]>>
    BY Pairs
  <2>3. CASE h[1] = own[w]
    BY <1>6, <2>3 DEF to, CompilePlan, Accounted, Pending, OwnsMain, Compiling
  <2>4. CASE h[1] # own[w]
    <3>1. Accounted(h)
      BY <1>4, <2>4 DEF IndInv, LeakInv
    <3>2. \A v \in Writer : Pending(v, h) => Pending(v, h)'
      BY <1>6, <2>4 DEF to, CompilePlan, Pending, OwnsMain, ClosesMain, IndInv, TypeInv
    <3>3. state'[<<h[1], Plans>>] = state[<<h[1], Plans>>]
      BY <1>3, <1>4, <2>4, Pairs
    <3> QED
      BY <3>1, <3>2, <3>3 DEF CompilePlan, Accounted
  <2> QED
    BY <2>3, <2>4
<1> QED
  BY <1>6, <1>7, <1>8, <1>9, <1>10, <1>11 DEF IndInv

\* CompileMain opens the pattern of a generation still private.
LEMMA CompileMainKeeps == ASSUME IndInv, NEW w \in Writer, CompileMain(w) PROVE IndInv'
<1>1. CallTypes(w)
  BY SetTypes
<1> USE <1>1, SetLimitsAssumption DEF Goto, fields, reading, writing, CallTypes, MatchesKept
<1> DEFINE to == "loadRe"
<1>2. to \in WriterPC /\ Setting(w) /\ pc' = [pc EXCEPT ![w] = to]
  BY DEF CompileMain, WriterPC, Setting, Compiling, Swapping, Closing
<1> HIDE DEF to
<1>3. pc[w] = "main" /\ <<own[w], 0>> \in Handle
  BY DEF CompileMain
<1>4. /\ \A h \in Handle : state'[h] = IF h = <<own[w], 0>> THEN "open" ELSE state[h]
      /\ state' \in [Handle -> {"none", "open", "closed"}]
  BY <1>3 DEF CompileMain, IndInv, TypeInv
<1>5. \A p \in Reader : at[p] \in Handle /\ sub[p] \in Handle /\ at[p] # <<own[w], 0>> /\ (pc[p] = "sub" => sub[p] # <<own[w], 0>>)
  BY <1>3 DEF IndInv, TypeInv, GenInv, ReaderInv, OwnsMain, InCallout, Compiling
<1>6. MatchesKept(w, to)
  <2>1. \A p \in Reader : pc[p] \in InMain => state'[at[p]] = state[at[p]]
    BY <1>4, <1>5
  <2>2. \A p \in Reader : pc[p] = "sub" => state'[sub[p]] = state[sub[p]]
    BY <1>4, <1>5
  <2>3. \A h \in Handle : state[h] # "none" => state'[h] # "none"
    BY <1>4
  <2>4. lock' = lock /\ lock \in [Handle -> LockType(Actor)]
    BY DEF CompileMain, IndInv, TypeInv
  <2>5. UNCHANGED reading
    BY DEF CompileMain
  <2> QED
    BY <1>2, <2>1, <2>2, <2>3, <2>4, <2>5, SetFrame
<1>7. TypeInv'
  BY <1>2, <1>6, <1>3, <1>4, Pairs DEF CompileMain, IndInv, TypeInv
<1>8. GenInv'
  BY <1>6, <1>3, <1>4, Pairs DEF to, CompileMain, IndInv, GenInv, Setting, OwnsMain, OwnsLooks, ClosesMain, ClosesLooks,
                 Compiling, Swapping, Closing
<1>9. StateInv'
  <2>1. /\ \A v \in Writer : v # w => own[v] # own[w] /\ own[v] \in Gen /\ own'[v] = own[v] /\ plan'[v] = plan[v]
        /\ gens' = gens /\ own' = own /\ own[w] <= gens /\ own[w] > 0
    BY <1>2 DEF CompileMain, IndInv, GenInv, TypeInv
  <2>2. \A v \in Writer, k \in 0..Plans : v # w => state'[<<own[v], k>>] = state[<<own[v], k>>]
    BY <1>4, <2>1, Pairs
  <2>3. 0 \in 0..Plans /\ \A k \in 1..Plans : k \in 0..Plans
    OBVIOUS
  <2>4. \A h \in Handle : h[1] > gens' => state'[h] = "none"
    BY <1>4, <2>1, Pairs DEF IndInv, StateInv
  <2>5. state'[<<0, 0>>] # "none"
    BY <1>4, Pairs DEF IndInv, StateInv, Gen
  <2>6. \A v \in Writer : \A k \in 1..Plans : state'[<<oldLooks'[v], k>>] # "none"
    <3>1. oldLooks' = oldLooks /\ \A v \in Writer : oldLooks[v] \in Gen
      BY DEF CompileMain, IndInv, TypeInv
    <3> QED
      BY <1>4, <2>3, <3>1, Pairs DEF IndInv, StateInv
  <2>7. \A v \in Writer : pc'[v] = "plans" =>
          /\ state'[<<own'[v], 0>>] = "none"
          /\ \A k \in 1..Plans : k < plan'[v] => state'[<<own'[v], k>>] = "open"
          /\ \A k \in 1..Plans : k >= plan'[v] => state'[<<own'[v], k>>] = "none"
    BY <1>3, <1>6, <1>4, <2>1, <2>2, <2>3, Pairs DEF to, CompileMain, IndInv, TypeInv, StateInv
  <2>8. \A v \in Writer : pc'[v] \in {"loadRe", "loadLooks", "storeRe"} => state'[<<own'[v], 0>>] = "open"
    BY <1>3, <1>6, <1>4, <2>1, <2>2, <2>3, Pairs DEF to, CompileMain, IndInv, TypeInv, StateInv
  <2>9. \A v \in Writer : pc'[v] \in {"main"} \cup Swapping =>
          \A k \in 1..Plans : state'[<<own'[v], k>>] = "open"
    BY <1>3, <1>6, <1>4, <2>1, <2>2, <2>3, Pairs DEF to, CompileMain, IndInv, TypeInv, StateInv, Swapping
  <2> QED
    BY <2>4, <2>5, <2>7, <2>8, <2>9, <2>6 DEF StateInv
<1>10. FieldsAreOpen'
  BY <1>6, <1>3, <1>4, Pairs DEF to, CompileMain, IndInv, FieldsAreOpen, StateInv
<1>11. LeakInv'
  <2>1. \A v \in Writer : pc'[v] \in {"closeMain", "waitMain"} => plan'[v] = 1
    BY <1>6 DEF to, CompileMain, IndInv, LeakInv
  <2> SUFFICES ASSUME NEW h \in Handle, state'[h] = "open" PROVE Accounted(h)'
    BY <2>1 DEF LeakInv
  <2>2. h[2] \in 0..Plans /\ h = <<h[1], h[2]>>
    BY Pairs
  <2>3. CASE h[1] = own[w]
    BY <1>6, <2>3 DEF to, CompileMain, Accounted, Pending, OwnsMain
  <2>4. CASE h[1] # own[w]
    <3>1. Accounted(h)
      BY <1>4, <2>4 DEF IndInv, LeakInv
    <3>2. \A v \in Writer : Pending(v, h) => Pending(v, h)'
      BY <1>6, <2>4 DEF to, CompileMain, Pending, OwnsMain, ClosesMain
    <3>3. h[2] > 0 => state'[<<h[1], Plans>>] = state[<<h[1], Plans>>]
      BY <1>3, <1>4, <2>2, <2>4, Pairs
    <3> QED
      BY <3>1, <3>2, <3>3 DEF CompileMain, Accounted
  <2> QED
    BY <2>3, <2>4
<1> QED
  BY <1>6, <1>7, <1>8, <1>9, <1>10, <1>11 DEF IndInv

\* CompileMainFails closes a generation still private.
LEMMA CompileMainFailsKeeps == ASSUME IndInv, NEW w \in Writer, CompileMainFails(w) PROVE IndInv'
<1>1. CallTypes(w)
  BY SetTypes
<1> USE <1>1, SetLimitsAssumption DEF Goto, fields, reading, writing, CallTypes, MatchesKept
<1> DEFINE to == "idle"
<1>2. to \in WriterPC /\ Setting(w) /\ pc' = [pc EXCEPT ![w] = to]
  BY DEF CompileMainFails, WriterPC, Setting, Compiling, Swapping, Closing
<1> HIDE DEF to
<1>3. pc[w] = "main"
  BY DEF CompileMainFails
<1>4. /\ \A h \in Handle : state'[h] = IF h[1] = own[w] /\ state[h] = "open" THEN "closed" ELSE state[h]
      /\ state' \in [Handle -> {"none", "open", "closed"}]
  <2>1. \A h \in Handle : state'[h] = IF h[1] = own[w] /\ state[h] = "open" THEN "closed" ELSE state[h]
    BY DEF CompileMainFails
  <2>2. state' = [h \in Handle |-> state'[h]]
    BY DEF CompileMainFails
  <2>3. \A h \in Handle : state'[h] \in {"none", "open", "closed"}
    BY <2>1 DEF IndInv, TypeInv
  <2> QED
    BY <2>1, <2>2, <2>3
<1>5. \A p \in Reader : at[p] \in Handle /\ sub[p] \in Handle /\ at[p][1] # own[w] /\ sub[p][1] # own[w]
  BY <1>3 DEF IndInv, TypeInv, GenInv, OwnsMain, OwnsLooks, Compiling
<1>6. MatchesKept(w, to)
  <2>1. \A p \in Reader : pc[p] \in InMain => state'[at[p]] = state[at[p]]
    BY <1>4, <1>5
  <2>2. \A p \in Reader : pc[p] = "sub" => state'[sub[p]] = state[sub[p]]
    BY <1>4, <1>5
  <2>3. \A h \in Handle : state[h] # "none" => state'[h] # "none"
    BY <1>4
  <2>4. lock' = lock /\ lock \in [Handle -> LockType(Actor)]
    BY DEF CompileMainFails, IndInv, TypeInv
  <2>5. UNCHANGED reading
    BY DEF CompileMainFails
  <2> QED
    BY <1>2, <2>1, <2>2, <2>3, <2>4, <2>5, SetFrame
<1>7. TypeInv'
  BY <1>2, <1>6, <1>3, <1>4, Pairs DEF CompileMainFails, IndInv, TypeInv
<1>8. GenInv'
  BY <1>6, <1>3, <1>4, Pairs DEF to, CompileMainFails, IndInv, GenInv, Setting, OwnsMain, OwnsLooks, ClosesMain, ClosesLooks,
                 Compiling, Swapping, Closing
<1>9. StateInv'
  <2>1. /\ \A v \in Writer : v # w => own[v] # own[w] /\ own[v] \in Gen /\ own'[v] = own[v] /\ plan'[v] = plan[v]
        /\ gens' = gens /\ own' = own /\ own[w] <= gens /\ own[w] > 0
    BY <1>2 DEF CompileMainFails, IndInv, GenInv, TypeInv
  <2>2. \A v \in Writer, k \in 0..Plans : v # w => state'[<<own[v], k>>] = state[<<own[v], k>>]
    BY <1>4, <2>1, Pairs
  <2>3. 0 \in 0..Plans /\ \A k \in 1..Plans : k \in 0..Plans
    OBVIOUS
  <2>4. \A h \in Handle : h[1] > gens' => state'[h] = "none"
    BY <1>4, <2>1, Pairs DEF IndInv, StateInv
  <2>5. state'[<<0, 0>>] # "none"
    BY <1>4, Pairs DEF IndInv, StateInv, Gen
  <2>6. \A v \in Writer : \A k \in 1..Plans : state'[<<oldLooks'[v], k>>] # "none"
    <3>1. oldLooks' = oldLooks /\ \A v \in Writer : oldLooks[v] \in Gen
      BY DEF CompileMainFails, IndInv, TypeInv
    <3> QED
      BY <1>4, <2>3, <3>1, Pairs DEF IndInv, StateInv
  <2>7. \A v \in Writer : pc'[v] = "plans" =>
          /\ state'[<<own'[v], 0>>] = "none"
          /\ \A k \in 1..Plans : k < plan'[v] => state'[<<own'[v], k>>] = "open"
          /\ \A k \in 1..Plans : k >= plan'[v] => state'[<<own'[v], k>>] = "none"
    BY <1>3, <1>6, <1>4, <2>1, <2>2, <2>3, Pairs DEF to, CompileMainFails, IndInv, TypeInv, StateInv
  <2>8. \A v \in Writer : pc'[v] \in {"loadRe", "loadLooks", "storeRe"} => state'[<<own'[v], 0>>] = "open"
    BY <1>3, <1>6, <1>4, <2>1, <2>2, <2>3, Pairs DEF to, CompileMainFails, IndInv, TypeInv, StateInv
  <2>9. \A v \in Writer : pc'[v] \in {"main"} \cup Swapping =>
          \A k \in 1..Plans : state'[<<own'[v], k>>] = "open"
    BY <1>3, <1>6, <1>4, <2>1, <2>2, <2>3, Pairs DEF to, CompileMainFails, IndInv, TypeInv, StateInv, Swapping
  <2> QED
    BY <2>4, <2>5, <2>7, <2>8, <2>9, <2>6 DEF StateInv
<1>10. FieldsAreOpen'
  <2>1. own[w] # main /\ own[w] # looks /\ main' = main /\ looks' = looks
    BY <1>3 DEF CompileMainFails, IndInv, GenInv, OwnsMain, OwnsLooks, Compiling
  <2> QED
    BY <1>4, <2>1, Pairs DEF IndInv, FieldsAreOpen
<1>11. LeakInv'
  <2>1. \A v \in Writer : pc'[v] \in {"closeMain", "waitMain"} => plan'[v] = 1
    BY <1>6 DEF to, CompileMainFails, IndInv, LeakInv
  <2> SUFFICES ASSUME NEW h \in Handle, state'[h] = "open" PROVE Accounted(h)'
    BY <2>1 DEF LeakInv
  <2>2. h[2] \in 0..Plans /\ h = <<h[1], h[2]>> /\ h[1] # own[w] /\ state[h] = "open"
    BY <1>4, Pairs
  <2>3. Accounted(h)
    BY <2>2 DEF IndInv, LeakInv
  <2>4. \A v \in Writer : Pending(v, h) => Pending(v, h)'
    BY <1>3, <1>6, <2>2 DEF to, CompileMainFails, Pending, OwnsMain, ClosesMain
  <2>5. h[2] > 0 => state'[<<h[1], Plans>>] = state[<<h[1], Plans>>]
    BY <1>4, <2>2, Pairs
  <2> QED
    BY <2>3, <2>4, <2>5 DEF CompileMainFails, Accounted
<1> QED
  BY <1>6, <1>7, <1>8, <1>9, <1>10, <1>11 DEF IndInv

\* Announcing a writer, and its unlocking, take nothing from the readers.
LEMMA WriterLockSteps ==
    ASSUME lock \in [Handle -> LockType(Actor)], NEW w \in Actor, NEW h \in Handle,
           \/ lock' = [lock EXCEPT ![h] = Announce(@, w)]
           \/ lock' = [lock EXCEPT ![h] = Unlock(@)]
    PROVE  /\ lock' \in [Handle -> LockType(Actor)]
           /\ \A g \in Handle, p \in Reader : p \in lock[g].readers => p \in lock'[g].readers
<1>1. /\ Announce(lock[h], w) \in LockType(Actor) /\ Announce(lock[h], w).readers = lock[h].readers
      /\ Unlock(lock[h]) \in LockType(Actor) /\ lock[h].readers \subseteq Unlock(lock[h]).readers
  BY LockSteps
<1>2. CASE lock' = [lock EXCEPT ![h] = Announce(@, w)]
  <2>1. \A g \in Handle : lock'[g] = IF g = h THEN Announce(lock[h], w) ELSE lock[g]
    BY <1>2
  <2> QED
    BY <1>1, <1>2, <2>1
<1>3. CASE lock' = [lock EXCEPT ![h] = Unlock(@)]
  <2>1. \A g \in Handle : lock'[g] = IF g = h THEN Unlock(lock[h]) ELSE lock[g]
    BY <1>3
  <2> QED
    BY <1>1, <1>3, <2>1
<1> QED
  BY <1>2, <1>3

\* Announcing a Close of the pattern replaced frees nothing yet.
LEMMA AnnounceMainKeeps ==
    ASSUME IndInv, NEW w \in Writer,
           Goto(w, "closeMain", "waitMain"), AnnounceClose(w, <<old[w], 0>>),
           UNCHANGED <<fields, gens, state, reading, writing, lost>>
    PROVE  IndInv'
<1>1. CallTypes(w)
  BY SetTypes
<1> USE <1>1, SetLimitsAssumption DEF Goto, fields, reading, writing, CallTypes, MatchesKept
<1> DEFINE to == "waitMain"
<1>2. to \in WriterPC /\ Setting(w) /\ pc' = [pc EXCEPT ![w] = to]
  BY DEF WriterPC, Setting, Compiling, Swapping, Closing
<1> HIDE DEF to
<1>3. <<old[w], 0>> \in Handle
  BY DEF AnnounceClose
<1>4. state' = state
  OBVIOUS
<1>5. \A p \in Reader : at[p] \in Handle /\ sub[p] \in Handle
  BY DEF IndInv, TypeInv
<1>6. /\ lock' \in [Handle -> LockType(Actor)]
       /\ \A g \in Handle, p \in Reader : p \in lock[g].readers => p \in lock'[g].readers
  BY <1>3, WriterLockSteps DEF AnnounceClose, IndInv, TypeInv
<1>7. MatchesKept(w, to)
  <2>1. \A p \in Reader : pc[p] \in InMain => state'[at[p]] = state[at[p]]
    BY <1>4, <1>5
  <2>2. \A p \in Reader : pc[p] = "sub" => state'[sub[p]] = state[sub[p]]
    BY <1>4, <1>5
  <2>3. \A h \in Handle : state[h] # "none" => state'[h] # "none"
    BY <1>4
  <2>4. /\ lock' \in [Handle -> LockType(Actor)]
        /\ \A g \in Handle, p \in Reader : p \in lock[g].readers => p \in lock'[g].readers
    BY <1>6
  <2>5. UNCHANGED reading
    BY DEF AnnounceClose
  <2> QED
    BY <1>2, <2>1, <2>2, <2>3, <2>4, <2>5, SetFrame
<1>8. TypeInv'
  BY <1>2, <1>7, <1>4, <1>6 DEF AnnounceClose, IndInv, TypeInv
<1>9. GenInv'
  BY <1>7, <1>4 DEF to, AnnounceClose, IndInv, GenInv, LeakInv, TypeInv, Setting, OwnsMain, OwnsLooks, ClosesMain, ClosesLooks,
                 Compiling, Swapping, Closing
<1>10. StateInv'
  BY <1>7, <1>4 DEF to, AnnounceClose, IndInv, StateInv, Swapping
<1>11. FieldsAreOpen'
  BY <1>4 DEF IndInv, FieldsAreOpen
<1>12. LeakInv'
  BY <1>7, <1>4 DEF to, IndInv, LeakInv, Accounted, Pending, OwnsMain, ClosesMain, Compiling
<1> QED
  BY <1>7, <1>8, <1>9, <1>10, <1>11, <1>12 DEF IndInv

\* Announcing a Close of a plan replaced frees nothing yet.
LEMMA AnnouncePlanKeeps ==
    ASSUME IndInv, NEW w \in Writer,
           Goto(w, "closePlans", "waitPlan"), AnnounceClose(w, <<oldLooks[w], plan[w]>>),
           UNCHANGED <<fields, gens, state, reading, writing, lost>>
    PROVE  IndInv'
<1>1. CallTypes(w)
  BY SetTypes
<1> USE <1>1, SetLimitsAssumption DEF Goto, fields, reading, writing, CallTypes, MatchesKept
<1> DEFINE to == "waitPlan"
<1>2. to \in WriterPC /\ Setting(w) /\ pc' = [pc EXCEPT ![w] = to]
  BY DEF WriterPC, Setting, Compiling, Swapping, Closing
<1> HIDE DEF to
<1>3. <<oldLooks[w], plan[w]>> \in Handle /\ plan[w] \in 1..Plans
  <2>1. plan[w] <= Plans
    BY DEF IndInv, GenInv
  <2> QED
    BY <2>1
<1>4. state' = state
  OBVIOUS
<1>5. \A p \in Reader : at[p] \in Handle /\ sub[p] \in Handle
  BY DEF IndInv, TypeInv
<1>6. /\ lock' \in [Handle -> LockType(Actor)]
       /\ \A g \in Handle, p \in Reader : p \in lock[g].readers => p \in lock'[g].readers
  BY <1>3, WriterLockSteps DEF AnnounceClose, IndInv, TypeInv
<1>7. MatchesKept(w, to)
  <2>1. \A p \in Reader : pc[p] \in InMain => state'[at[p]] = state[at[p]]
    BY <1>4, <1>5
  <2>2. \A p \in Reader : pc[p] = "sub" => state'[sub[p]] = state[sub[p]]
    BY <1>4, <1>5
  <2>3. \A h \in Handle : state[h] # "none" => state'[h] # "none"
    BY <1>4
  <2>4. /\ lock' \in [Handle -> LockType(Actor)]
        /\ \A g \in Handle, p \in Reader : p \in lock[g].readers => p \in lock'[g].readers
    BY <1>6
  <2>5. UNCHANGED reading
    BY DEF AnnounceClose
  <2> QED
    BY <1>2, <2>1, <2>2, <2>3, <2>4, <2>5, SetFrame
<1>8. TypeInv'
  BY <1>2, <1>7, <1>4, <1>6 DEF AnnounceClose, IndInv, TypeInv
<1>9. GenInv'
  BY <1>7, <1>4 DEF to, AnnounceClose, IndInv, GenInv, LeakInv, TypeInv, Setting, OwnsMain, OwnsLooks, ClosesMain, ClosesLooks,
                 Compiling, Swapping, Closing
<1>10. StateInv'
  BY <1>7, <1>4 DEF to, AnnounceClose, IndInv, StateInv, Swapping
<1>11. FieldsAreOpen'
  BY <1>4 DEF IndInv, FieldsAreOpen
<1>12. LeakInv'
  BY <1>7, <1>4 DEF to, IndInv, LeakInv, Accounted, Pending, OwnsMain, ClosesMain, Compiling
<1> QED
  BY <1>7, <1>8, <1>9, <1>10, <1>11, <1>12 DEF IndInv

\* The pattern replaced is freed when no match is inside, and it is not what
\* re.re points to.
LEMMA FinishMainKeeps ==
    ASSUME IndInv, NEW w \in Writer,
           Goto(w, "waitMain", IF Plans > 0 THEN "closePlans" ELSE "idle"), FinishClose(w, <<old[w], 0>>),
           UNCHANGED <<fields, gens, reading, writing, lost>>
    PROVE  IndInv'
<1>1. CallTypes(w)
  BY SetTypes
<1> USE <1>1, SetLimitsAssumption DEF Goto, fields, reading, writing, CallTypes, MatchesKept
<1> DEFINE to == IF Plans > 0 THEN "closePlans" ELSE "idle"
<1>2. to \in WriterPC /\ Setting(w) /\ pc' = [pc EXCEPT ![w] = to]
  BY DEF WriterPC, Setting, Compiling, Swapping, Closing
<1> HIDE DEF to
<1>3. <<old[w], 0>> \in Handle
  BY DEF AnnounceClose
<1>4. /\ \A h \in Handle : state'[h] = IF h = <<old[w], 0>> THEN "closed" ELSE state[h]
      /\ state' \in [Handle -> {"none", "open", "closed"}]
  BY <1>3 DEF FinishClose, IndInv, TypeInv
<1>5. /\ \A p \in Reader : at[p] \in Handle /\ sub[p] \in Handle
      /\ \A p \in Reader : pc[p] \in InMain => at[p] # <<old[w], 0>>
      /\ \A p \in Reader : pc[p] = "sub" => sub[p] # <<old[w], 0>>
  BY DEF FinishClose, Inside, IndInv, TypeInv, ReaderInv
<1>6. /\ lock' \in [Handle -> LockType(Actor)]
       /\ \A g \in Handle, p \in Reader : p \in lock[g].readers => p \in lock'[g].readers
  BY <1>3, WriterLockSteps DEF FinishClose, IndInv, TypeInv
<1>7. MatchesKept(w, to)
  <2>1. \A p \in Reader : pc[p] \in InMain => state'[at[p]] = state[at[p]]
    BY <1>4, <1>5
  <2>2. \A p \in Reader : pc[p] = "sub" => state'[sub[p]] = state[sub[p]]
    BY <1>4, <1>5
  <2>3. \A h \in Handle : state[h] # "none" => state'[h] # "none"
    BY <1>4
  <2>4. /\ lock' \in [Handle -> LockType(Actor)]
        /\ \A g \in Handle, p \in Reader : p \in lock[g].readers => p \in lock'[g].readers
    BY <1>6
  <2>5. UNCHANGED reading
    BY DEF FinishClose
  <2> QED
    BY <1>2, <2>1, <2>2, <2>3, <2>4, <2>5, SetFrame
<1>8. TypeInv'
  BY <1>2, <1>7, <1>4, <1>6 DEF FinishClose, IndInv, TypeInv
<1>9. GenInv'
  BY <1>7, <1>4 DEF to, FinishClose, IndInv, GenInv, LeakInv, TypeInv, Setting, OwnsMain, OwnsLooks, ClosesMain, ClosesLooks,
                 Compiling, Swapping, Closing
<1>10. StateInv'
  <2>1. /\ gens' = gens /\ own' = own /\ oldLooks' = oldLooks /\ main' = main /\ looks' = looks
        /\ \A v \in Writer : own[v] \in Gen /\ oldLooks[v] \in Gen
        /\ \A v \in Writer : OwnsMain(v) => own[v] # old[w]
    BY DEF IndInv, TypeInv, GenInv
  <2>2. 0 \in 0..Plans /\ \A k \in 1..Plans : k \in 0..Plans
    OBVIOUS
  <2>3. \A v \in Writer, k \in 0..Plans : OwnsMain(v) \/ k > 0 =>
           state'[<<own[v], k>>] = state[<<own[v], k>>]
    BY <1>3, <1>4, <2>1, Pairs
  <2>4. \A h \in Handle : h[1] > gens' => state'[h] = "none"
    BY <1>4, <2>1, Pairs DEF IndInv, StateInv, GenInv
  <2>5. /\ state'[<<0, 0>>] # "none"
        /\ \A v \in Writer : \A k \in 1..Plans : state'[<<oldLooks'[v], k>>] # "none"
    BY <1>4, <2>1, <2>2, Pairs DEF IndInv, StateInv, Gen
  <2>6. \A v \in Writer : pc'[v] = "plans" =>
          /\ state'[<<own'[v], 0>>] = "none"
          /\ \A k \in 1..Plans : k < plan'[v] => state'[<<own'[v], k>>] = "open"
          /\ \A k \in 1..Plans : k >= plan'[v] => state'[<<own'[v], k>>] = "none"
    <3> SUFFICES ASSUME NEW v \in Writer, pc'[v] = "plans"
                 PROVE  /\ state'[<<own[v], 0>>] = "none"
                        /\ \A k \in 1..Plans : k < plan[v] => state'[<<own[v], k>>] = "open"
                        /\ \A k \in 1..Plans : k >= plan[v] => state'[<<own[v], k>>] = "none"
      BY <1>7, <2>1 DEF to, IndInv, TypeInv
    <3>1. v # w /\ pc[v] = "plans"
      BY <1>7 DEF to
    <3> QED
      BY <2>2, <2>3, <3>1 DEF IndInv, StateInv, OwnsMain, OwnsLooks, Compiling
  <2>7. \A v \in Writer : pc'[v] \in {"loadRe", "loadLooks", "storeRe"} => state'[<<own'[v], 0>>] = "open"
    BY <1>7, <2>1, <2>2, <2>3 DEF to, IndInv, StateInv, OwnsMain, OwnsLooks, Swapping
  <2>8. \A v \in Writer : pc'[v] \in {"main"} \cup Swapping =>
          \A k \in 1..Plans : state'[<<own'[v], k>>] = "open"
    BY <1>7, <2>1, <2>2, <2>3 DEF to, IndInv, StateInv, OwnsMain, OwnsLooks, Swapping, Compiling
  <2> QED
    BY <2>4, <2>5, <2>6, <2>7, <2>8 DEF StateInv
<1>11. FieldsAreOpen'
  <2>1. old[w] # main
    BY DEF IndInv, GenInv, ClosesMain
  <2> QED
    BY <1>4, <2>1, Pairs DEF IndInv, FieldsAreOpen
<1>12. LeakInv'
  <2>1. \A v \in Writer : pc'[v] \in {"closeMain", "waitMain"} => plan'[v] = 1
    BY <1>7 DEF to, IndInv, LeakInv
  <2> SUFFICES ASSUME NEW h \in Handle, state'[h] = "open" PROVE Accounted(h)'
    BY <2>1 DEF LeakInv
  <2>2. h[2] \in 0..Plans /\ h # <<old[w], 0>> /\ state[h] = "open"
    BY <1>4, Pairs
  <2>3. Accounted(h)
    BY <2>2 DEF IndInv, LeakInv
  <2>4. \A v \in Writer : v # w => (Pending(v, h) => Pending(v, h)')
    BY <1>7 DEF Pending, OwnsMain, ClosesMain
  <2>5. Pending(w, h) => Pending(w, h)'
    <3>1. pc[w] = "waitMain" /\ plan[w] = 1
      BY DEF IndInv, LeakInv
    <3>2. Pending(w, h) => h[1] = oldLooks[w] /\ h[2] > 0
      BY <2>2, <3>1 DEF Pending, OwnsMain, ClosesMain, Compiling
    <3> QED
      BY <1>7, <2>2, <3>1, <3>2 DEF to, Pending
  <2>6. h[2] > 0 => state'[<<h[1], Plans>>] = state[<<h[1], Plans>>]
    BY <1>4, <2>2, Pairs
  <2> QED
    BY <2>3, <2>4, <2>5, <2>6 DEF Accounted
<1> QED
  BY <1>7, <1>8, <1>9, <1>10, <1>11, <1>12 DEF IndInv

\* A plan replaced is freed when no match is inside, and it is not one
\* re.lookbehinds points to.
LEMMA FinishPlanKeeps ==
    ASSUME IndInv, NEW w \in Writer,
           Goto(w, "waitPlan", IF plan[w] < Plans THEN "closePlans" ELSE "idle"), FinishClose(w, <<oldLooks[w], plan[w]>>),
           plan' = [plan EXCEPT ![w] = @ + 1], UNCHANGED <<fields, gens, reading, own, old, oldLooks, lost>>
    PROVE  IndInv'
<1>1. CallTypes(w)
  BY SetTypes
<1> USE <1>1, SetLimitsAssumption DEF Goto, fields, reading, writing, CallTypes, MatchesKept
<1> DEFINE to == IF plan[w] < Plans THEN "closePlans" ELSE "idle"
<1>2. to \in WriterPC /\ Setting(w) /\ pc' = [pc EXCEPT ![w] = to]
  BY DEF WriterPC, Setting, Compiling, Swapping, Closing
<1> HIDE DEF to
<1>3. <<oldLooks[w], plan[w]>> \in Handle /\ plan[w] \in 1..Plans
  <2>1. plan[w] <= Plans
    BY DEF IndInv, GenInv
  <2> QED
    BY <2>1
<1>4. /\ \A h \in Handle : state'[h] = IF h = <<oldLooks[w], plan[w]>> THEN "closed" ELSE state[h]
      /\ state' \in [Handle -> {"none", "open", "closed"}]
  BY <1>3 DEF FinishClose, IndInv, TypeInv
<1>5. /\ \A p \in Reader : at[p] \in Handle /\ sub[p] \in Handle
      /\ \A p \in Reader : pc[p] \in InMain => at[p] # <<oldLooks[w], plan[w]>>
      /\ \A p \in Reader : pc[p] = "sub" => sub[p] # <<oldLooks[w], plan[w]>>
  BY DEF FinishClose, Inside, IndInv, TypeInv, ReaderInv
<1>6. /\ lock' \in [Handle -> LockType(Actor)]
       /\ \A g \in Handle, p \in Reader : p \in lock[g].readers => p \in lock'[g].readers
  BY <1>3, WriterLockSteps DEF FinishClose, IndInv, TypeInv
<1>7. MatchesKept(w, to)
  <2>1. \A p \in Reader : pc[p] \in InMain => state'[at[p]] = state[at[p]]
    BY <1>4, <1>5
  <2>2. \A p \in Reader : pc[p] = "sub" => state'[sub[p]] = state[sub[p]]
    BY <1>4, <1>5
  <2>3. \A h \in Handle : state[h] # "none" => state'[h] # "none"
    BY <1>4
  <2>4. /\ lock' \in [Handle -> LockType(Actor)]
        /\ \A g \in Handle, p \in Reader : p \in lock[g].readers => p \in lock'[g].readers
    BY <1>6
  <2>5. UNCHANGED reading
    BY DEF FinishClose
  <2> QED
    BY <1>2, <2>1, <2>2, <2>3, <2>4, <2>5, SetFrame
<1>8. TypeInv'
  <2>1. plan' \in [Writer -> Nat \ {0}]
    BY DEF IndInv, TypeInv
  <2> QED
    BY <1>2, <1>7, <1>4, <1>6, <2>1 DEF IndInv, TypeInv
<1>9. GenInv'
  BY <1>7, <1>4 DEF to, FinishClose, IndInv, GenInv, LeakInv, TypeInv, Setting, OwnsMain, OwnsLooks, ClosesMain, ClosesLooks,
                 Compiling, Swapping, Closing
<1>10. StateInv'
  <2>1. /\ gens' = gens /\ own' = own /\ oldLooks' = oldLooks /\ main' = main /\ looks' = looks
        /\ \A v \in Writer : own[v] \in Gen /\ oldLooks[v] \in Gen
        /\ \A v \in Writer : OwnsLooks(v) => own[v] # oldLooks[w]
    BY DEF IndInv, TypeInv, GenInv
  <2>2. 0 \in 0..Plans /\ \A k \in 1..Plans : k \in 0..Plans
    OBVIOUS
  <2>3. \A v \in Writer, k \in 0..Plans : OwnsLooks(v) \/ k = 0 =>
           state'[<<own[v], k>>] = state[<<own[v], k>>]
    BY <1>3, <1>4, <2>1, Pairs
  <2>4. \A h \in Handle : h[1] > gens' => state'[h] = "none"
    BY <1>4, <2>1, Pairs DEF IndInv, StateInv, GenInv
  <2>5. /\ state'[<<0, 0>>] # "none"
        /\ \A v \in Writer : \A k \in 1..Plans : state'[<<oldLooks'[v], k>>] # "none"
    BY <1>4, <2>1, <2>2, Pairs DEF IndInv, StateInv, Gen
  <2>6. \A v \in Writer : pc'[v] = "plans" =>
          /\ state'[<<own'[v], 0>>] = "none"
          /\ \A k \in 1..Plans : k < plan'[v] => state'[<<own'[v], k>>] = "open"
          /\ \A k \in 1..Plans : k >= plan'[v] => state'[<<own'[v], k>>] = "none"
    <3> SUFFICES ASSUME NEW v \in Writer, pc'[v] = "plans"
                 PROVE  /\ state'[<<own[v], 0>>] = "none"
                        /\ \A k \in 1..Plans : k < plan[v] => state'[<<own[v], k>>] = "open"
                        /\ \A k \in 1..Plans : k >= plan[v] => state'[<<own[v], k>>] = "none"
      BY <1>7, <2>1 DEF to, IndInv, TypeInv
    <3>1. v # w /\ pc[v] = "plans"
      BY <1>7 DEF to
    <3> QED
      BY <2>2, <2>3, <3>1 DEF IndInv, StateInv, OwnsMain, OwnsLooks, Compiling
  <2>7. \A v \in Writer : pc'[v] \in {"loadRe", "loadLooks", "storeRe"} => state'[<<own'[v], 0>>] = "open"
    BY <1>7, <2>1, <2>2, <2>3 DEF to, IndInv, StateInv, OwnsMain, OwnsLooks, Swapping
  <2>8. \A v \in Writer : pc'[v] \in {"main"} \cup Swapping =>
          \A k \in 1..Plans : state'[<<own'[v], k>>] = "open"
    BY <1>7, <2>1, <2>2, <2>3 DEF to, IndInv, StateInv, OwnsMain, OwnsLooks, Swapping, Compiling
  <2> QED
    BY <2>4, <2>5, <2>6, <2>7, <2>8 DEF StateInv
<1>11. FieldsAreOpen'
  <2>1. oldLooks[w] # looks
    BY <1>3 DEF IndInv, GenInv, ClosesLooks, Closing
  <2> QED
    BY <1>3, <1>4, <2>1, Pairs DEF IndInv, FieldsAreOpen
<1>12. LeakInv'
  <2>1. \A v \in Writer : pc'[v] \in {"closeMain", "waitMain"} => plan'[v] = 1
    BY <1>7 DEF to, IndInv, LeakInv, TypeInv
  <2> SUFFICES ASSUME NEW h \in Handle, state'[h] = "open" PROVE Accounted(h)'
    BY <2>1 DEF LeakInv
  <2>2. h[2] \in 0..Plans /\ h = <<h[1], h[2]>> /\ h # <<oldLooks[w], plan[w]>> /\ state[h] = "open"
    BY <1>4, Pairs
  <2>3. Accounted(h)
    BY <2>2 DEF IndInv, LeakInv
  <2>4. \A v \in Writer : v # w => (Pending(v, h) => Pending(v, h)')
    BY <1>7 DEF Pending, OwnsMain, ClosesMain, IndInv, TypeInv
  <2>5. Pending(w, h) => Pending(w, h)'
    <3>1. Pending(w, h) => h[1] = oldLooks[w] /\ h[2] >= plan[w]
      BY DEF Pending, OwnsMain, ClosesMain, Compiling
    <3>2. plan'[w] = plan[w] + 1
      BY DEF IndInv, TypeInv
    <3>3. Pending(w, h) => h[2] >= plan'[w] /\ plan[w] < Plans
      BY <2>2, <3>1, <3>2
    <3> QED
      BY <1>7, <3>1, <3>3 DEF to, Pending
  <2>6. h[2] > 0 /\ state[<<h[1], Plans>>] = "none" => state'[<<h[1], Plans>>] = "none"
    BY <1>3, <1>4, <2>2, Pairs DEF IndInv, StateInv
  <2> QED
    BY <2>3, <2>4, <2>5, <2>6 DEF Accounted
<1> QED
  BY <1>7, <1>8, <1>9, <1>10, <1>11, <1>12 DEF IndInv

\* StartSet takes a generation nobody has seen.
LEMMA StartSetKeeps ==
    ASSUME IndInv, NEW w \in Writer, StartSet(w)
    PROVE  IndInv'
<1> DEFINE to == IF Plans > 0 THEN "plans" ELSE "main"
<1>1. /\ w \in Actor /\ Gen \subseteq Nat
      /\ main \in Gen /\ looks \in Gen /\ gens \in Gen
      /\ 0 \in 0..Plans /\ \A k \in 1..Plans : k \in 0..Plans
  <2>1. 0 \in 0..Plans /\ \A k \in 1..Plans : k \in 0..Plans
    BY SetLimitsAssumption
  <2> QED
    BY <2>1, SetTypes DEF CallTypes
<1>2. /\ gens' = gens + 1 /\ gens' \in Gen /\ gens' > gens
      /\ pc[w] = "idle" /\ to \in {"plans", "main"} /\ to \in WriterPC
      /\ to = "plans" => Plans > 0
      /\ ~Setting(w)
  BY <1>1, SetLimitsAssumption DEF StartSet, Goto, Gen, WriterPC, Compiling, Setting, Swapping, Closing
<1>3. /\ pc' = [pc EXCEPT ![w] = to]
      /\ own' = [own EXCEPT ![w] = gens'] /\ plan' = [plan EXCEPT ![w] = 1]
      /\ raced' = [p \in Reader |-> raced[p] \/ pc[p] # "idle"]
      /\ UNCHANGED <<main, looks, state, lock, at, sub, cbErr, result, old, oldLooks, lost>>
  BY <1>2 DEF StartSet, Goto, fields
<1> HIDE DEF to
<1>4. /\ \A p \in Reader : pc'[p] = pc[p]
      /\ \A v \in Writer : v # w => pc'[v] = pc[v] /\ own'[v] = own[v] /\ plan'[v] = plan[v]
      /\ pc'[w] = to /\ own'[w] = gens' /\ plan'[w] = 1
      /\ \A p \in Reader : raced'[p] = (raced[p] \/ pc[p] # "idle")
  BY <1>3, SetLimitsAssumption DEF IndInv, TypeInv, Actor
<1>5. TypeInv'
  <2>1. /\ pc' \in [Actor -> ReaderPC \cup WriterPC]
        /\ own' \in [Writer -> Gen]
        /\ plan' \in [Writer -> Nat \ {0}]
    <3>1. pc' \in [Actor -> ReaderPC \cup WriterPC]
      BY <1>2, <1>3 DEF IndInv, TypeInv
    <3>2. own' \in [Writer -> Gen]
      BY <1>2, <1>3 DEF IndInv, TypeInv
    <3>3. plan' \in [Writer -> Nat \ {0}]
      BY <1>3 DEF IndInv, TypeInv
    <3> QED
      BY <3>1, <3>2, <3>3
  <2>2. raced' \in [Reader -> BOOLEAN]
    BY <1>3, Zenon
  <2> QED
    BY <1>2, <1>3, <1>4, <2>1, <2>2 DEF IndInv, TypeInv
<1>6. \A g \in Gen : g <= gens => g < gens' /\ g # gens'
  BY <1>1, <1>2
<1>7. GenInv'
  <2>1. /\ \A v \in Writer : own[v] \in Gen /\ old[v] \in Gen /\ oldLooks[v] \in Gen
        /\ \A p \in Reader : at[p][1] \in Gen /\ sub[p][1] \in Gen
    BY Pairs DEF IndInv, TypeInv
  <2>2. /\ main < gens' /\ looks < gens'
        /\ \A v \in Writer : own[v] < gens' /\ old[v] < gens' /\ oldLooks[v] < gens'
        /\ \A p \in Reader : at[p][1] < gens' /\ sub[p][1] < gens'
    BY <1>1, <1>6, <2>1 DEF IndInv, GenInv
  <2>3. /\ main' <= gens' /\ looks' <= gens'
        /\ \A v \in Writer : own'[v] <= gens' /\ old'[v] <= gens' /\ oldLooks'[v] <= gens'
        /\ \A p \in Reader : at'[p][1] <= gens' /\ sub'[p][1] <= gens'
    <3>1. \A g \in Gen : g < gens' => g <= gens'
      BY <1>1, <1>2
    <3>2. gens' <= gens'
      BY <1>1, <1>2
    <3> QED
      BY <1>1, <1>3, <1>4, <2>1, <2>2, <3>1, <3>2
  <2>4. /\ \A v \in Writer : Setting(v)' => own'[v] > 0
        /\ \A v, u \in Writer : v # u /\ own'[v] > 0 => own'[v] # own'[u]
    BY <1>1, <1>2, <1>3, <1>4, <2>1, <2>2 DEF IndInv, GenInv, Setting
  <2>5. \A v \in Writer : OwnsMain(v)' =>
          /\ own'[v] # main'
          /\ \A u \in Writer : own'[v] # old'[u]
          /\ \A p \in Reader : own'[v] # at'[p][1]
    BY <1>1, <1>2, <1>3, <1>4, <2>1, <2>2 DEF IndInv, GenInv, OwnsMain
  <2>6. \A v \in Writer : OwnsLooks(v)' =>
          /\ own'[v] # looks'
          /\ \A u \in Writer : own'[v] # oldLooks'[u]
          /\ \A p \in Reader : own'[v] # sub'[p][1]
    BY <1>1, <1>2, <1>3, <1>4, <2>1, <2>2 DEF IndInv, GenInv, OwnsLooks
  <2>7. /\ \A v \in Writer : ClosesMain(v)' => old'[v] # main'
        /\ \A v \in Writer : ClosesLooks(v)' /\ Plans > 0 => oldLooks'[v] # looks'
    BY <1>2, <1>3, <1>4 DEF IndInv, GenInv, ClosesMain, ClosesLooks, Closing
  <2>8. \A v \in Writer : pc'[v] \in {"plans", "closePlans", "waitPlan"} => plan'[v] <= Plans
    BY <1>2, <1>4, SetLimitsAssumption DEF IndInv, GenInv
  <2> QED
    BY <2>3, <2>4, <2>5, <2>6, <2>7, <2>8 DEF GenInv
<1>8. StateInv'
  <2>1. \A k \in 0..Plans : <<gens', k>> \in Handle /\ state[<<gens', k>>] = "none"
    BY <1>2, Pairs DEF IndInv, StateInv
  <2>2. \A h \in Handle : h[1] > gens' => state'[h] = "none"
    BY <1>1, <1>2, <1>3, Pairs DEF IndInv, StateInv
  <2>3. \A v \in Writer : pc'[v] = "plans" =>
          /\ state'[<<own'[v], 0>>] = "none"
          /\ \A k \in 1..Plans : k < plan'[v] => state'[<<own'[v], k>>] = "open"
          /\ \A k \in 1..Plans : k >= plan'[v] => state'[<<own'[v], k>>] = "none"
    <3> SUFFICES ASSUME NEW v \in Writer, pc'[v] = "plans"
                 PROVE  /\ state'[<<own'[v], 0>>] = "none"
                        /\ \A k \in 1..Plans : k < plan'[v] => state'[<<own'[v], k>>] = "open"
                        /\ \A k \in 1..Plans : k >= plan'[v] => state'[<<own'[v], k>>] = "none"
      OBVIOUS
    <3>1. CASE v = w
      <4>1. \A k \in 1..Plans : ~(k < 1)
        BY SetLimitsAssumption
      <4> QED
        BY <1>1, <1>3, <1>4, <2>1, <3>1, <4>1
    <3>2. CASE v # w
      BY <1>3, <1>4, <3>2 DEF IndInv, StateInv
    <3> QED
      BY <3>1, <3>2
  <2>4. \A v \in Writer : pc'[v] \in {"loadRe", "loadLooks", "storeRe"} => state'[<<own'[v], 0>>] = "open"
    BY <1>2, <1>3, <1>4 DEF IndInv, StateInv
  <2>5. \A v \in Writer : pc'[v] \in {"main"} \cup Swapping =>
          \A k \in 1..Plans : state'[<<own'[v], k>>] = "open"
    <3>1. pc'[w] = "main" => \A k \in 1..Plans : FALSE
      BY <1>4, SetLimitsAssumption DEF to
    <3> QED
      BY <1>2, <1>3, <1>4, <3>1 DEF IndInv, StateInv, Swapping
  <2> QED
    BY <1>3, <2>2, <2>3, <2>4, <2>5, SMTT(20) DEF IndInv, StateInv
<1>9. ReaderInv' /\ FieldsAreOpen' /\ NoUseAfterFree' /\ ClosedOnlyByRace'
  <2>1. ReaderInv'
    BY <1>3, <1>4 DEF IndInv, ReaderInv
  <2>2. FieldsAreOpen'
    BY <1>3 DEF IndInv, FieldsAreOpen
  <2>3. NoUseAfterFree'
    BY <1>3, <1>4 DEF IndInv, NoUseAfterFree
  <2>4. ClosedOnlyByRace'
    BY <1>3, <1>4 DEF IndInv, ClosedOnlyByRace
  <2> QED
    BY <2>1, <2>2, <2>3, <2>4
<1>10. RaceInv'
  BY <1>3, <1>4 DEF IndInv, RaceInv
<1>11. LeakInv'
  <2>1. \A v \in Writer : pc'[v] \in {"closeMain", "waitMain"} => plan'[v] = 1
    BY <1>2, <1>4 DEF IndInv, LeakInv
  <2>2. \A h \in Handle, v \in Writer : Pending(v, h) => Pending(v, h)'
    BY <1>2, <1>3, <1>4 DEF Pending, OwnsMain, ClosesMain, Compiling
  <2>3. \A h \in Handle : state'[h] = "open" => Accounted(h)'
    BY <1>3, <2>2 DEF IndInv, LeakInv, Accounted
  <2> QED
    BY <2>1, <2>3 DEF LeakInv
<1> QED
  BY <1>5, <1>7, <1>8, <1>9, <1>10, <1>11 DEF IndInv

------------------------------------------------------------------------------
\* Every step keeps the invariant.
LEMMA IndStep == IndInv /\ [Next]_vars => IndInv'
<1> SUFFICES ASSUME IndInv, [Next]_vars PROVE IndInv'
  OBVIOUS
<1>1. CASE UNCHANGED vars
  BY <1>1 DEF vars, fields, reading, writing, IndInv, TypeInv, GenInv, StateInv, ReaderInv,
              RaceInv, LeakInv, Accounted, Pending, Setting, OwnsMain, OwnsLooks, ClosesMain, ClosesLooks,
              NoUseAfterFree, FieldsAreOpen, ClosedOnlyByRace
<1>2. CASE \E p \in Reader : StartMatch(p) \/ MatchStep(p) \/ Callout(p) \/ LeaveC(p)
  <2> PICK p \in Reader : StartMatch(p) \/ MatchStep(p) \/ Callout(p) \/ LeaveC(p)
    BY <1>2
  <2> QED
    BY StartMatchKeeps, LockMainKeeps, RefuseMatchKeeps, EnterCKeeps, CalloutKeeps, LockPlanKeeps,
       RefusePlanKeeps, EnterPlanKeeps, LeavePlanKeeps, LeaveCKeeps DEF MatchStep
<1>3. CASE \E w \in Writer : StartSet(w) \/ SetStep(w)
  <2> PICK w \in Writer : StartSet(w) \/ SetStep(w)
    BY <1>3
  <2>1. CASE CloseMain(w)
    BY <2>1, AnnounceMainKeeps, FinishMainKeeps DEF CloseMain
  <2>2. CASE ClosePlan(w)
    BY <2>2, AnnouncePlanKeeps, FinishPlanKeeps DEF ClosePlan
  <2> QED
    BY <2>1, <2>2, StartSetKeeps, CompilePlanKeeps, CompilePlanFailsKeeps, CompileMainKeeps,
       CompileMainFailsKeeps, LoadReKeeps, LoadLooksKeeps, StoreReKeeps, StoreLooksKeeps DEF SetStep
<1> QED
  BY <1>1, <1>2, <1>3 DEF Next

\* The inductive invariant holds in every behaviour.
THEOREM Invariance == Spec => []IndInv
<1> QED
  BY IndInit, IndStep, PTL DEF Spec

\* No Close frees the pattern or the plan a match is executing, whatever
\* generations the two belong to (lib.Regexp.Close under SetMatchLimits).
THEOREM NeverFreedInUse == Spec => []NoUseAfterFree
<1>1. IndInv => NoUseAfterFree
  BY DEF IndInv
<1> QED
  BY <1>1, Invariance, PTL

\* re.re and re.lookbehinds never point to anything closed, with any number
\* of racing SetMatchLimits.
THEOREM FieldsStayOpen == Spec => []FieldsAreOpen
<1>1. IndInv => FieldsAreOpen
  BY DEF IndInv
<1> QED
  BY <1>1, Invariance, PTL

\* A match on an open Regexp returns ErrClosed only if a SetMatchLimits ran
\* while it did.
THEOREM RefusedOnlyByRace == Spec => []ClosedOnlyByRace
<1>1. IndInv => ClosedOnlyByRace
  BY DEF IndInv
<1> QED
  BY <1>1, Invariance, PTL

\* SetMatchLimits leaves nothing open but what is in use, what a failed
\* compilation dropped and what a racing call overwrote.
THEOREM OnlyKnownLeaks == Spec => []OnlyFailuresLeak
<1>1. IndInv => OnlyFailuresLeak
  <2> SUFFICES ASSUME IndInv, \A w \in Writer : ~Setting(w), NEW h \in Handle, state[h] = "open"
               PROVE  \/ h = <<main, 0>> \/ h[1] = looks
                      \/ h \in lost
                      \/ h[2] > 0 /\ state[<<h[1], Plans>>] = "none"
    BY DEF OnlyFailuresLeak
  <2>1. \A w \in Writer : ~Pending(w, h)
    BY DEF Pending, OwnsMain, ClosesMain, Setting, Swapping, Closing
  <2> QED
    BY <2>1 DEF IndInv, LeakInv, Accounted
<1> QED
  BY <1>1, Invariance, PTL
==============================================================================
