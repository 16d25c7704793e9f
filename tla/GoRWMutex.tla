------------------------------ MODULE GoRWMutex ------------------------------
(***************************************************************************)
(* The part of Go's sync.RWMutex that lib.Regexp relies on, as operators   *)
(* on a lock value.  sync is not part of the repository: what is modelled  *)
(* is how the package documents the lock and how the methods of Regexp use *)
(* it.                                                                     *)
(*                                                                         *)
(*   readers   goroutines that hold a read lock                            *)
(*   queued    goroutines blocked in RLock behind a writer                 *)
(*   writer    the goroutine (at most one) that owns the write side: it is *)
(*             waiting for the readers to leave, or it is inside           *)
(*                                                                         *)
(* A writer that waits keeps new readers out, so a stream of readers cannot *)
(* starve it; when it unlocks, every reader that queued up holds the lock   *)
(* before the next writer can.                                             *)
(***************************************************************************)

LockType(P) == [readers : SUBSET P, queued : SUBSET P, writer : SUBSET P]

FreeLock == [readers |-> {}, queued |-> {}, writer |-> {}]

\* RLock as far as its first wait: p reads at once unless a writer is there.
RLock(l, p) ==
    IF l.writer = {}
    THEN [l EXCEPT !.readers = @ \cup {p}]
    ELSE [l EXCEPT !.queued = @ \cup {p}]

RUnlock(l, p) == [l EXCEPT !.readers = @ \ {p}]

\* Lock, first half: take the writer mutex and announce the writer.
CanAnnounce(l) == l.writer = {}
Announce(l, p) == [l EXCEPT !.writer = {p}]

\* Lock, second half: the announced writer is inside once no reader is left.
Inside(l, p) == p \in l.writer /\ l.readers = {}

\* Unlock: the readers that queued up behind the writer hold the lock.
Unlock(l) == [readers |-> l.readers \cup l.queued, queued |-> {}, writer |-> {}]
==============================================================================
