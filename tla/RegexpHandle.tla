----------------------------- MODULE RegexpHandle -----------------------------
(***************************************************************************)
(* What a lib.Regexp promises to its callers, with no locks, pool or C     *)
(* memory: a compiled pattern that is open until it is closed once, the    *)
(* matches that run on it, and the outcome of each caller's last match.    *)
(* The comments of Regexp and Close promise: safe for concurrent use, Close *)
(* idempotent, Close waits for the matches in flight, matches started after *)
(* Close return ErrClosed.                                                 *)
(***************************************************************************)
CONSTANT Caller

VARIABLES open, active, outcome
vars == <<open, active, outcome>>

Outcomes == {"match", "nomatch", "error", "ErrNoMemory"}

Init ==
    /\ open = TRUE
    /\ active = {}
    /\ outcome = [p \in Caller |-> "none"]

\* A match starts: only on an open pattern.
Begin(p) ==
    /\ open
    /\ p \notin active
    /\ active' = active \cup {p}
    /\ outcome' = [outcome EXCEPT ![p] = "none"]
    /\ UNCHANGED open

\* It ends with an outcome of its own.
End(p, o) ==
    /\ p \in active
    /\ active' = active \ {p}
    /\ outcome' = [outcome EXCEPT ![p] = o]
    /\ UNCHANGED open

\* A match on a closed pattern is refused.
Refuse(p) ==
    /\ ~open
    /\ outcome' = [outcome EXCEPT ![p] = "ErrClosed"]
    /\ UNCHANGED <<open, active>>

\* The pattern closes, once, with no match in flight.
Close ==
    /\ open
    /\ active = {}
    /\ open' = FALSE
    /\ UNCHANGED <<active, outcome>>

Next ==
    \/ \E p \in Caller : Begin(p) \/ Refuse(p)
    \/ \E p \in Caller, o \in Outcomes : End(p, o)
    \/ Close

Spec == Init /\ [][Next]_vars
===============================================================================
