-------------------------- MODULE MCRegexpLifecycle --------------------------
(* A small instance of RegexpLifecycle: goroutines and addresses are model  *)
(* values.  They are interchangeable, but liveness is checked in the same   *)
(* run, for which a reduction by symmetry would not be sound.               *)
EXTENDS RegexpLifecycle
==============================================================================
