----------------------------- MODULE MCEventPersist -----------------------------
(* Three flushers, which exchange freely, and up to four events.               *)
EXTENDS EventPersist, TLC
FlusherSymmetry == Permutations(Flushers)
=============================================================================
