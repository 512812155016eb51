---------------------------- MODULE LeaseMutex ----------------------------
(***************************************************************************)
(* What Sophie's per-user leases promise their callers: at most one worker *)
(* at a time runs the body of the critical section.  A worker leaves the   *)
(* section by finishing, by being cancelled or by crashing; the promise    *)
(* does not say which.                                                     *)
(***************************************************************************)
CONSTANTS Workers, Nobody

VARIABLE holder

Init == holder = Nobody

Acquire(w) == holder = Nobody /\ holder' = w

Release(w) == holder = w /\ holder' = Nobody

Next == \E w \in Workers : Acquire(w) \/ Release(w)

Spec == Init /\ [][Next]_holder
===========================================================================
