------------------------------- MODULE Mutex -------------------------------
(***************************************************************************)
(* What repo.Lock promises to its callers: one holder at a time.           *)
(***************************************************************************)
CONSTANTS Callers, None

VARIABLE holder

Init == holder = None

Acquire(c) == holder = None /\ holder' = c

Release(c) == holder = c /\ holder' = None

Next == \E c \in Callers : Acquire(c) \/ Release(c)

Spec == Init /\ [][Next]_holder
=============================================================================
