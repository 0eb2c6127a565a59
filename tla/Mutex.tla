-------------------------------- MODULE Mutex --------------------------------
(***************************************************************************)
(* What Materia expects of its Locker: between LockOrWait and Unlock a     *)
(* caller is alone.                                                        *)
(***************************************************************************)
CONSTANTS Callers, Nobody

VARIABLE holder

Init == holder = Nobody

Acquire(c) == holder = Nobody /\ holder' = c

Release(c) == holder = c /\ holder' = Nobody

Next == \E c \in Callers : Acquire(c) \/ Release(c)

Spec == Init /\ [][Next]_holder
=============================================================================
