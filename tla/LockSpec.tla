------------------------------ MODULE LockSpec ------------------------------
(***************************************************************************)
(* What a Locker promises (updater/interfaces.go): the lock of a name is   *)
(* held by one thread at a time.                                           *)
(***************************************************************************)
CONSTANTS Threads, Keys, Nobody

VARIABLE holder    \* of each key: the thread that holds it, or Nobody

Init == holder = [k \in Keys |-> Nobody]

Acquire(t, k) == holder[k] = Nobody /\ holder' = [holder EXCEPT ![k] = t]

Release(t, k) == holder[k] = t /\ holder' = [holder EXCEPT ![k] = Nobody]

Next == \E t \in Threads, k \in Keys : Acquire(t, k) \/ Release(t, k)

Spec == Init /\ [][Next]_holder
=============================================================================
