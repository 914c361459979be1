------------------------------ MODULE LocalLock -----------------------------
(***************************************************************************)
(* The locks of a single process: localLocker (updater/locallocker.go) and *)
(* localLockSource (libvuln/updates/locks.go), which are the same code.  A *)
(* set of locked keys, a mutex that makes each step below one step, and a  *)
(* condition variable for the threads that wait.  A thread calls the       *)
(* CancelFunc it got once, as the callers in the repository do.            *)
(***************************************************************************)
EXTENDS Naturals

CONSTANTS
  Threads,
  Keys,
  Nobody

ASSUME LocalLockAssumption == Nobody \notin Threads

VARIABLES
  m,      \* the keys that are locked
  lk      \* of each thread: what it does with the locker, and with which key

lockVars == <<m, lk>>

Free == [pc |-> "none"]
At(pc, k) == [pc |-> pc, key |-> k]

LockInit ==
  /\ m = {}
  /\ lk = [t \in Threads |-> Free]

(* Mutant: the key is not looked up. *)
TryLockBlind(t, k) ==
  /\ lk[t] = Free
  /\ m' = m \union {k}
  /\ lk' = [lk EXCEPT ![t] = At("held", k)]

TryLock(t, k) ==
  /\ lk[t] = Free /\ k \notin m
  /\ m' = m \union {k}
  /\ lk' = [lk EXCEPT ![t] = At("held", k)]

(* The Context comes back cancelled, with a CancelFunc that unlocks nothing. *)
TryLockFails(t, k) ==
  /\ lk[t] = Free /\ k \in m
  /\ UNCHANGED lockVars

(* Lock: takes the key, or waits for a broadcast. *)
Lock(t, k) ==
  /\ lk[t] = Free
  /\ IF k \in m
     THEN lk' = [lk EXCEPT ![t] = At("wait", k)] /\ UNCHANGED m
     ELSE lk' = [lk EXCEPT ![t] = At("held", k)] /\ m' = m \union {k}

(* Mutant: a thread that was woken takes the key. *)
LockAgainBlind(t, k) ==
  /\ lk[t] = At("woken", k)
  /\ lk' = [lk EXCEPT ![t] = At("held", k)] /\ m' = m \union {k}

(* A thread that was woken looks again. *)
LockAgain(t, k) ==
  /\ lk[t] = At("woken", k)
  /\ IF k \in m
     THEN lk' = [lk EXCEPT ![t] = At("wait", k)] /\ UNCHANGED m
     ELSE lk' = [lk EXCEPT ![t] = At("held", k)] /\ m' = m \union {k}

(* The CancelFunc: unlocks, and wakes every thread that waits. *)
cancelfunc(t, k) ==
  /\ lk[t] = At("held", k)
  /\ m' = m \ {k}
  /\ lk' = [x \in Threads |-> IF x = t THEN Free
                              ELSE IF \E j \in Keys : lk[x] = At("wait", j) THEN At("woken", lk[x].key) ELSE lk[x]]

LockNext ==
  \E t \in Threads, k \in Keys :
    TryLock(t, k) \/ TryLockFails(t, k) \/ Lock(t, k) \/ LockAgain(t, k) \/ cancelfunc(t, k)

LockSpec0 == LockInit /\ [][LockNext]_lockVars

-----------------------------------------------------------------------------
LockTypeOK ==
  /\ m \subseteq Keys
  /\ lk \in [Threads -> {Free} \union {At(pc, k) : pc \in {"wait", "woken", "held"}, k \in Keys}]

(* localLocker: m is the set of the keys that are held, each of them is     *)
(* held by one thread, and no thread sleeps (locallocker.go:34) while the   *)
(* key it waits for is free.                                                *)
LockInv ==
  /\ LockTypeOK
  /\ \A k \in Keys : k \in m <=> \E t \in Threads : lk[t] = At("held", k)
  /\ \A t, u \in Threads, k \in Keys : lk[t] = At("held", k) /\ lk[u] = At("held", k) => t = u
  /\ \A t \in Threads, k \in Keys : lk[t] = At("wait", k) => k \in m

Holder == [k \in Keys |-> IF \E t \in Threads : lk[t] = At("held", k)
                          THEN CHOOSE t \in Threads : lk[t] = At("held", k) ELSE Nobody]

Abstract == INSTANCE LockSpec WITH holder <- Holder
=============================================================================
