--------------------------- MODULE LocalLockProofs ---------------------------
(* The process-local lockers keep their invariant and implement LockSpec,  *)
(* for any threads and keys.                                               *)
EXTENDS LocalLock, TLAPS

USE LocalLockAssumption

(* The states of a thread are told apart by their pc and their key. *)
LEMMA AtDistinct ==
  ASSUME NEW p, NEW q, NEW j, NEW k
  PROVE  /\ At(p, j) # Free
         /\ At(p, j) = At(q, k) <=> p = q /\ j = k
  BY DEF At, Free

(* The invariant holds when no thread has called Lock.                     *)
LEMMA LockInitInv == LockInit => LockInv
  <1> SUFFICES ASSUME LockInit PROVE LockInv
    OBVIOUS
  <1>1. LockTypeOK
    BY DEF LockInit, LockTypeOK
  <1>2. \A t \in Threads, k \in Keys, pc \in {"wait", "held"} : lk[t] # At(pc, k)
    BY AtDistinct DEF LockInit
  <1> QED
    BY <1>1, <1>2 DEF LockInv, LockInit

(* A thread gets a key that is not in m: nobody held it, and now it does. *)
LEMMA TakeKey ==
  ASSUME LockInv, NEW t \in Threads, NEW k \in Keys, k \notin m,
         lk[t] \in {Free, At("woken", k)},
         m' = m \union {k}, lk' = [lk EXCEPT ![t] = At("held", k)]
  PROVE  LockInv'
  <1>1. LockTypeOK'
    BY DEF LockInv, LockTypeOK
  <1>2. lk \in [Threads -> {Free} \union {At(pc, j) : pc \in {"wait", "woken", "held"}, j \in Keys}]
    BY DEF LockInv, LockTypeOK
  <1>3. \A u \in Threads : lk'[u] = IF u = t THEN At("held", k) ELSE lk[u]
    BY <1>2
  <1>4. \A j \in Keys : lk[t] # At("held", j)
    BY AtDistinct
  <1>5. ASSUME NEW j \in Keys
        PROVE  j \in m' <=> \E u \in Threads : lk'[u] = At("held", j)
    <2>1. CASE j = k
      BY <1>3, <2>1
    <2>2. CASE j # k
      BY <1>3, <1>4, <2>2, AtDistinct DEF LockInv
    <2> QED
      BY <2>1, <2>2
  <1>6. ASSUME NEW u \in Threads, NEW v \in Threads, NEW j \in Keys, lk'[u] = At("held", j), lk'[v] = At("held", j)
        PROVE  u = v
    <2>1. CASE j = k
      BY <1>3, <1>6, <2>1 DEF LockInv
    <2>2. CASE j # k
      BY <1>3, <1>6, <2>2, AtDistinct DEF LockInv
    <2> QED
      BY <2>1, <2>2
  <1>7. ASSUME NEW u \in Threads, NEW j \in Keys, lk'[u] = At("wait", j)
        PROVE  j \in m'
    BY <1>3, <1>7, AtDistinct DEF LockInv
  <1> QED
    BY <1>1, <1>5, <1>6, <1>7 DEF LockInv

(* A thread goes to sleep on a key that is in m. *)
LEMMA WaitForKey ==
  ASSUME LockInv, NEW t \in Threads, NEW k \in Keys, k \in m,
         lk[t] \in {Free, At("woken", k)},
         m' = m, lk' = [lk EXCEPT ![t] = At("wait", k)]
  PROVE  LockInv'
  <1>1. LockTypeOK'
    BY DEF LockInv, LockTypeOK
  <1>2. lk \in [Threads -> {Free} \union {At(pc, j) : pc \in {"wait", "woken", "held"}, j \in Keys}]
    BY DEF LockInv, LockTypeOK
  <1>3. \A u \in Threads : lk'[u] = IF u = t THEN At("wait", k) ELSE lk[u]
    BY <1>2
  <1>4. \A u \in Threads, j \in Keys : lk'[u] = At("held", j) <=> lk[u] = At("held", j)
    BY <1>3, AtDistinct
  <1>5. ASSUME NEW u \in Threads, NEW j \in Keys, lk'[u] = At("wait", j)
        PROVE  j \in m'
    BY <1>3, <1>5, AtDistinct DEF LockInv
  <1> QED
    BY <1>1, <1>4, <1>5 DEF LockInv

(* A key is unlocked, and everybody who sleeps is woken. *)
LEMMA UnlockKey ==
  ASSUME LockInv, NEW t \in Threads, NEW k \in Keys, cancelfunc(t, k)
  PROVE  LockInv'
  <1>1. lk \in [Threads -> {Free} \union {At(pc, j) : pc \in {"wait", "woken", "held"}, j \in Keys}]
    BY DEF LockInv, LockTypeOK
  <1>2. \A u \in Threads : lk'[u] = IF u = t THEN Free
                                   ELSE IF \E j \in Keys : lk[u] = At("wait", j) THEN At("woken", lk[u].key) ELSE lk[u]
    BY DEF cancelfunc
  <1>3. \A u \in Threads, j \in Keys : u # t /\ lk[u] = At("wait", j) => lk'[u] = At("woken", j)
    BY <1>2 DEF At
  <1>4. \A u \in Threads : u # t /\ (\A j \in Keys : lk[u] # At("wait", j)) => lk'[u] = lk[u]
    BY <1>2
  <1>5. lk'[t] = Free
    BY <1>2
  <1>6. LockTypeOK'
    <2>1. m' \subseteq Keys
      BY DEF LockInv, LockTypeOK, cancelfunc
    <2>2. ASSUME NEW u \in Threads
          PROVE  lk'[u] \in {Free} \union {At(pc, j) : pc \in {"wait", "woken", "held"}, j \in Keys}
      BY <1>1, <1>3, <1>4, <1>5
    <2>3. lk' = [x \in Threads |-> lk'[x]]
      BY DEF cancelfunc
    <2> QED
      BY <2>1, <2>2, <2>3 DEF LockTypeOK
  <1>7. \A u \in Threads, j \in Keys : lk'[u] = At("held", j) <=> u # t /\ lk[u] = At("held", j)
    BY <1>3, <1>4, <1>5, AtDistinct
  <1>8. \A u \in Threads, j \in Keys : lk'[u] # At("wait", j)
    BY <1>3, <1>4, <1>5, AtDistinct
  <1>9. ASSUME NEW j \in Keys
        PROVE  j \in m' <=> \E u \in Threads : lk'[u] = At("held", j)
    <2>1. lk[t] = At("held", k) /\ m' = m \ {k}
      BY DEF cancelfunc
    <2>2. CASE j = k
      BY <1>7, <2>1, <2>2 DEF LockInv
    <2>3. CASE j # k
      BY <1>7, <2>1, <2>3, AtDistinct DEF LockInv
    <2> QED
      BY <2>2, <2>3
  <1> QED
    BY <1>6, <1>7, <1>8, <1>9 DEF LockInv

(* Every step of a thread keeps it.                                        *)
LEMMA LockStepInv == LockInv /\ [LockNext]_lockVars => LockInv'
  <1> SUFFICES ASSUME LockInv, [LockNext]_lockVars PROVE LockInv'
    OBVIOUS
  <1>1. CASE UNCHANGED lockVars
    BY <1>1 DEF lockVars, LockInv, LockTypeOK
  <1>2. ASSUME NEW t \in Threads, NEW k \in Keys, TryLock(t, k) PROVE LockInv'
    BY <1>2, TakeKey DEF TryLock
  <1>3. ASSUME NEW t \in Threads, NEW k \in Keys, TryLockFails(t, k) PROVE LockInv'
    BY <1>1, <1>3 DEF TryLockFails
  <1>4. ASSUME NEW t \in Threads, NEW k \in Keys, Lock(t, k) PROVE LockInv'
    BY <1>4, TakeKey, WaitForKey DEF Lock
  <1>5. ASSUME NEW t \in Threads, NEW k \in Keys, LockAgain(t, k) PROVE LockInv'
    BY <1>5, TakeKey, WaitForKey DEF LockAgain
  <1>6. ASSUME NEW t \in Threads, NEW k \in Keys, cancelfunc(t, k) PROVE LockInv'
    BY <1>6, UnlockKey
  <1> QED
    BY <1>1, <1>2, <1>3, <1>4, <1>5, <1>6 DEF LockNext

(* localLocker and localLockSource keep LockInv: a key is held by at most  *)
(* one thread, and nobody sleeps on a free key.                            *)
THEOREM LockInvariant == LockSpec0 => []LockInv
  BY LockInitInv, LockStepInv, PTL DEF LockSpec0

-----------------------------------------------------------------------------
(* The holder of a key, by the thread that has it. *)
LEMMA HolderIs ==
  ASSUME LockInv, NEW k \in Keys
  PROVE  /\ \A t \in Threads : lk[t] = At("held", k) => Holder[k] = t
         /\ (\A t \in Threads : lk[t] # At("held", k)) => Holder[k] = Nobody
  BY DEF LockInv, Holder

(* Whom the abstract lock has as its holder after a step.                  *)
LEMMA HolderIsNext ==
  ASSUME LockInv', NEW k \in Keys
  PROVE  /\ \A t \in Threads : lk'[t] = At("held", k) => Holder'[k] = t
         /\ (\A t \in Threads : lk'[t] # At("held", k)) => Holder'[k] = Nobody
  BY DEF LockInv, Holder

(* A thread that gets a free key does what Acquire does. *)
LEMMA TakeIsAcquire ==
  ASSUME LockInv, LockInv', NEW t \in Threads, NEW k \in Keys, k \notin m,
         lk[t] \in {Free, At("woken", k)}, lk' = [lk EXCEPT ![t] = At("held", k)]
  PROVE  Abstract!Acquire(t, k)
  <1>1. \A u \in Threads : lk'[u] = IF u = t THEN At("held", k) ELSE lk[u]
    BY DEF LockInv, LockTypeOK
  <1>2. Holder[k] = Nobody
    BY HolderIs DEF LockInv
  <1>3. Holder'[k] = t
    BY <1>1, HolderIsNext
  <1>4. ASSUME NEW j \in Keys, j # k PROVE Holder'[j] = Holder[j]
    <2>1. \A u \in Threads : lk'[u] = At("held", j) <=> lk[u] = At("held", j)
      BY <1>1, <1>4, AtDistinct
    <2> QED
      BY <2>1, HolderIs, HolderIsNext
  <1>5. Holder = [j \in Keys |-> Holder[j]] /\ Holder' = [j \in Keys |-> Holder'[j]]
    BY DEF Holder
  <1>6. Holder' = [Holder EXCEPT ![k] = t]
    BY <1>3, <1>4, <1>5
  <1> QED
    BY <1>2, <1>6 DEF Abstract!Acquire

(* A step that moves no key between threads is a stutter. *)
LEMMA SameHolders ==
  ASSUME LockInv, LockInv',
         \A u \in Threads, j \in Keys : lk'[u] = At("held", j) <=> lk[u] = At("held", j)
  PROVE  Holder' = Holder
  <1>1. Holder = [j \in Keys |-> Holder[j]] /\ Holder' = [j \in Keys |-> Holder'[j]]
    BY DEF Holder
  <1>2. \A j \in Keys : Holder'[j] = Holder[j]
    BY HolderIs, HolderIsNext
  <1> QED
    BY <1>1, <1>2

(* Going to sleep changes no holder.                                       *)
LEMMA WaitIsStutter ==
  ASSUME LockInv, LockInv', NEW t \in Threads, NEW k \in Keys,
         lk[t] \in {Free, At("woken", k)}, lk' = [lk EXCEPT ![t] = At("wait", k)]
  PROVE  Holder' = Holder
  <1>1. \A u \in Threads : lk'[u] = IF u = t THEN At("wait", k) ELSE lk[u]
    BY DEF LockInv, LockTypeOK
  <1>2. \A u \in Threads, j \in Keys : lk'[u] = At("held", j) <=> lk[u] = At("held", j)
    BY <1>1, AtDistinct
  <1> QED
    BY <1>2, SameHolders

(* The cancel function releases the abstract lock.                         *)
LEMMA UnlockIsRelease ==
  ASSUME LockInv, LockInv', NEW t \in Threads, NEW k \in Keys, cancelfunc(t, k)
  PROVE  Abstract!Release(t, k)
  <1>1. \A u \in Threads : lk'[u] = IF u = t THEN Free
                                   ELSE IF \E j \in Keys : lk[u] = At("wait", j) THEN At("woken", lk[u].key) ELSE lk[u]
    BY DEF cancelfunc
  <1>2. lk[t] = At("held", k)
    BY DEF cancelfunc
  <1>3. \A u \in Threads, j \in Keys : lk'[u] = At("held", j) <=> u # t /\ lk[u] = At("held", j)
    BY <1>1, AtDistinct
  <1>4. Holder[k] = t
    BY <1>2, HolderIs
  <1>5. Holder'[k] = Nobody
    BY <1>2, <1>3, HolderIsNext DEF LockInv
  <1>6. ASSUME NEW j \in Keys, j # k PROVE Holder'[j] = Holder[j]
    <2>1. \A u \in Threads : lk'[u] = At("held", j) <=> lk[u] = At("held", j)
      BY <1>2, <1>3, <1>6, AtDistinct
    <2> QED
      BY <2>1, HolderIs, HolderIsNext
  <1>7. Holder = [j \in Keys |-> Holder[j]] /\ Holder' = [j \in Keys |-> Holder'[j]]
    BY DEF Holder
  <1>8. Holder' = [Holder EXCEPT ![k] = Nobody]
    BY <1>5, <1>6, <1>7
  <1> QED
    BY <1>4, <1>8 DEF Abstract!Release

(* Every step is one of the abstract lock, or changes no holder.           *)
LEMMA LockStepRefines == LockInv /\ LockInv' /\ [LockNext]_lockVars => [Abstract!Next]_Holder
  <1> SUFFICES ASSUME LockInv, LockInv', [LockNext]_lockVars PROVE [Abstract!Next]_Holder
    OBVIOUS
  <1>1. CASE UNCHANGED lockVars
    BY <1>1, SameHolders DEF lockVars
  <1>2. ASSUME NEW t \in Threads, NEW k \in Keys, TryLock(t, k) PROVE Abstract!Next
    BY <1>2, TakeIsAcquire DEF TryLock, Abstract!Next
  <1>3. ASSUME NEW t \in Threads, NEW k \in Keys, TryLockFails(t, k) PROVE [Abstract!Next]_Holder
    BY <1>1, <1>3 DEF TryLockFails
  <1>4. ASSUME NEW t \in Threads, NEW k \in Keys, Lock(t, k) PROVE [Abstract!Next]_Holder
    BY <1>4, TakeIsAcquire, WaitIsStutter DEF Lock, Abstract!Next
  <1>5. ASSUME NEW t \in Threads, NEW k \in Keys, LockAgain(t, k) PROVE [Abstract!Next]_Holder
    BY <1>5, TakeIsAcquire, WaitIsStutter DEF LockAgain, Abstract!Next
  <1>6. ASSUME NEW t \in Threads, NEW k \in Keys, cancelfunc(t, k) PROVE Abstract!Next
    BY <1>6, UnlockIsRelease DEF Abstract!Next
  <1> QED
    BY <1>1, <1>2, <1>3, <1>4, <1>5, <1>6 DEF LockNext

(* At first nobody holds a key.                                            *)
LEMMA LockInitRefines == LockInit => Abstract!Init
  <1> SUFFICES ASSUME LockInit PROVE Abstract!Init
    OBVIOUS
  <1>1. \A t \in Threads, k \in Keys : lk[t] # At("held", k)
    BY AtDistinct DEF LockInit
  <1> QED
    BY <1>1 DEF Abstract!Init, Holder

(* localLocker and localLockSource implement LockSpec, the Locker's        *)
(* promise: every step gives a free lock to one thread, takes it back from *)
(* its holder, or leaves every lock with whom it was.                      *)
THEOREM LockImplements == LockSpec0 => Abstract!Spec
  <1>1. LockInv /\ [LockNext]_lockVars => LockInv'
    BY LockStepInv
  <1> QED
    BY LockInvariant, LockInitRefines, LockStepRefines, PTL DEF LockSpec0, Abstract!Spec
==============================================================================
