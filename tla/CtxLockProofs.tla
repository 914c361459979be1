--------------------------- MODULE CtxLockProofs ----------------------------
(***************************************************************************)
(* Proofs about CtxLock, for any number of processes, clients and keys,    *)
(* any keyify (collisions included) and any bound MaxConn: type            *)
(* correctness, generations, exclusion in the server, what a grant says    *)
(* about its session, the map of held keys, and the theorems these give.   *)
(***************************************************************************)
EXTENDS CtxLock, FiniteSetTheorems, TLAPS

USE CtxLockAssumption

(* A fresh handle has the type of a handle.                                *)
LEMMA IdleType == Idle \in Handles /\ Idle.pc = "idle"
  BY DEF Idle, Handles, Pcs

(* Broadcast and the updates of a handle, by type.                         *)
LEMMA BroadcastType ==
  ASSUME NEW p \in Procs, woken \in [Procs -> BOOLEAN], Broadcast(p)
  PROVE  woken' \in [Procs -> BOOLEAN]
  BY Zenon DEF Broadcast

(* CurSess is one of the sessions of its process.                          *)
LEMMA CurSessType ==
  ASSUME TypeOK, NEW p \in Procs, conn[p] # 0
  PROVE  CurSess(p) \in Sessions
  BY DEF TypeOK, CurSess, Sessions

(* A failed TryLock or Lock leaves a well-typed handle.                    *)
LEMMA FailedType ==
  ASSUME NEW c \in Clients, NEW done \in BOOLEAN, handle \in [Clients -> Handles], Failed(c, done)
  PROVE  handle' \in [Clients -> Handles]
  BY ZenonT(60), IdleType DEF Failed, Handles, Pcs

(* The watcher leaves a well-typed handle.                                 *)
LEMMA OnCancelType ==
  ASSUME NEW c \in Clients, NEW done \in BOOLEAN, handle \in [Clients -> Handles], OnCancel(c, done)
  PROVE  handle' \in [Clients -> Handles]
  BY DEF OnCancel, Handles, Pcs

(* pg_advisory_unlock never makes a count negative.                        *)
LEMMA AdvisoryUnlockType == \A n \in Nat : AdvisoryUnlock(n) \in Nat
  BY DEF AdvisoryUnlock

(* Taking and freeing an advisory lock keep the counts typed.              *)
LEMMA DepthType ==
  ASSUME depth \in [Sessions -> [Hashes -> Nat]], NEW s \in Sessions, NEW b \in Hashes,
         \/ UNCHANGED depth
         \/ depth' = [depth EXCEPT ![s][b] = @ + 1]
         \/ depth' = [depth EXCEPT ![s][b] = AdvisoryUnlock(@)]
  PROVE  depth' \in [Sessions -> [Hashes -> Nat]]
<1>1. CASE depth' = [depth EXCEPT ![s][b] = @ + 1]
  BY <1>1
<1>2. CASE depth' = [depth EXCEPT ![s][b] = AdvisoryUnlock(@)]
  BY Zenon, <1>2, AdvisoryUnlockType
<1>3. QED
  BY Zenon, <1>1, <1>2

(* A session changes its state within the type.                            *)
LEMMA SessType ==
  ASSUME sess \in [Sessions -> {"new", "up", "closing", "gone"}], NEW s \in Sessions,
         UNCHANGED sess \/ sess' = [sess EXCEPT ![s] = "closing"]
  PROVE  sess' \in [Sessions -> {"new", "up", "closing", "gone"}]
  BY Zenon

(* Only the connection of the process that reconnects changes, and only    *)
(* the keys of the process that locks.                                     *)
LEMMA ConnType ==
  ASSUME conn \in [Procs -> 0..MaxConn], NEW p \in Procs, NEW n \in 0..MaxConn,
         conn' = [conn EXCEPT ![p] = n] \/ UNCHANGED conn
  PROVE  conn' \in [Procs -> 0..MaxConn]
  BY Zenon

(* A process that locks changes its own keys only.                         *)
LEMMA CurElsewhere ==
  ASSUME cur \in [Procs -> SUBSET Keys], NEW p \in Procs, NEW V, NEW q \in Procs, q # p,
         UNCHANGED cur \/ cur' = [cur EXCEPT ![p] = V]
  PROVE  cur'[q] = cur[q]
  BY Zenon

(* Cancelling the parent and Unwatch keep all handles typed.               *)
LEMMA CallerType ==
  ASSUME handle \in [Clients -> Handles], NEW c \in Clients, CancelParent(c) \/ Unwatch(c)
  PROVE  handle' \in [Clients -> Handles]
<1>1. CASE CancelParent(c)
  BY ZenonT(60), <1>1 DEF CancelParent, Handles
<1>2. CASE Unwatch(c)
  BY <1>2, IdleType DEF Unwatch, Handles, Pcs
<1>3. QED
  BY Zenon, <1>1, <1>2

(* Typing: each action keeps every variable in its type.                   *)
LEMMA TypeStep == TypeOK /\ [Next]_vars => TypeOK'
<1> SUFFICES ASSUME TypeOK, [Next]_vars PROVE TypeOK'
  BY Zenon
<1> USE IdleType DEF TypeOK, locker, server
<1>1. ASSUME NEW p \in Procs, Background(p) PROVE TypeOK'
  <2>1. CASE Reconnect(p)
    <3>1. <<p, gen[p] + 1>> \in Sessions /\ gen[p] + 1 \in 1..MaxConn
      BY <2>1 DEF Reconnect, Sessions
    <3>2. sess' \in [Sessions -> {"new", "up", "closing", "gone"}]
      BY Zenon, <2>1, <3>1 DEF Reconnect
    <3>3. conn' = [conn EXCEPT ![p] = gen[p] + 1] \/ UNCHANGED conn
      BY Zenon, <2>1 DEF Reconnect
    <3>4. conn' \in [Procs -> 0..MaxConn] /\ loop' \in [Procs -> {"acquire", "wait", "exited"}]
      <4>1. conn' \in [Procs -> 0..MaxConn]
        <5>1. gen[p] + 1 \in 0..MaxConn
          BY <3>1
        <5>2. QED
          BY Zenon, <3>3, <5>1, ConnType
      <4>2. loop' \in [Procs -> {"acquire", "wait", "exited"}]
        BY <2>1 DEF Reconnect
      <4>3. QED
        BY Zenon, <4>1, <4>2
    <3>5. gen' \in [Procs -> -1..MaxConn] /\ cur' \in [Procs -> SUBSET Keys]
      BY <2>1, <3>1 DEF Reconnect
    <3>6. QED
      BY Zenon, <2>1, <3>2, <3>4, <3>5 DEF Reconnect
  <2>2. CASE ReconnectExit(p)
    BY <2>2 DEF ReconnectExit
  <2>3. CASE WakePing(p)
    <3>1. CASE sess[CurSess(p)] = "up" /\ ctx[p]
      BY Zenon, <2>3, <3>1 DEF WakePing
    <3>2. CASE ~(sess[CurSess(p)] = "up" /\ ctx[p])
      <4>1. Teardown(p, "acquire") /\ UNCHANGED <<new, ctx, pinger, closed, gen, server, handle>>
        BY Zenon, <2>3, <3>2 DEF WakePing
      <4>2. QED
        BY <4>1 DEF Teardown
    <3>3. QED
      BY Zenon, <3>1, <3>2
  <2>4. CASE WakeExit(p)
    BY <2>4 DEF WakeExit, Teardown
  <2>5. CASE Ping(p)
    BY Zenon, <2>5 DEF Ping, Broadcast
  <2>6. CASE NewReady(p)
    BY Zenon, <2>6 DEF NewReady
  <2>7. CASE NewCancelled(p)
    BY <2>7 DEF NewCancelled, DoClose, Broadcast
  <2>8. QED
    BY Zenon, <1>1, <2>1, <2>2, <2>3, <2>4, <2>5, <2>6, <2>7 DEF Background
<1>2. ASSUME NEW c \in Clients, Client(c) PROVE TypeOK'
  <2> DEFINE p == home[c]
  <2>0. p \in Procs /\ handle[c] \in Handles /\ keyify[handle[c].key] \in Hashes
    BY Zenon DEF Handles
  <2>1. CASE TryRefused(c)
    BY Zenon, <2>0, <2>1 DEF TryRefused, Failed, Handles, Pcs
  <2>2. CASE TryError(c)
    BY Zenon, <2>0, <2>2 DEF TryError, Failed, Broadcast, Handles, Pcs
  <2>3. CASE TryInterrupted(c)
    <3>1. CurSess(p) \in Sessions
      BY Zenon, <2>3, CurSessType DEF TryInterrupted
    <3>2. handle' \in [Clients -> Handles] /\ woken' \in [Procs -> BOOLEAN]
      BY Zenon, <2>0, <2>3, FailedType, BroadcastType DEF TryInterrupted
    <3>3. depth' \in [Sessions -> [Hashes -> Nat]]
      BY Zenon, <2>0, <2>3, <3>1, DepthType DEF TryInterrupted
    <3>4. sess' \in [Sessions -> {"new", "up", "closing", "gone"}]
      BY Zenon, <2>0, <2>3, <3>1 DEF TryInterrupted
    <3>5. QED
      BY Zenon, <2>3, <3>2, <3>3, <3>4 DEF TryInterrupted
  <2>4. CASE TryLocked(c)
    <3>1. CurSess(p) \in Sessions
      BY Zenon, <2>4, CurSessType DEF TryLocked
    <3>2. handle' \in [Clients -> Handles]
      BY ZenonT(60), <2>0, <2>4 DEF TryLocked, Handles, Pcs
    <3>3. depth' \in [Sessions -> [Hashes -> Nat]]
      BY <2>0, <2>4, <3>1 DEF TryLocked
    <3>4. cur' \in [Procs -> SUBSET Keys]
      BY <2>0, <2>4 DEF TryLocked, Handles
    <3>5. QED
      BY Zenon, <2>4, <3>2, <3>3, <3>4 DEF TryLocked
  <2>5. CASE LockRetry(c)
    BY Zenon, <2>0, <2>5 DEF LockRetry, Handles, Pcs
  <2>6. CASE LockGiveUp(c)
    BY Zenon, <2>0, <2>6 DEF LockGiveUp
  <2>7. CASE UnlockStale(c)
    <3>1. handle' \in [Clients -> Handles]
      BY ZenonT(30), <2>0, <2>7, OnCancelType DEF UnlockStale, Handles
    <3>2. QED
      BY Zenon, <2>7, <3>1 DEF UnlockStale
  <2>8. CASE UnlockExec(c)
    <3>1. CurSess(p) \in Sessions
      BY Zenon, <2>8, CurSessType DEF UnlockExec, Stale
    <3>2. handle' \in [Clients -> Handles]
      BY ZenonT(30), <2>0, <2>8, OnCancelType DEF UnlockExec, Handles
    <3>3. depth' \in [Sessions -> [Hashes -> Nat]]
      BY Zenon, <2>0, <2>8, <3>1, DepthType DEF UnlockExec
    <3>4. cur' \in [Procs -> SUBSET Keys]
      BY Zenon, <2>0, <2>8 DEF UnlockExec
    <3>5. QED
      BY Zenon, <2>8, <3>2, <3>3, <3>4 DEF UnlockExec
  <2>9. CASE UnlockError(c)
    <3>1. CurSess(p) \in Sessions
      BY Zenon, <2>9, CurSessType DEF UnlockError, Stale
    <3>2. handle' \in [Clients -> Handles] /\ woken' \in [Procs -> BOOLEAN]
      BY ZenonT(60), <2>0, <2>9, OnCancelType, BroadcastType DEF UnlockError, Handles
    <3>3. depth' \in [Sessions -> [Hashes -> Nat]]
      BY Zenon, <2>0, <2>9, <3>1, DepthType DEF UnlockError
    <3>4. sess' \in [Sessions -> {"new", "up", "closing", "gone"}]
      BY Zenon, <2>0, <2>9, <3>1, SessType DEF UnlockError
    <3>5. QED
      BY Zenon, <2>9, <3>2, <3>3, <3>4 DEF UnlockError
  <2>10. CASE CancelChild(c)
    BY Zenon, <2>0, <2>10 DEF CancelChild, Handles, Pcs
  <2>11. QED
    BY Zenon, <1>2, <2>1, <2>2, <2>3, <2>4, <2>5, <2>6, <2>7, <2>8, <2>9, <2>10 DEF Client, Unlock
<1>3. ASSUME Environment PROVE TypeOK'
  <2>1. ASSUME NEW p \in Leavers, Close(p) \/ CancelNew(p) PROVE TypeOK'
    <3>0. p \in Procs
      BY Zenon
    <3>1. CASE Close(p)
      BY <3>0, <3>1 DEF Close, DoClose, Broadcast
    <3>2. CASE CancelNew(p)
      BY Zenon, <3>0, <3>2 DEF CancelNew
    <3>3. QED
      BY Zenon, <2>1, <3>1, <3>2
  <2>2. ASSUME NEW s \in Sessions, Drop(s) \/ SessionEnd(s) PROVE TypeOK'
    <3>1. CASE Drop(s)
      BY Zenon, <3>1 DEF Drop
    <3>2. CASE SessionEnd(s)
      BY Zenon, <3>2 DEF SessionEnd
    <3>3. QED
      BY Zenon, <2>2, <3>1, <3>2
  <2>3. ASSUME NEW c \in Clients, NEW op \in {"Lock", "TryLock"}, NEW k \in Keys, Call(c, op, k)
        PROVE TypeOK'
    BY ZenonT(60), <2>3 DEF Call, Handles, Pcs
  <2>4. ASSUME NEW c \in Clients, CancelParent(c) \/ Unwatch(c) PROVE TypeOK'
    <3>1. handle' \in [Clients -> Handles]
      BY Zenon, <2>4, CallerType
    <3>2. UNCHANGED <<locker, server>>
      BY Zenon, <2>4 DEF CancelParent, Unwatch
    <3>3. QED
      BY Zenon, <3>1, <3>2
  <2>5. QED
    BY Zenon, <1>3, <2>1, <2>2, <2>3, <2>4 DEF Environment
<1>4. CASE UNCHANGED vars
  BY Zenon, <1>4 DEF vars
<1>5. QED
  BY Zenon, <1>1, <1>2, <1>3, <1>4 DEF Next

(* New starts from a well-typed state.                                     *)
LEMMA InitType == Init => TypeOK
  BY IdleType DEF Init, TypeOK, Sessions

(* Every reachable state of the Locker, the server and the callers is well *)
(* typed; in particular gen never leaves -1..MaxConn and an advisory lock  *)
(* count never becomes negative.                                           *)
THEOREM TypeCorrect == Spec => []TypeOK
  BY InitType, TypeStep, PTL DEF Spec

-----------------------------------------------------------------------------

(* What a step may do to a server session: open it, or once it is up, end  *)
(* it.  Only Reconnect opens one.                                          *)
SessFalls == \A s \in Sessions :
  \/ sess'[s] = sess[s]
  \/ sess[s] \in {"up", "closing"} /\ sess'[s] \in {"closing", "gone"}

(* Without a connect or disconnect the generations stay in step.           *)
LEMMA GenKept ==
  ASSUME TypeOK, GenInv, SessFalls, UNCHANGED <<conn, loop>>,
         \A p \in Procs : gen'[p] = gen[p] \/ gen'[p] = -1
  PROVE  GenInv'
<1> SUFFICES ASSUME NEW p \in Procs
    PROVE /\ conn'[p] # 0 <=> loop'[p] = "wait"
          /\ conn'[p] # 0 => gen'[p] \in {conn'[p], -1} /\ sess'[<<p, conn'[p]>>] # "new"
          /\ loop'[p] # "exited" /\ gen'[p] # -1
             => \A i \in 1..MaxConn : i > gen'[p] => sess'[<<p, i>>] = "new"
  BY Zenon DEF GenInv, CurSess
<1>1. conn[p] # 0 => sess'[<<p, conn[p]>>] # "new"
  BY Zenon, CurSessType DEF GenInv, SessFalls, CurSess
<1>2. \A i \in 1..MaxConn : sess[<<p, i>>] = "new" => sess'[<<p, i>>] = "new"
  BY Zenon DEF SessFalls, Sessions
<1>3. QED
  BY Zenon, <1>1, <1>2 DEF GenInv, CurSess

(* Sessions only ever get closer to their end.                             *)
LEMMA SessStep ==
  ASSUME TypeOK, NEW s \in Sessions,
         \/ UNCHANGED sess
         \/ sess[s] = "up" /\ sess' = [sess EXCEPT ![s] = "closing"]
         \/ sess[s] \in {"up", "closing"} /\ sess' = [sess EXCEPT ![s] = "gone"]
  PROVE  SessFalls
  BY Zenon DEF TypeOK, SessFalls

(* The session that Reconnect opens is a new one.                          *)
LEMMA NextFresh ==
  ASSUME TypeOK, GenInv, NEW p \in Procs, Reconnect(p)
  PROVE  /\ gen[p] + 1 \in 1..MaxConn /\ gen[p] \in Nat /\ conn[p] = 0
         /\ <<p, gen[p] + 1>> \in Sessions
         /\ \A i \in 1..MaxConn : i > gen[p] => sess[<<p, i>>] = "new"
         /\ sess[<<p, gen[p] + 1>>] = "new"
<1>1. gen[p] \in 0..(MaxConn - 1) /\ loop[p] = "acquire"
  BY Zenon DEF Reconnect
<1>2. gen[p] + 1 \in 1..MaxConn /\ gen[p] \in Nat /\ gen[p] + 1 > gen[p] /\ gen[p] # -1
  BY <1>1
<1>3. conn[p] = 0 /\ \A i \in 1..MaxConn : i > gen[p] => sess[<<p, i>>] = "new"
  BY Zenon, <1>1, <1>2 DEF GenInv
<1>4. QED
  BY Zenon, <1>2, <1>3 DEF Sessions

(* The two ways in which one cell of the server's lock table changes.      *)
Up(s, b) == [depth EXCEPT ![s][b] = @ + 1]
Down(s, b) == [depth EXCEPT ![s][b] = AdvisoryUnlock(@)]

(* What Up and Down do to the changed cell and to the others.              *)
LEMMA DepthCell ==
  ASSUME TypeOK, NEW s \in Sessions, NEW b \in Hashes
  PROVE  /\ depth[s][b] \in Nat
         /\ depth' = Up(s, b) => depth'[s][b] = depth[s][b] + 1
         /\ depth' = Down(s, b) => depth'[s][b] = AdvisoryUnlock(depth[s][b])
         /\ depth' \in {Up(s, b), Down(s, b)}
            => /\ \A t \in Sessions, a \in Hashes : t # s \/ a # b => depth'[t][a] = depth[t][a]
               /\ \A t \in Sessions : t # s => depth'[t] = depth[t]
  BY DEF TypeOK, Up, Down

(* Every step keeps generations and sessions in step.                      *)
LEMMA GenStep == IInv /\ [Next]_vars => GenInv'
<1> SUFFICES ASSUME IInv, [Next]_vars PROVE GenInv'
  BY Zenon
<1> USE DEF locker, server
<1>0. TypeOK /\ GenInv
  BY Zenon DEF IInv
<1>1. ASSUME NEW p \in Procs, Reconnect(p) PROVE GenInv'
  <2> DEFINE g == gen[p] + 1
  <2>1. g \in 1..MaxConn /\ gen[p] \in Nat /\ <<p, g>> \in Sessions
    BY Zenon, <1>0, <1>1, NextFresh
  <2>2. gen'[p] = g /\ \A q \in Procs : q # p => gen'[q] = gen[q]
    BY Zenon, <1>0, <1>1 DEF Reconnect, TypeOK
  <2>3. \A s \in Sessions : s # <<p, g>> => sess'[s] = sess[s]
    BY ZenonT(30), <1>0, <1>1, <2>1 DEF Reconnect, TypeOK
  <2>4. conn[p] = 0
    BY Zenon, <1>0, <1>1 DEF Reconnect, GenInv, TypeOK
  <2>5. ASSUME NEW q \in Procs
        PROVE  /\ conn'[q] # 0 <=> loop'[q] = "wait"
               /\ conn'[q] # 0 => gen'[q] \in {conn'[q], -1} /\ sess'[<<q, conn'[q]>>] # "new"
               /\ loop'[q] # "exited" /\ gen'[q] # -1
                  => \A i \in 1..MaxConn : i > gen'[q] => sess'[<<q, i>>] = "new"
    <3>1. CASE q # p
      <4>1. conn'[q] = conn[q] /\ loop'[q] = loop[q] /\ gen'[q] = gen[q]
        BY <1>0, <1>1, <2>2, <3>1 DEF Reconnect, TypeOK
      <4>2. \A i \in 1..MaxConn : sess'[<<q, i>>] = sess[<<q, i>>]
        BY Zenon, <2>3, <3>1 DEF Sessions
      <4>3. QED
        BY SMTT(90), <1>0, <4>1, <4>2 DEF GenInv, CurSess, TypeOK
    <3>2. CASE q = p
      <4>1. \A i \in 1..MaxConn : i > g => sess'[<<p, i>>] = "new"
        <5> SUFFICES ASSUME NEW i \in 1..MaxConn, i > g PROVE sess'[<<p, i>>] = "new"
          BY Zenon
        <5>1. <<p, i>> \in Sessions /\ <<p, i>> # <<p, g>> /\ i > gen[p]
          BY SMTT(90), <2>1 DEF Sessions
        <5>2. QED
          BY Zenon, <1>0, <1>1, <2>3, <5>1, NextFresh
      <4>2. CASE conn' = [conn EXCEPT ![p] = g] /\ loop' = [loop EXCEPT ![p] = "wait"]
                 /\ sess' = [sess EXCEPT ![<<p, g>>] = "up"]
        <5>1. conn'[p] = g /\ loop'[p] = "wait" /\ sess'[<<p, g>>] = "up"
          BY Zenon, <1>0, <2>1, <4>2 DEF TypeOK
        <5>2. QED
          BY <2>1, <2>2, <3>2, <4>1, <5>1
      <4>3. CASE UNCHANGED <<conn, loop>>
        BY <1>0, <1>1, <2>1, <2>2, <2>4, <3>2, <4>1, <4>3 DEF Reconnect
      <4>4. QED
        BY Zenon, <1>1, <4>2, <4>3 DEF Reconnect
    <3>3. QED
      BY Zenon, <3>1, <3>2
  <2>6. QED
    BY Zenon, <2>5 DEF GenInv, CurSess
<1>2. ASSUME NEW p \in Procs, ReconnectExit(p) PROVE GenInv'
  BY Zenon, <1>0, <1>2 DEF ReconnectExit, GenInv, CurSess, TypeOK
<1>3. ASSUME NEW p \in Procs, WakePing(p) PROVE GenInv'
  <2>1. CASE sess[CurSess(p)] = "up" /\ ctx[p]
    BY Zenon, <1>0, <1>3, <2>1 DEF WakePing, GenInv, CurSess
  <2>2. CASE ~(sess[CurSess(p)] = "up" /\ ctx[p])
    BY <1>0, <1>3, <2>2 DEF WakePing, Teardown, GenInv, CurSess, TypeOK
  <2>3. QED
    BY Zenon, <2>1, <2>2
<1>4. ASSUME NEW p \in Procs, WakeExit(p) PROVE GenInv'
  BY Zenon, <1>0, <1>4 DEF WakeExit, Teardown, GenInv, CurSess, TypeOK
<1>5. CASE /\ UNCHANGED <<conn, loop, sess>>
           /\ \A p \in Procs : gen'[p] = gen[p] \/ gen'[p] = -1
  BY Zenon, <1>0, <1>5, GenKept DEF SessFalls
<1>6. ASSUME NEW p \in Procs, Ping(p) \/ NewReady(p) \/ NewCancelled(p) \/ Close(p) \/ CancelNew(p)
      PROVE GenInv'
  <2>1. UNCHANGED <<conn, loop, sess>>
    BY Zenon, <1>6 DEF Ping, NewReady, NewCancelled, Close, CancelNew
  <2>2. \A q \in Procs : gen'[q] = gen[q] \/ gen'[q] = -1
    BY Zenon, <1>0, <1>6 DEF Ping, NewReady, NewCancelled, Close, CancelNew, DoClose, TypeOK
  <2>3. QED
    BY Zenon, <1>5, <2>1, <2>2
<1>7. ASSUME NEW s \in Sessions, Drop(s) \/ SessionEnd(s) PROVE GenInv'
  <2>1. SessFalls
    BY Zenon, <1>0, <1>7, SessStep DEF Drop, SessionEnd
  <2>2. UNCHANGED <<conn, loop, gen>>
    BY Zenon, <1>7 DEF Drop, SessionEnd
  <2>3. QED
    BY Zenon, <1>0, <2>1, <2>2, GenKept
<1>8. ASSUME NEW c \in Clients, Client(c) PROVE GenInv'
  <2>0. home[c] \in Procs
    BY Zenon
  <2>1. UNCHANGED <<conn, loop, gen>>
    BY ZenonT(60), <1>8 DEF Client, TryRefused, TryError, TryInterrupted, TryLocked, LockRetry, LockGiveUp,
                Unlock, UnlockStale, UnlockExec, UnlockError, CancelChild
  <2>2. SessFalls
    <3>1. CASE UNCHANGED sess
      BY Zenon, <3>1 DEF SessFalls
    <3>2. CASE TryInterrupted(c) \/ UnlockError(c)
      <4>1. conn[home[c]] # 0
        BY Zenon, <3>2 DEF TryInterrupted, UnlockError, Stale
      <4>2. CurSess(home[c]) \in Sessions
        BY Zenon, <1>0, <2>0, <4>1, CurSessType
      <4>3. QED
        BY Zenon, <1>0, <3>2, <4>2, SessStep DEF TryInterrupted, UnlockError
    <3>3. QED
      BY Zenon, <1>8, <3>1, <3>2 DEF Client, TryRefused, TryError, TryLocked, LockRetry, LockGiveUp,
                Unlock, UnlockStale, UnlockExec, CancelChild
  <2>3. QED
    BY Zenon, <1>0, <2>1, <2>2, GenKept
<1>9. ASSUME NEW c \in Clients,
             \/ \E op \in {"Lock", "TryLock"}, k \in Keys : Call(c, op, k)
             \/ CancelParent(c) \/ Unwatch(c)
      PROVE GenInv'
  <2>1. UNCHANGED <<conn, loop, sess, gen>>
    BY Zenon, <1>9 DEF Call, CancelParent, Unwatch
  <2>2. QED
    BY Zenon, <1>5, <2>1
<1>10. CASE UNCHANGED vars
  BY Zenon, <1>5, <1>10 DEF vars
<1>11. QED
  BY Zenon, <1>1, <1>2, <1>3, <1>4, <1>6, <1>7, <1>8, <1>9, <1>10 DEF Next, Background, Environment

(* The generation test of unlock: a watcher that passes it belongs to the  *)
(* current connection, and its key is recorded in cur.                     *)
LEMMA CurrentHandle ==
  ASSUME IInv, NEW c \in Clients, handle[c].pc \in {"held", "releasing"}, ~Stale(c)
  PROVE  /\ home[c] \in Procs /\ conn[home[c]] # 0
         /\ handle[c].sess = conn[home[c]] /\ ~Gone(c)
         /\ handle[c].key \in cur[home[c]]
<1> DEFINE p == home[c]
           h == handle[c]
<1>1. p \in Procs /\ h \in Handles /\ conn[p] \in 1..MaxConn /\ gen[p] \in 0..MaxConn
  BY DEF IInv, TypeOK, Stale
<1>2. gen[p] = conn[p] /\ loop[p] = "wait"
  BY <1>1 DEF IInv, GenInv
<1>3. h.sess \in 1..MaxConn /\ sess[<<p, h.sess>>] # "new" /\ h.gen \in {h.sess, -1} /\ h.gen >= gen[p]
  <2>1. h.sess \in 1..MaxConn /\ sess[<<p, h.sess>>] # "new" /\ h.gen \in {h.sess, -1}
    BY Zenon DEF IInv, HandleInv, Granted, SessOf
  <2>2. h.gen \in Int /\ ~(h.gen < gen[p])
    BY <2>1 DEF Stale
  <2>3. QED
    BY <1>1, <2>1, <2>2
<1>4. h.gen = h.sess /\ h.sess >= gen[p]
  BY <1>1, <1>2, <1>3
<1>5. ~(h.sess > gen[p])
  BY <1>1, <1>2, <1>3 DEF IInv, GenInv
<1>6. h.sess = conn[p]
  BY <1>1, <1>2, <1>3, <1>4, <1>5
<1>7. QED
  BY <1>1, <1>6 DEF Gone, IInv, HandleInv, Granted

(* Every step keeps a lock with one live session.                          *)
LEMMA ServerStep == IInv /\ [Next]_vars => ServerInv'
<1> SUFFICES ASSUME IInv, [Next]_vars PROVE ServerInv'
  BY Zenon
<1> USE DEF locker, server
<1>0. TypeOK /\ TypeOK' /\ GenInv /\ ServerInv
  BY Zenon, TypeStep DEF IInv
<1> DEFINE Quiet == \A s \in Sessions : sess'[s] \in {"new", "gone"} => \A b \in Hashes : depth'[s][b] = 0
           Alone == \A s, t \in Sessions, b \in Hashes : s # t /\ depth'[s][b] > 0 => depth'[t][b] = 0
<1>1. ASSUME NEW p \in Procs, Background(p) PROVE ServerInv'
  <2>1. UNCHANGED depth
    BY Zenon, <1>1 DEF Background, Reconnect, ReconnectExit, WakePing, WakeExit, Ping, NewReady, NewCancelled
  <2>2. \A s \in Sessions : sess'[s] \in {"new", "gone"} => sess'[s] = sess[s]
    <3>1. CASE Reconnect(p)
      <4> DEFINE n == <<p, gen[p] + 1>>
      <4>1. n \in Sessions
        BY Zenon, <1>0, <3>1, NextFresh
      <4>2. sess' = [sess EXCEPT ![n] = "up"] \/ sess' = [sess EXCEPT ![n] = "closing"]
        BY Zenon, <3>1 DEF Reconnect
      <4> HIDE DEF n
      <4>3. QED
        BY SMTT(90), <1>0, <4>1, <4>2 DEF TypeOK
    <3>2. CASE ~Reconnect(p)
      BY Zenon, <1>1, <3>2 DEF Background, ReconnectExit, WakePing, WakeExit, Ping, NewReady, NewCancelled
    <3>3. QED
      BY Zenon, <3>1, <3>2
  <2>3. QED
    BY Zenon, <1>0, <2>1, <2>2 DEF ServerInv
<1>2. ASSUME NEW s \in Sessions, Drop(s) \/ SessionEnd(s) PROVE ServerInv'
  <2>1. CASE Drop(s)
    BY <1>0, <2>1 DEF Drop, ServerInv, TypeOK
  <2>2. CASE SessionEnd(s)
    BY <1>0, <2>2 DEF SessionEnd, ServerInv, TypeOK
  <2>3. QED
    BY Zenon, <1>2, <2>1, <2>2
<1>3. ASSUME NEW s \in Sessions, NEW b \in Hashes, sess[s] = "up",
             sess' = sess \/ sess' = [sess EXCEPT ![s] = "closing"],
             \/ UNCHANGED depth
             \/ Grantable(s, b) /\ depth' = [depth EXCEPT ![s][b] = @ + 1]
             \/ depth' = [depth EXCEPT ![s][b] = AdvisoryUnlock(@)]
      PROVE ServerInv'
  <2>1. sess'[s] \in {"up", "closing"} /\ \A t \in Sessions : t # s => sess'[t] = sess[t]
    BY <1>0, <1>3 DEF TypeOK
  <2>2. \A t \in Sessions, a \in Hashes : t # s \/ a # b => depth'[t][a] = depth[t][a]
    BY <1>0, <1>3 DEF TypeOK
  <2>3. depth[s][b] \in Nat /\ (depth'[s][b] > 0 => depth[s][b] > 0 \/ Grantable(s, b))
    BY SMTT(90), <1>0, <1>3 DEF TypeOK, AdvisoryUnlock
  <2>4. Quiet
    BY <1>0, <2>1, <2>2 DEF ServerInv
  <2>5. \A t \in Sessions : t # s /\ depth'[s][b] > 0 => depth[t][b] = 0
    BY Zenon, <1>0, <2>3 DEF ServerInv, Grantable
  <2>6. \A t \in Sessions : t # s /\ depth[t][b] > 0 => depth'[s][b] = 0
    BY SMTT(90), <1>0, <2>3, <2>5 DEF TypeOK
  <2>7. Alone
    BY <1>0, <2>2, <2>5, <2>6 DEF ServerInv
  <2>8. QED
    BY Zenon, <2>4, <2>7 DEF ServerInv
<1>4. CASE UNCHANGED <<sess, depth>>
  BY Zenon, <1>0, <1>4 DEF ServerInv
<1>5. ASSUME NEW c \in Clients, Client(c) PROVE ServerInv'
  <2>0. home[c] \in Procs /\ keyify[handle[c].key] \in Hashes
    BY Zenon, <1>0 DEF TypeOK, Handles
  <2>1. CASE TryInterrupted(c) \/ TryLocked(c) \/ UnlockExec(c) \/ UnlockError(c)
    <3>1. CurSess(home[c]) \in Sessions
      BY Zenon, <1>0, <2>0, <2>1, CurSessType DEF TryInterrupted, TryLocked, UnlockExec, UnlockError, Stale
    <3>2. CASE sess[CurSess(home[c])] = "up"
      BY Zenon, <1>3, <2>0, <2>1, <3>1, <3>2 DEF TryInterrupted, TryLocked, UnlockExec, UnlockError
    <3>3. CASE sess[CurSess(home[c])] # "up"
      BY Zenon, <1>4, <2>1, <3>3 DEF TryInterrupted, TryLocked, UnlockExec, UnlockError
    <3>4. QED
      BY Zenon, <3>2, <3>3
  <2>2. CASE ~(TryInterrupted(c) \/ TryLocked(c) \/ UnlockExec(c) \/ UnlockError(c))
    BY Zenon, <1>4, <1>5, <2>2 DEF Client, Unlock, TryRefused, TryError, LockRetry, LockGiveUp, UnlockStale, CancelChild
  <2>3. QED
    BY Zenon, <2>1, <2>2
<1>6. ASSUME Environment, ~\E s \in Sessions : Drop(s) \/ SessionEnd(s) PROVE ServerInv'
  BY Zenon, <1>4, <1>6 DEF Environment, Close, CancelNew, Call, CancelParent, Unwatch
<1>7. CASE UNCHANGED vars
  BY Zenon, <1>4, <1>7 DEF vars
<1>8. QED
  BY Zenon, <1>1, <1>2, <1>5, <1>6, <1>7 DEF Next

(* Counting sets of keys.  The modules that follow take this from their    *)
(* hypotheses; it holds because there are finitely many keys.              *)
Counting ==
  /\ Cardinality({}) = 0
  /\ \A S \in SUBSET Keys :
       /\ Cardinality(S) \in Nat /\ (S # {} => Cardinality(S) # 0)
       /\ \A k \in Keys \ S : Cardinality(S \union {k}) = Cardinality(S) + 1
       /\ \A k \in S : Cardinality(S \ {k}) = Cardinality(S) - 1

(* The keys of one hash that a process holds are keys.                     *)
LEMMA HashKeysType ==
  ASSUME TypeOK, NEW p \in Procs, NEW b \in Hashes
  PROVE  HashKeys(p, b) \in SUBSET Keys
  BY Zenon DEF HashKeys, TypeOK

(* Only a successful try creates a granted handle; every other step leaves *)
(* what the watcher captured alone, and strobes only a torn down one.      *)
Same(d) ==
  /\ Granted(d)
  /\ handle'[d].sess = handle[d].sess /\ handle'[d].gen = handle[d].gen
  /\ handle'[d].key = handle[d].key
  /\ handle'[d].pc = "strobed" => handle[d].pc = "strobed" \/ Gone(d)

(* A handle that is granted and was not just now keeps key and session.    *)
LEMMA GrantedKept ==
  ASSUME TypeOK, NEW d \in Clients, Granted(d)', [Next]_vars, ~TryLocked(d)
  PROVE  Same(d)
<1> USE DEF locker, server
<1>0. handle \in [Clients -> Handles]
  BY Zenon DEF TypeOK
<1>1. CASE UNCHANGED handle
  BY Zenon, <1>1 DEF Same, Granted
<1>2. ASSUME NEW c \in Clients, Client(c), c # d PROVE Same(d)
  <2>1. handle'[d] = handle[d]
    BY Zenon, <1>0, <1>2 DEF Client, TryRefused, TryError, TryInterrupted, TryLocked, Failed, LockRetry,
       LockGiveUp, Unlock, UnlockStale, UnlockExec, UnlockError, OnCancel, CancelChild
  <2>2. QED
    BY Zenon, <2>1 DEF Same, Granted
<1>3. ASSUME Client(d) PROVE Same(d)
  <2>1. CASE TryRefused(d) \/ TryError(d) \/ TryInterrupted(d)
    <3>1. \E done \in BOOLEAN : Failed(d, done)
      BY Zenon, <1>0, <2>1 DEF TryRefused, TryError, TryInterrupted, Handles
    <3>2. handle'[d].pc \in {"idle", "backoff"}
      BY <1>0, <3>1, IdleType DEF Failed, Handles
    <3>3. QED
      BY Zenon, <3>2 DEF Granted
  <2>2. CASE LockRetry(d)
    BY Zenon, <1>0, <2>2 DEF LockRetry, Granted, Handles
  <2>3. CASE LockGiveUp(d)
    BY Zenon, <1>0, <2>3, IdleType DEF LockGiveUp, Granted
  <2>4. CASE Unlock(d)
    <3>1. \E done \in BOOLEAN : OnCancel(d, done)
      BY Zenon, <1>0, <2>4 DEF Unlock, UnlockStale, UnlockExec, UnlockError, Handles
    <3>2. QED
      BY <1>0, <3>1 DEF OnCancel, Granted, Same, Handles
  <2>5. CASE CancelChild(d)
    BY Zenon, <1>0, <2>5, IdleType DEF CancelChild, Granted, Handles
  <2>6. QED
    BY Zenon, <1>3, <2>1, <2>2, <2>3, <2>4, <2>5 DEF Client
<1>4. ASSUME NEW c \in Clients, NEW op \in {"Lock", "TryLock"}, NEW k \in Keys, Call(c, op, k) PROVE Same(d)
  <2>1. Idle \in Handles
    BY Zenon, IdleType
  <2>2. CASE c = d
    BY Zenon, <1>0, <1>4, <2>1, <2>2 DEF Call, Granted, Handles
  <2>3. CASE c # d
    BY Zenon, <1>0, <1>4, <2>3 DEF Call, Granted, Same
  <2>4. QED
    BY Zenon, <2>2, <2>3
<1>5. ASSUME NEW c \in Clients, CancelParent(c) PROVE Same(d)
  BY Zenon, <1>0, <1>5 DEF CancelParent, Granted, Same, Handles
<1>6. ASSUME NEW c \in Clients, Unwatch(c) PROVE Same(d)
  <2>1. CASE c = d
    BY Zenon, <1>0, <1>6, <2>1, IdleType DEF Unwatch, Granted, Same, Handles
  <2>2. CASE c # d
    BY Zenon, <1>0, <1>6, <2>2 DEF Unwatch, Granted, Same
  <2>3. QED
    BY Zenon, <2>1, <2>2
<1>7. CASE UNCHANGED vars
  BY Zenon, <1>1, <1>7 DEF vars
<1>8. ASSUME NEW p \in Procs, Background(p) PROVE Same(d)
  BY Zenon, <1>1, <1>8 DEF Background, Reconnect, ReconnectExit, WakePing, WakeExit, Ping, NewReady, NewCancelled
<1>9. ASSUME Environment PROVE Same(d)
  BY Zenon, <1>1, <1>4, <1>5, <1>6, <1>9 DEF Environment, Close, CancelNew, Drop, SessionEnd
<1>10. QED
  BY Zenon, <1>2, <1>3, <1>7, <1>8, <1>9 DEF Next

(* Every step keeps one grant per key and session.                         *)
LEMMA UniqueStep == IInv /\ [Next]_vars => UniqueInv'
<1> SUFFICES ASSUME IInv, [Next]_vars, NEW c \in Clients, NEW d \in Clients,
                    c # d, Granted(c)', Granted(d)', SessOf(c)' = SessOf(d)'
             PROVE  handle'[c].key # handle'[d].key
  BY Zenon DEF UniqueInv
<1>0. TypeOK /\ UniqueInv /\ HandleInv /\ GenInv
  BY Zenon DEF IInv
<1>1. CASE ~TryLocked(c) /\ ~TryLocked(d)
  <2>1. Same(c) /\ Same(d)
    BY Zenon, <1>0, <1>1, GrantedKept
  <2>2. QED
    BY Zenon, <1>0, <2>1 DEF UniqueInv, Same, SessOf
<1>2. ASSUME NEW a \in Clients, NEW e \in Clients, a # e, TryLocked(a), Granted(e)', SessOf(a)' = SessOf(e)'
      PROVE  handle'[a].key # handle'[e].key
  <2>1. ~TryLocked(e) /\ handle'[e] = handle[e]
    BY ZenonT(30), <1>0, <1>2 DEF TryLocked, TypeOK, Granted, Handles
  <2>2. Granted(e)
    BY Zenon, <1>2, <2>1 DEF Granted
  <2>3. /\ handle'[a].sess = conn[home[a]] /\ handle'[a].key = handle[a].key
        /\ handle[a].key \notin cur[home[a]] /\ home[a] = home[e]
    BY <1>0, <1>2 DEF TryLocked, TypeOK, SessOf, Handles
  <2>4. ~Gone(e)
    BY Zenon, <1>2, <2>1, <2>3 DEF Gone, SessOf
  <2>5. QED
    BY Zenon, <1>0, <2>1, <2>2, <2>3, <2>4 DEF HandleInv
<1>3. QED
  BY Zenon, <1>1, <1>2

(* HandleInv for one client.                                               *)
HandleOK(d) ==
  /\ handle[d].sess \in 1..MaxConn /\ sess[SessOf(d)] # "new"
  /\ handle[d].gen \in {handle[d].sess, -1}
  /\ handle[d].gen = -1 => gen[home[d]] = -1 /\ loop[home[d]] # "acquire"
  /\ handle[d].pc = "strobed" => Gone(d)
  /\ ~Gone(d) => handle[d].key \in cur[home[d]]
  /\ sess[SessOf(d)] # "gone" => depth[SessOf(d)][keyify[handle[d].key]] > 0

(* Every step keeps a granted handle tied to its session and lock.         *)
LEMMA HandleStep == Counting /\ IInv /\ [Next]_vars => HandleInv'
<1> SUFFICES ASSUME Counting, IInv, [Next]_vars, NEW d \in Clients, Granted(d)' PROVE HandleOK(d)'
  BY Zenon DEF HandleInv, HandleOK
<1> USE DEF locker, server
<1> DEFINE h == home[d]
           t == SessOf(d)
           a == keyify[handle[d].key]
<1>0. TypeOK /\ TypeOK' /\ GenInv /\ ServerInv /\ CurInv /\ HandleInv /\ UniqueInv /\ h \in Procs
  BY Zenon, TypeStep DEF IInv
<1>1. CASE TryLocked(d)
  <2>1. conn[h] # 0 /\ CurSess(h) \in Sessions /\ sess[CurSess(h)] = "up" /\ UNCHANGED <<conn, gen, loop, sess>>
    BY Zenon, <1>0, <1>1, CurSessType DEF TryLocked
  <2>2. /\ handle'[d].sess = conn[h] /\ handle'[d].gen = gen[h]
        /\ handle'[d].pc = "held" /\ handle'[d].key = handle[d].key
    BY SMTT(90), <1>0, <1>1 DEF TryLocked, TypeOK, Handles
  <2>3. handle[d].key \in cur'[h]
    BY Zenon, <1>0, <1>1 DEF TryLocked, TypeOK
  <2>4. a \in Hashes /\ depth'[CurSess(h)][a] > 0
    BY SMTT(90), <1>0, <1>1, <2>1 DEF TryLocked, TypeOK, Handles
  <2>5. conn[h] \in 1..MaxConn /\ gen[h] \in {conn[h], -1} /\ loop[h] = "wait"
    BY <1>0, <2>1 DEF GenInv, TypeOK
  <2>6. QED
    BY Zenon, <2>1, <2>2, <2>3, <2>4, <2>5 DEF HandleOK, SessOf, CurSess, Gone
<1>2. CASE ~TryLocked(d)
  <2>1. Same(d) /\ HandleOK(d)
    BY Zenon, <1>0, <1>2, GrantedKept DEF HandleInv, HandleOK, Same
  <2>2. /\ t \in Sessions /\ a \in Hashes /\ SessOf(d)' = t /\ handle'[d].key = handle[d].key
        /\ handle[d].sess \in 1..MaxConn /\ keyify[handle'[d].key] = a
    BY Zenon, <1>0, <2>1 DEF HandleOK, Same, SessOf, Sessions, TypeOK, Handles
  \* What remains to be shown of a step.
  <2>3. ASSUME sess'[t] # "new",
               handle[d].gen = -1 => gen'[h] = -1 /\ loop'[h] # "acquire",
               conn'[h] = conn[h] \/ conn'[h] # handle[d].sess,
               conn'[h] = handle[d].sess => handle[d].key \in cur'[h],
               sess'[t] # "gone" => depth'[t][a] > 0
        PROVE HandleOK(d)'
    BY Zenon, <2>1, <2>2, <2>3 DEF HandleOK, Same, Gone
  \* The Locker's own state is as before, or shutting down.
  <2>4. ASSUME UNCHANGED <<loop, conn>>, gen'[h] \in {gen[h], -1}, SessFalls,
               conn[h] = handle[d].sess => handle[d].key \in cur'[h],
               sess'[t] # "gone" => depth'[t][a] > 0
        PROVE HandleOK(d)'
    <3>1. sess'[t] # "new"
      BY Zenon, <2>1, <2>2, <2>4 DEF SessFalls, HandleOK
    <3>2. QED
      BY Zenon, <2>1, <2>3, <2>4, <3>1 DEF HandleOK
  <2>5. ASSUME UNCHANGED <<loop, conn, cur>>, gen'[h] \in {gen[h], -1}, UNCHANGED <<sess, depth>>
        PROVE HandleOK(d)'
    BY Zenon, <2>1, <2>2, <2>4, <2>5 DEF SessFalls, HandleOK, Gone
  <2>6. ASSUME NEW p \in Procs, Reconnect(p) PROVE HandleOK(d)'
    <3> DEFINE n == <<p, gen[p] + 1>>
    <3>1. n \in Sessions /\ sess[n] = "new" /\ gen[p] + 1 \in Nat \ {0} /\ gen[p] \in Nat
      BY <1>0, <2>6, NextFresh
    <3>2. sess'[t] = sess[t] /\ UNCHANGED depth /\ t # n
      <4>1. sess' = [sess EXCEPT ![n] = "up"] \/ sess' = [sess EXCEPT ![n] = "closing"]
        BY Zenon, <2>6 DEF Reconnect
      <4>2. t # n
        BY Zenon, <2>1, <3>1 DEF HandleOK
      <4> HIDE DEF n, t
      <4>3. sess'[t] = sess[t]
        BY <1>0, <2>2, <4>1, <4>2 DEF TypeOK
      <4>4. QED
        BY Zenon, <2>6, <4>2, <4>3 DEF Reconnect
    <3>3. CASE h = p
      <4>1. handle[d].gen # -1 /\ handle[d].sess # gen[p] + 1 /\ handle[d].sess # 0
        BY <2>1, <2>6, <3>2, <3>3 DEF HandleOK, Reconnect, SessOf
      <4>2. conn'[p] \in {0, gen[p] + 1}
        BY <1>0, <2>6 DEF Reconnect, GenInv, TypeOK
      <4>3. conn'[h] # handle[d].sess
        BY Zenon, <3>3, <4>1, <4>2
      <4>4. sess'[t] # "new" /\ (sess'[t] # "gone" => depth'[t][a] > 0)
        BY Zenon, <2>1, <3>2 DEF HandleOK
      <4>5. QED
        BY Zenon, <2>3, <4>1, <4>3, <4>4
    <3>4. CASE h # p
      <4>1. conn'[h] = conn[h] /\ gen'[h] = gen[h] /\ loop'[h] = loop[h] /\ cur'[h] = cur[h]
        BY SMTT(90), <1>0, <2>6, <3>4 DEF Reconnect, TypeOK
      <4>2. QED
        BY Zenon, <2>1, <2>2, <2>3, <3>2, <4>1 DEF HandleOK, Gone
    <3>5. QED
      BY Zenon, <3>3, <3>4
  <2>7. ASSUME NEW p \in Procs, ReconnectExit(p) PROVE HandleOK(d)'
    <3>1. UNCHANGED <<conn, cur, sess, depth>>
      BY Zenon, <2>7 DEF ReconnectExit
    <3>2. handle[d].gen = -1 => gen'[h] = -1 /\ loop'[h] # "acquire"
      BY <1>0, <2>1, <2>7 DEF ReconnectExit, HandleOK, TypeOK
    <3>3. QED
      BY Zenon, <2>1, <2>2, <2>3, <3>1, <3>2 DEF HandleOK, Gone
  <2>8. ASSUME NEW p \in Procs, NEW next \in {"acquire", "exited"}, Teardown(p, next),
               next = "acquire" => gen[p] > 0, UNCHANGED <<gen, sess, depth>>
        PROVE HandleOK(d)'
    <3>1. CASE h = p
      <4>1. conn'[h] = 0 /\ loop'[h] = next
        BY <1>0, <2>8, <3>1 DEF Teardown, TypeOK
      <4>2. handle[d].gen = -1 => gen[h] = -1 /\ next # "acquire"
        <5>1. gen[h] = -1 => ~(gen[h] > 0)
          OBVIOUS
        <5>2. QED
          BY Zenon, <2>1, <2>8, <3>1, <5>1 DEF HandleOK
      <4>3. conn'[h] # handle[d].sess
        BY <2>2, <4>1
      <4>4. sess'[t] # "new" /\ (sess'[t] # "gone" => depth'[t][a] > 0)
        BY Zenon, <2>1, <2>8 DEF HandleOK
      <4>5. QED
        BY Zenon, <2>3, <2>8, <4>1, <4>2, <4>3, <4>4
    <3>2. CASE h # p
      <4>1. conn'[h] = conn[h] /\ loop'[h] = loop[h] /\ cur'[h] = cur[h]
        BY <1>0, <2>8, <3>2 DEF Teardown, TypeOK
      <4>2. QED
        BY Zenon, <2>1, <2>2, <2>3, <2>8, <4>1 DEF HandleOK, Gone
    <3>3. QED
      BY Zenon, <3>1, <3>2
  <2>9. ASSUME NEW p \in Procs, WakePing(p) PROVE HandleOK(d)'
    <3>1. CASE sess[CurSess(p)] = "up" /\ ctx[p]
      BY Zenon, <2>5, <2>9, <3>1 DEF WakePing
    <3>2. CASE ~(sess[CurSess(p)] = "up" /\ ctx[p])
      BY Zenon, <2>8, <2>9, <3>2 DEF WakePing
    <3>3. QED
      BY Zenon, <3>1, <3>2
  <2>10. ASSUME NEW p \in Procs, WakeExit(p) PROVE HandleOK(d)'
    BY Zenon, <2>8, <2>10 DEF WakeExit
  <2>11. ASSUME NEW p \in Procs, Ping(p) \/ NewReady(p) \/ NewCancelled(p) \/ Close(p) \/ CancelNew(p)
         PROVE HandleOK(d)'
    <3>1. gen'[h] \in {gen[h], -1}
      BY SMTT(90), <1>0, <2>11 DEF Ping, NewReady, NewCancelled, Close, CancelNew, DoClose, TypeOK
    <3>2. UNCHANGED <<loop, conn, cur, sess, depth>>
      BY Zenon, <2>11 DEF Ping, NewReady, NewCancelled, Close, CancelNew
    <3>3. QED
      BY Zenon, <2>5, <3>1, <3>2
  <2>12. ASSUME NEW s \in Sessions, Drop(s) \/ SessionEnd(s) PROVE HandleOK(d)'
    <3>1. SessFalls
      BY Zenon, <1>0, <2>12, SessStep DEF Drop, SessionEnd
    <3>2. sess'[t] # "gone" => sess[t] # "gone" /\ depth'[t] = depth[t]
      BY <1>0, <2>2, <2>12 DEF Drop, SessionEnd, TypeOK
    <3>3. UNCHANGED <<loop, conn, cur, gen>>
      BY Zenon, <2>12 DEF Drop, SessionEnd
    <3>4. sess'[t] # "gone" => depth'[t][a] > 0
      BY Zenon, <2>1, <3>2 DEF HandleOK
    <3>5. conn[h] = handle[d].sess => handle[d].key \in cur'[h]
      BY Zenon, <2>1, <3>3 DEF HandleOK, Gone
    <3>6. QED
      BY Zenon, <2>4, <3>1, <3>3, <3>4, <3>5
  <2>13. ASSUME NEW c \in Clients, TryLocked(c) \/ TryInterrupted(c) \/ UnlockExec(c) \/ UnlockError(c)
         PROVE HandleOK(d)'
    <3>p. PICK p : p = home[c]
      BY Zenon
    <3>s. PICK s : s = CurSess(home[c])
      BY Zenon
    <3>b. PICK b : b = keyify[handle[c].key]
      BY Zenon
    <3>0. p = home[c] /\ s = CurSess(p) /\ b = keyify[handle[c].key]
      BY Zenon, <3>p, <3>s, <3>b
    <3>1. p \in Procs /\ handle[c] \in Handles /\ b \in Hashes /\ conn[p] # 0 /\ s \in Sessions
      BY ZenonT(60), <3>0, <1>0, <2>13, CurSessType DEF TryLocked, TryInterrupted, UnlockExec, UnlockError, Stale, TypeOK, Handles
    <3>2. UNCHANGED <<loop, conn, gen>> /\ SessFalls
      BY Zenon, <3>0, <1>0, <2>13, <3>1, SessStep DEF TryLocked, TryInterrupted, UnlockExec, UnlockError
    <3>3. sess'[t] # "gone" => sess[t] # "gone" /\ depth[t][a] > 0
      BY Zenon, <2>1, <2>2, <3>2 DEF SessFalls, HandleOK
    <3>4. CASE TryLocked(c) \/ TryInterrupted(c)
      <4>1. depth[t][a] \in Nat /\ depth'[t][a] \in Nat
        BY <1>0, <2>2 DEF TypeOK
      <4>2. depth'[t][a] >= depth[t][a]
        <5>1. UNCHANGED depth \/ depth' = Up(s, b)
          BY Zenon, <3>0, <3>4 DEF TryLocked, TryInterrupted, Up
        <5> HIDE DEF t, a
        <5>2. CASE UNCHANGED depth
          BY <4>1, <5>2
        <5>3. CASE depth' = Up(s, b)
          <6>1. depth'[s][b] = depth[s][b] + 1 /\ depth[s][b] \in Nat
            BY ZenonT(60), <3>0, <1>0, <3>1, <5>3, DepthCell
          <6>2. t # s \/ a # b => depth'[t][a] = depth[t][a]
            BY SMTT(90), <3>0, <1>0, <2>2, <3>1, <5>3, DepthCell
          <6>3. QED
            BY <4>1, <6>1, <6>2
        <5>4. QED
          BY Zenon, <5>1, <5>2, <5>3
      <4>3. handle[d].key \in cur[h] => handle[d].key \in cur'[h]
        <5>1. UNCHANGED cur \/ cur' = [cur EXCEPT ![p] = @ \union {handle[c].key}]
          BY Zenon, <3>0, <3>4 DEF TryLocked, TryInterrupted
        <5>2. cur[h] \subseteq cur'[h]
          <6>1. CASE h = p
            <7>1. cur'[p] = cur[p] \/ cur'[p] = cur[p] \union {handle[c].key}
              BY <1>0, <3>1, <5>1 DEF TypeOK
            <7>2. QED
              BY Zenon, <6>1, <7>1
          <6>2. CASE h # p
            <7>1. cur'[h] = cur[h]
              <8>1. cur \in [Procs -> SUBSET Keys] /\ p \in Procs /\ h \in Procs
                BY Zenon, <1>0, <3>1 DEF TypeOK
              <8>2. QED
                BY Zenon, <5>1, <6>2, <8>1, CurElsewhere
            <7>2. QED
              BY Zenon, <7>1
          <6>3. QED
            BY Zenon, <6>1, <6>2
        <5>3. QED
          BY Zenon, <5>2
      <4>4. sess'[t] # "gone" => depth'[t][a] > 0
        BY SMTT(90), <3>3, <4>1, <4>2
      <4>5. conn[h] = handle[d].sess => handle[d].key \in cur'[h]
        BY Zenon, <2>1, <4>3 DEF HandleOK, Gone
      <4>6. QED
        BY Zenon, <2>4, <3>2, <4>4, <4>5
    <3>5. CASE (UnlockExec(c) \/ UnlockError(c)) /\ depth' # depth
      <4>0. handle[c].pc \in {"held", "releasing"} /\ ~Stale(c) /\ Granted(c)
        BY Zenon, <3>0, <3>5 DEF UnlockExec, UnlockError, OnCancel, Granted
      <4>1. handle[c].sess = conn[p] /\ ~Gone(c) /\ handle[c].key \in cur[p]
        BY Zenon, <3>0, <4>0, CurrentHandle
      <4>2. sess[s] = "up" /\ depth' = Down(s, b)
        BY ZenonT(60), <3>0, <3>5 DEF UnlockExec, UnlockError, Down
      <4>3. c # d
        BY SMTT(90), <3>0, <1>0, <3>5, <4>1 DEF UnlockExec, UnlockError, OnCancel, Granted, TypeOK, Handles
      <4>4. t = s => handle[d].key # handle[c].key
        BY Zenon, <3>0, <1>0, <2>1, <4>0, <4>1, <4>3 DEF UniqueInv, Same, SessOf, CurSess
      <4>5. conn[h] = handle[d].sess => handle[d].key \in cur'[h]
        <5>0. UNCHANGED cur \/ cur' = [cur EXCEPT ![p] = @ \ {handle[c].key}]
          BY Zenon, <3>0, <3>5 DEF UnlockExec, UnlockError, Down
        <5>1. CASE h # p
          BY SMTT(90), <3>0, <1>0, <2>1, <3>1, <5>0, <5>1 DEF TypeOK, HandleOK, Gone
        <5>2. CASE h = p
          <6>1. conn[h] = handle[d].sess => t = s
            BY Zenon, <3>0, <5>2 DEF SessOf, CurSess
          <6>2. conn[h] = handle[d].sess => handle[d].key \in cur[p] /\ handle[d].key # handle[c].key
            BY Zenon, <2>1, <4>4, <5>2, <6>1 DEF HandleOK, Gone
          <6>3. QED
            BY SMTT(90), <3>0, <1>0, <3>1, <5>0, <5>2, <6>2 DEF TypeOK
        <5>3. QED
          BY Zenon, <5>1, <5>2
      <4>6. sess'[t] # "gone" => depth'[t][a] > 0
        <5>1. CASE t # s \/ a # b
          BY SMTT(90), <1>0, <2>2, <3>1, <3>3, <4>2, <5>1, DepthCell
        <5>2. CASE t = s /\ a = b
          <6>1. h = p /\ handle[d].key \in cur[p] /\ handle[d].key # handle[c].key
            BY SMTT(90), <3>0, <2>1, <4>4, <5>2 DEF SessOf, CurSess, HandleOK, Gone
          <6>2. depth[s][b] = Cardinality(HashKeys(p, b))
            BY Zenon, <3>0, <1>0, <3>1, <4>2 DEF CurInv
          <6>3. handle[c].key \in HashKeys(p, b) /\ handle[d].key \in HashKeys(p, b)
            BY Zenon, <3>0, <3>1, <4>1, <5>2, <6>1 DEF HashKeys, Handles
          <6>4. HashKeys(p, b) \in SUBSET Keys
            BY Zenon, <1>0, <3>1, HashKeysType
          <6>5. depth[s][b] - 1 \in Nat \ {0}
            <7> DEFINE S == HashKeys(p, b)
            <7>1. S \in SUBSET Keys /\ handle[c].key \in S /\ S \ {handle[c].key} # {}
              BY Zenon, <6>1, <6>3, <6>4
            <7> HIDE DEF S
            <7>2. S \ {handle[c].key} \in SUBSET Keys
              BY Zenon, <7>1
            <7>3. Cardinality(S \ {handle[c].key}) \in Nat \ {0}
              BY Zenon, <7>1, <7>2 DEF Counting
            <7>4. Cardinality(S \ {handle[c].key}) = Cardinality(S) - 1
              BY Zenon, <7>1 DEF Counting
            <7>5. QED
              BY Zenon, <6>2, <7>3, <7>4 DEF S
          <6>6. depth'[s][b] = AdvisoryUnlock(depth[s][b]) /\ depth[s][b] \in Nat
            BY Zenon, <1>0, <3>1, <4>2, DepthCell
          <6>7. AdvisoryUnlock(depth[s][b]) = depth[s][b] - 1
            BY <6>5, <6>6 DEF AdvisoryUnlock
          <6>8. depth'[s][b] > 0
            BY SMTT(90), <6>5, <6>6, <6>7
          <6> HIDE DEF t, a
          <6>9. QED
            BY Zenon, <5>2, <6>8
        <5>3. QED
          BY Zenon, <5>1, <5>2
      <4>7. QED
        BY Zenon, <2>4, <3>2, <4>5, <4>6
    <3>6. CASE UnlockError(c) /\ depth' = depth
      <4>1. UNCHANGED <<cur, depth>>
        BY Zenon, <3>6 DEF UnlockError
      <4>2. sess'[t] # "gone" => depth'[t][a] > 0
        BY Zenon, <3>3, <4>1
      <4>3. conn[h] = handle[d].sess => handle[d].key \in cur'[h]
        BY Zenon, <2>1, <4>1 DEF HandleOK, Gone
      <4>4. QED
        BY Zenon, <2>4, <3>2, <4>2, <4>3
    <3>7. CASE UnlockExec(c) /\ depth' = depth
      <4>0. handle[c].pc \in {"held", "releasing"} /\ ~Stale(c) /\ Granted(c)
        BY Zenon, <3>0, <3>7 DEF UnlockExec, OnCancel, Granted
      <4>1. handle[c].sess = conn[p] /\ ~Gone(c)
        BY Zenon, <3>0, <4>0, CurrentHandle
      <4>2. depth[s][b] > 0
        BY Zenon, <3>0, <1>0, <3>7, <4>0, <4>1 DEF HandleInv, UnlockExec, SessOf, CurSess
      <4>3. depth' = Down(s, b)
        BY Zenon, <3>0, <3>7 DEF UnlockExec, Down
      <4>4. depth'[s][b] = AdvisoryUnlock(depth[s][b]) /\ depth[s][b] \in Nat
        BY Zenon, <3>0, <1>0, <3>1, <4>3, DepthCell
      <4>5. depth'[s][b] = depth[s][b]
        BY Zenon, <3>7
      <4>6. QED
        BY <4>2, <4>4, <4>5 DEF AdvisoryUnlock
    <3>8. QED
      BY Zenon, <2>13, <3>4, <3>5, <3>6, <3>7
  <2>14. ASSUME NEW c \in Clients, Client(c) PROVE HandleOK(d)'
    <3>1. CASE UNCHANGED <<loop, conn, cur, gen, sess, depth>>
      BY Zenon, <2>5, <3>1
    <3>2. QED
      BY Zenon, <2>13, <2>14, <3>1 DEF Client, Unlock, TryRefused, TryError, LockRetry, LockGiveUp, UnlockStale, CancelChild
  <2>15. ASSUME Environment PROVE HandleOK(d)'
    <3>1. CASE UNCHANGED <<loop, conn, cur, gen, sess, depth>>
      BY Zenon, <2>5, <3>1
    <3>2. QED
      BY Zenon, <2>11, <2>12, <2>15, <3>1 DEF Environment, Call, CancelParent, Unwatch
  <2>16. CASE UNCHANGED vars
    BY Zenon, <2>5, <2>16 DEF vars
  <2>17. QED
    BY Zenon, <2>6, <2>7, <2>9, <2>10, <2>11, <2>14, <2>15, <2>16 DEF Next, Background
<1>3. QED
  BY Zenon, <1>1, <1>2

-----------------------------------------------------------------------------
(* pg_advisory_unlock of a lock that is held takes one off its count. *)
LEMMA UnlockHeld == \A n \in Nat : n # 0 => AdvisoryUnlock(n) = n - 1
  BY Zenon DEF AdvisoryUnlock

(* Every step keeps cur and the locks of the session equal.                *)
LEMMA CurStep == Counting /\ IInv /\ [Next]_vars => CurInv'
<1> SUFFICES ASSUME Counting, IInv, [Next]_vars PROVE CurInv'
  BY Zenon
<1> USE DEF locker, server
<1>0. TypeOK /\ TypeOK' /\ GenInv /\ ServerInv /\ CurInv
  BY Zenon, TypeStep DEF IInv
<1> DEFINE Count(q) == conn'[q] # 0 /\ sess'[<<q, conn'[q]>>] = "up"
                       => \A b \in Hashes : depth'[<<q, conn'[q]>>][b] = Cardinality(HashKeys(q, b)')
<1>1. SUFFICES ASSUME NEW q \in Procs PROVE Count(q)
  BY Zenon DEF CurInv, CurSess
<1>2. ASSUME conn'[q] = conn[q], cur'[q] = cur[q],
             conn[q] # 0 /\ sess'[<<q, conn[q]>>] = "up"
             => sess[<<q, conn[q]>>] = "up" /\ depth'[<<q, conn[q]>>] = depth[<<q, conn[q]>>]
      PROVE Count(q)
  <2>1. \A b \in Hashes : HashKeys(q, b)' = HashKeys(q, b)
    BY Zenon, <1>2 DEF HashKeys
  <2>2. QED
    BY Zenon, <1>0, <1>2, <2>1 DEF CurInv, CurSess
<1>3. ASSUME NEW p \in Procs, Background(p) PROVE Count(q)
  <2>0. UNCHANGED depth
    BY Zenon, <1>3 DEF Background, Reconnect, ReconnectExit, WakePing, WakeExit, Ping, NewReady, NewCancelled
  <2>1. CASE Reconnect(p)
    <3>1. <<p, gen[p] + 1>> \in Sessions /\ sess[<<p, gen[p] + 1>>] = "new" /\ conn[p] = 0
      BY Zenon, <1>0, <2>1, NextFresh
    <3>2. CASE q # p
      <4>1. conn'[q] = conn[q] /\ cur'[q] = cur[q]
        BY SMTT(30), <1>0, <2>1, <3>2 DEF Reconnect, TypeOK
      <4>2. conn[q] # 0 => sess'[<<q, conn[q]>>] = sess[<<q, conn[q]>>]
        BY SMTT(30), <1>0, <2>1, <3>1, <3>2, CurSessType DEF Reconnect, TypeOK, CurSess
      <4>3. QED
        BY Zenon, <1>2, <2>0, <4>1, <4>2
    <3>3. CASE q = p
      <4>1. cur'[p] = {} /\ conn'[p] \in {0, gen[p] + 1}
        BY SMTT(30), <1>0, <2>1, <3>1 DEF Reconnect, TypeOK
      <4>2. \A b \in Hashes : HashKeys(p, b)' = {} /\ depth[<<p, gen[p] + 1>>][b] = 0
        BY Zenon, <1>0, <3>1, <4>1 DEF HashKeys, ServerInv
      <4>3. QED
        BY Zenon, <2>0, <3>3, <4>1, <4>2 DEF Counting
    <3>4. QED
      BY Zenon, <3>2, <3>3
  <2>2. CASE ~Reconnect(p)
    <3>1. UNCHANGED sess
      BY Zenon, <1>3, <2>2 DEF Background, ReconnectExit, WakePing, WakeExit, Ping, NewReady, NewCancelled
    <3>2. conn'[q] = 0 \/ (conn'[q] = conn[q] /\ cur'[q] = cur[q])
      <4>1. CASE \E next \in {"acquire", "exited"} : Teardown(p, next)
        BY SMTT(30), <1>0, <4>1 DEF Teardown, TypeOK
      <4>2. CASE UNCHANGED <<conn, cur>>
        BY Zenon, <4>2
      <4>3. QED
        BY Zenon, <1>3, <2>2, <4>1, <4>2 DEF Background, ReconnectExit, WakePing, WakeExit, Ping, NewReady, NewCancelled
    <3>3. QED
      BY Zenon, <1>2, <2>0, <3>1, <3>2
  <2>3. QED
    BY Zenon, <2>1, <2>2
<1>4. ASSUME NEW s \in Sessions, Drop(s) \/ SessionEnd(s) PROVE Count(q)
  <2>1. UNCHANGED <<conn, cur>> /\ sess'[s] # "up"
    BY SMTT(30), <1>0, <1>4 DEF Drop, SessionEnd, TypeOK
  <2>2. \A t \in Sessions : t # s => sess'[t] = sess[t] /\ depth'[t] = depth[t]
    BY SMTT(30), <1>0, <1>4 DEF Drop, SessionEnd, TypeOK
  <2>3. conn[q] # 0 => <<q, conn[q]>> \in Sessions
    BY Zenon, <1>0, CurSessType DEF CurSess
  <2>4. QED
    BY Zenon, <1>2, <2>1, <2>2, <2>3
<1>5. ASSUME UNCHANGED <<conn, cur, sess, depth>> PROVE Count(q)
  BY Zenon, <1>2, <1>5
<1>6. ASSUME NEW c \in Clients, Client(c) PROVE Count(q)
  <2>p. PICK p \in Procs : p = home[c]
    BY Zenon
  <2>k. PICK k \in Keys : k = handle[c].key
    BY Zenon, <1>0 DEF TypeOK, Handles
  <2>b. PICK b \in Hashes : b = keyify[k]
    BY Zenon, <2>k
  <2>s. PICK s : s = CurSess(p)
    BY Zenon
  <2>0. p = home[c] /\ k = handle[c].key /\ b = keyify[k] /\ s = CurSess(p) /\ s = <<p, conn[p]>>
    BY Zenon, <2>p, <2>k, <2>b, <2>s DEF CurSess
  <2>1. ASSUME conn[p] # 0, UNCHANGED conn, cur' = [cur EXCEPT ![p] = cur'[p]],
               \A t \in Sessions : t # s => sess'[t] = sess[t] /\ depth'[t] = depth[t],
               q = p => Count(q)
        PROVE Count(q)
    <3>1. CASE q # p
      <4>1. cur'[q] = cur[q]
        BY SMTT(30), <1>0, <2>1, <3>1 DEF TypeOK
      <4>2. conn[q] # 0 => <<q, conn[q]>> \in Sessions /\ <<q, conn[q]>> # s
        BY SMTT(30), <1>0, <2>0, <3>1, CurSessType DEF CurSess
      <4>3. QED
        BY Zenon, <1>2, <2>1, <4>1, <4>2
    <3>2. QED
      BY Zenon, <2>1, <3>1
  <2>2. CASE TryLocked(c)
    <3>1. conn[p] # 0 /\ s \in Sessions /\ sess[s] = "up" /\ k \notin cur[p] /\ UNCHANGED <<conn, sess>>
      BY Zenon, <1>0, <2>0, <2>2, CurSessType DEF TryLocked
    <3>2. depth'[s][b] = depth[s][b] + 1 /\ \A a \in Hashes : a # b => depth'[s][a] = depth[s][a]
      <4>1. depth' = Up(s, b)
        BY ZenonT(60), <2>0, <2>2 DEF TryLocked, Up
      <4>2. QED
        BY SMTT(30), <1>0, <3>1, <4>1, DepthCell
    <3>3. cur'[p] = cur[p] \union {k}
      BY Zenon, <1>0, <2>0, <2>2 DEF TryLocked, TypeOK
    <3>4. HashKeys(p, b)' = HashKeys(p, b) \union {k} /\ k \notin HashKeys(p, b)
      BY Zenon, <2>0, <3>1, <3>3 DEF HashKeys
    <3>5. \A a \in Hashes : a # b => HashKeys(p, a)' = HashKeys(p, a)
      BY Zenon, <2>0, <3>3 DEF HashKeys
    <3>6. Cardinality(HashKeys(p, b)') = Cardinality(HashKeys(p, b)) + 1
      <4>1. HashKeys(p, b) \in SUBSET Keys /\ k \in Keys \ HashKeys(p, b)
        BY Zenon, <1>0, <3>4, HashKeysType
      <4>2. Cardinality(HashKeys(p, b) \union {k}) = Cardinality(HashKeys(p, b)) + 1
        BY Zenon, <4>1 DEF Counting
      <4>3. QED
        BY Zenon, <3>4, <4>2
    <3>7. \A a \in Hashes : depth[s][a] = Cardinality(HashKeys(p, a))
      BY Zenon, <1>0, <2>0, <3>1 DEF CurInv
    <3>8. q = p => Count(q)
      <4>1. s = <<p, conn'[p]>>
        BY Zenon, <2>0, <3>1
      <4>2. \A a \in Hashes : depth'[s][a] = Cardinality(HashKeys(p, a)')
        <5> SUFFICES ASSUME NEW a \in Hashes PROVE depth'[s][a] = Cardinality(HashKeys(p, a)')
          BY Zenon
        <5>1. CASE a = b
          BY Zenon, <2>0, <3>2, <3>6, <3>7, <5>1
        <5>2. CASE a # b
          BY Zenon, <2>0, <3>2, <3>5, <3>7, <5>2
        <5>3. QED
          BY Zenon, <5>1, <5>2
      <4>3. QED
        BY Zenon, <4>1, <4>2
    <3>9. \A t \in Sessions : t # s => sess'[t] = sess[t] /\ depth'[t] = depth[t]
      BY ZenonT(60), <1>0, <2>0, <2>2, <3>1 DEF TryLocked, TypeOK
    <3>10. cur' = [cur EXCEPT ![p] = cur'[p]]
      BY Zenon, <1>0, <2>0, <2>2 DEF TryLocked, TypeOK
    <3>11. QED
      BY Zenon, <2>1, <3>1, <3>8, <3>9, <3>10
  <2>3. CASE UnlockExec(c)
    <3>0. handle[c].pc \in {"held", "releasing"} /\ ~Stale(c)
      BY Zenon, <2>3 DEF UnlockExec, OnCancel
    <3>1. conn[p] # 0 /\ s \in Sessions /\ sess[s] = "up" /\ k \in cur[p] /\ UNCHANGED <<conn, sess>>
      BY Zenon, <1>0, <2>0, <2>3, <3>0, CurSessType, CurrentHandle DEF UnlockExec
    <3>2. depth'[s][b] = AdvisoryUnlock(depth[s][b]) /\ \A a \in Hashes : a # b => depth'[s][a] = depth[s][a]
      <4>1. depth' = Down(s, b)
        BY ZenonT(60), <2>0, <2>3 DEF UnlockExec, Down
      <4>2. QED
        BY SMTT(30), <1>0, <3>1, <4>1, DepthCell
    <3>3. cur'[p] = cur[p] \ {k}
      BY Zenon, <1>0, <2>0, <2>3 DEF UnlockExec, TypeOK
    <3>4. HashKeys(p, b)' = HashKeys(p, b) \ {k} /\ k \in HashKeys(p, b)
      BY Zenon, <2>0, <3>1, <3>3 DEF HashKeys
    <3>5. \A a \in Hashes : a # b => HashKeys(p, a)' = HashKeys(p, a)
      BY Zenon, <2>0, <3>3 DEF HashKeys
    <3>6. /\ Cardinality(HashKeys(p, b)') = Cardinality(HashKeys(p, b)) - 1
          /\ Cardinality(HashKeys(p, b)) \in Nat /\ Cardinality(HashKeys(p, b)) # 0
      <4>1. HashKeys(p, b) \in SUBSET Keys
        BY Zenon, <1>0, HashKeysType
      <4>2. QED
        BY ZenonT(60), <3>4, <4>1 DEF Counting
    <3>7. \A a \in Hashes : depth[s][a] = Cardinality(HashKeys(p, a))
      BY Zenon, <1>0, <2>0, <3>1 DEF CurInv
    <3>8. depth'[s][b] = Cardinality(HashKeys(p, b)')
      BY Zenon, <2>0, <3>2, <3>6, <3>7, UnlockHeld
    <3>9. q = p => Count(q)
      <4>1. s = <<p, conn'[p]>>
        BY Zenon, <2>0, <3>1
      <4>2. \A a \in Hashes : depth'[s][a] = Cardinality(HashKeys(p, a)')
        BY Zenon, <2>0, <3>2, <3>5, <3>7, <3>8
      <4>3. QED
        BY Zenon, <4>1, <4>2
    <3>10. \A t \in Sessions : t # s => sess'[t] = sess[t] /\ depth'[t] = depth[t]
      BY ZenonT(60), <1>0, <2>0, <2>3, <3>1 DEF UnlockExec, TypeOK
    <3>11. cur' = [cur EXCEPT ![p] = cur'[p]]
      BY Zenon, <1>0, <2>0, <2>3 DEF UnlockExec, TypeOK
    <3>12. QED
      BY Zenon, <2>1, <3>1, <3>9, <3>10, <3>11
  <2>4. CASE (TryInterrupted(c) \/ UnlockError(c)) /\ ~UNCHANGED <<sess, depth>>
    <3>1. conn[p] # 0 /\ s \in Sessions /\ UNCHANGED <<conn, cur>>
      BY ZenonT(60), <1>0, <2>0, <2>4, CurSessType DEF TryInterrupted, UnlockError, Stale
    <3>2. sess' = [sess EXCEPT ![s] = "closing"]
      BY Zenon, <2>0, <2>4 DEF TryInterrupted, UnlockError
    <3>3. sess'[s] # "up" /\ \A t \in Sessions : t # s => sess'[t] = sess[t] /\ depth'[t] = depth[t]
      <4>1. UNCHANGED depth \/ depth' = Up(s, b)
            \/ depth' = Down(s, b)
        BY Zenon, <2>0, <2>4 DEF TryInterrupted, UnlockError, Up, Down
      <4>2. QED
        BY SMTT(90), <1>0, <2>0, <3>1, <3>2, <4>1, DepthCell DEF TypeOK
    <3>4. q = p => Count(q)
      BY Zenon, <2>0, <3>1, <3>3
    <3>5. cur' = [cur EXCEPT ![p] = cur'[p]]
      BY Zenon, <1>0, <3>1 DEF TypeOK
    <3>6. QED
      BY Zenon, <2>1, <3>1, <3>3, <3>4, <3>5
  <2>5. CASE UNCHANGED <<conn, cur, sess, depth>>
    BY Zenon, <1>5, <2>5
  <2>6. QED
    BY Zenon, <1>6, <2>2, <2>3, <2>4, <2>5 DEF Client, Unlock, TryRefused, TryError, TryInterrupted, LockRetry,
       LockGiveUp, UnlockStale, UnlockError, CancelChild
<1>7. ASSUME Environment, ~\E s \in Sessions : Drop(s) \/ SessionEnd(s) PROVE Count(q)
  BY Zenon, <1>5, <1>7 DEF Environment, Close, CancelNew, Call, CancelParent, Unwatch
<1>8. CASE UNCHANGED vars
  BY Zenon, <1>5, <1>8 DEF vars
<1>9. QED
  BY Zenon, <1>3, <1>4, <1>6, <1>7, <1>8 DEF Next

(* The keys are finitely many, so their sets can be counted.               *)
LEMMA KeysCounted == Counting
<1>1. Cardinality({}) = 0
  BY FS_EmptySet
<1>2. ASSUME NEW S \in SUBSET Keys
      PROVE  /\ Cardinality(S) \in Nat /\ (S # {} => Cardinality(S) # 0)
             /\ \A k \in Keys \ S : Cardinality(S \union {k}) = Cardinality(S) + 1
             /\ \A k \in S : Cardinality(S \ {k}) = Cardinality(S) - 1
  <2>1. IsFiniteSet(S)
    BY FS_Subset
  <2>2. Cardinality(S) \in Nat /\ (S # {} => Cardinality(S) # 0)
    BY <2>1, FS_CardinalityType, FS_EmptySet
  <2>3. \A k \in Keys \ S : Cardinality(S \union {k}) = Cardinality(S) + 1
    BY Zenon, <2>1, FS_AddElement
  <2>4. \A k \in S : Cardinality(S \ {k}) = Cardinality(S) - 1
    BY Zenon, <2>1, FS_RemoveElement
  <2>5. QED
    BY <2>2, <2>3, <2>4
<1>3. QED
  BY <1>1, <1>2 DEF Counting

(* The inductive invariant holds before the first connection.              *)
LEMMA InitInv == Init => IInv
<1> SUFFICES ASSUME Init PROVE IInv
  OBVIOUS
<1>1. TypeOK
  BY InitType
<1>2. GenInv
  BY DEF Init, GenInv, CurSess, Sessions
<1>3. ServerInv /\ CurInv
  BY DEF Init, ServerInv, CurInv
<1>4. \A c \in Clients : ~Granted(c)
  BY IdleType DEF Init, Granted
<1>5. QED
  BY <1>1, <1>2, <1>3, <1>4 DEF IInv, HandleInv, UniqueInv

(* The inductive invariant of the lock protocol: cur mirrors the server,   *)
(* generations identify sessions, and a granted handle has its lock.       *)
THEOREM Inductive == Spec => []IInv
<1>1. IInv /\ [Next]_vars => IInv'
  BY TypeStep, GenStep, ServerStep, CurStep, HandleStep, UniqueStep, KeysCounted DEF IInv
<1>2. QED
  BY <1>1, InitInv, PTL DEF Spec

(* Mutual exclusion up to the server's view of the sessions: for any       *)
(* number of processes, clients, keys and reconnects, two live contexts    *)
(* for one key mean that the server ended the session behind one of them.  *)
THEOREM MutualExclusion == Spec => []Exclusive
<1>1. IInv => Exclusive
  <2> SUFFICES ASSUME IInv, NEW c \in Clients, NEW d \in Clients,
                      c # d, handle[c].key = handle[d].key, Holding(c), Holding(d),
                      sess[SessOf(c)] # "gone", sess[SessOf(d)] # "gone"
               PROVE  FALSE
    BY DEF Exclusive
  <2>1. Granted(c) /\ Granted(d)
    BY DEF Holding, Granted
  <2>2. SessOf(c) # SessOf(d)
    BY <2>1 DEF IInv, UniqueInv
  <2>3. SessOf(c) \in Sessions /\ SessOf(d) \in Sessions /\ keyify[handle[c].key] \in Hashes
    BY Zenon, <2>1 DEF IInv, HandleInv, TypeOK, Handles, SessOf, Sessions
  <2>4. /\ depth[SessOf(c)][keyify[handle[c].key]] > 0
        /\ depth[SessOf(d)][keyify[handle[c].key]] > 0
    BY <2>1 DEF IInv, HandleInv
  <2>5. ServerInv
    BY DEF IInv
  <2>6. depth[SessOf(d)][keyify[handle[c].key]] = 0
    BY Zenon, <2>2, <2>3, <2>4, <2>5 DEF ServerInv
  <2>7. QED
    BY <2>4, <2>6
<1>2. QED
  BY <1>1, Inductive, PTL

(* unlock's "lock protocol botch" branch is unreachable, whatever keys     *)
(* collide under keyify.                                                   *)
THEOREM BotchUnreachable == Spec => []NoBotch
<1>1. IInv => NoBotch
  <2> SUFFICES ASSUME IInv, NEW c \in Clients, handle[c].pc \in {"held", "releasing"},
                      ~Stale(c), sess[CurSess(home[c])] = "up"
               PROVE  /\ handle[c].key \in cur[home[c]]
                      /\ depth[CurSess(home[c])][keyify[handle[c].key]] > 0
    BY DEF NoBotch
  <2>1. handle[c].key \in cur[home[c]] /\ SessOf(c) = CurSess(home[c]) /\ Granted(c)
    BY CurrentHandle DEF SessOf, CurSess, Granted
  <2>2. QED
    BY <2>1 DEF IInv, HandleInv
<1>2. QED
  BY <1>1, Inductive, PTL

(* Only the caller that was granted a lock on a session takes it off that  *)
(* session: a watcher of an older connection never unlocks a newer holder. *)
THEOREM OnlyHolderReleases == Spec => HolderReleases
<1> DEFINE Step == \A s \in Sessions, b \in Hashes :
               sess'[s] = "up" /\ depth'[s][b] < depth[s][b]
               => \E c \in Clients : /\ SessOf(c) = s /\ keyify[handle[c].key] = b
                                     /\ handle[c].pc = "releasing"
                                     /\ handle'[c].pc = "released"
<1>1. IInv /\ [Next]_vars => Step
  <2> SUFFICES ASSUME IInv, [Next]_vars, NEW s \in Sessions, NEW b \in Hashes,
                      sess'[s] = "up", depth'[s][b] < depth[s][b]
               PROVE  \E c \in Clients : /\ SessOf(c) = s /\ keyify[handle[c].key] = b
                                         /\ handle[c].pc = "releasing"
                                         /\ handle'[c].pc = "released"
    OBVIOUS
  <2> USE DEF locker, server
  <2>0. TypeOK /\ TypeOK' /\ depth[s][b] \in Nat /\ depth'[s][b] \in Nat
    BY TypeStep DEF IInv, TypeOK
  <2>1. depth' # depth
    BY <2>0
  <2>2. ~ \E t \in Sessions : Drop(t) \/ SessionEnd(t)
    <3> SUFFICES ASSUME NEW t \in Sessions, SessionEnd(t) PROVE FALSE
      BY <2>1 DEF Drop
    <3>1. t # s
      BY <2>0 DEF SessionEnd, TypeOK
    <3>2. depth'[s] = depth[s]
      BY <2>0, <3>1 DEF SessionEnd, TypeOK
    <3>3. QED
      BY <2>0, <3>2
  <2>3. PICK c \in Clients : TryInterrupted(c) \/ TryLocked(c) \/ UnlockExec(c) \/ UnlockError(c)
    BY Zenon, <2>1, <2>2 DEF Next, Background, Environment, Client, Unlock, Reconnect, ReconnectExit, WakePing,
       WakeExit, Ping, NewReady, NewCancelled, Close, CancelNew, Call, CancelParent, Unwatch, TryRefused,
       TryError, LockRetry, LockGiveUp, UnlockStale, CancelChild, vars
  <2>4. conn[home[c]] # 0 /\ CurSess(home[c]) \in Sessions /\ keyify[handle[c].key] \in Hashes
    BY Zenon, <2>0, <2>3, CurSessType DEF TryInterrupted, TryLocked, UnlockExec, UnlockError, Stale, TypeOK, Handles
  <2>r. PICK r \in Sessions : r = CurSess(home[c])
    BY <2>4
  <2>e. PICK e \in Hashes : e = keyify[handle[c].key]
    BY <2>4
  <2>5. UnlockExec(c)
    <3>1. ~TryLocked(c)
      <4> SUFFICES ASSUME TryLocked(c) PROVE FALSE
        OBVIOUS
      <4>1. depth' = Up(r, e)
        BY SMTT(90), <2>r, <2>e DEF TryLocked, Up
      <4>2. depth'[r][e] = depth[r][e] + 1 /\ depth[r][e] \in Nat /\ (s # r \/ b # e => depth'[s][b] = depth[s][b])
        BY <2>0, <2>4, <4>1, DepthCell
      <4>3. QED
        BY <2>0, <4>2
    <3>2. ~TryInterrupted(c) /\ ~UnlockError(c)
      <4> SUFFICES ASSUME TryInterrupted(c) \/ UnlockError(c) PROVE FALSE
        OBVIOUS
      <4>1. /\ sess' = [sess EXCEPT ![r] = "closing"]
            /\ \/ depth' = Up(r, e)
               \/ depth' = Down(r, e)
        BY Zenon, <2>1, <2>r, <2>e DEF TryInterrupted, UnlockError, Up, Down
      <4>2. s # r
        BY <2>0, <2>4, <4>1 DEF TypeOK
      <4>3. depth'[s][b] = depth[s][b]
        BY SMTT(90), <2>0, <2>4, <4>1, <4>2, DepthCell
      <4>4. QED
        BY <2>0, <4>3
    <3>3. QED
      BY <2>3, <3>1, <3>2
  <2>6. ~Gone(c) /\ handle[c].sess = conn[home[c]]
    BY SMTT(90), <2>5, CurrentHandle DEF UnlockExec, OnCancel
  <2>7. handle[c].pc = "releasing" /\ handle'[c].pc = "released"
    BY SMTT(90), <2>0, <2>5, <2>6 DEF UnlockExec, OnCancel, TypeOK, Handles
  <2>8. CurSess(home[c]) = s /\ keyify[handle[c].key] = b
    <3>1. depth' = Down(r, e)
      BY SMTT(90), <2>5, <2>r, <2>e DEF UnlockExec, Down
    <3>2. r # s \/ b # e => depth'[s][b] = depth[s][b]
      BY <2>0, <3>1, DepthCell
    <3>3. QED
      BY SMTT(90), <2>0, <2>r, <2>e, <3>2
  <2>9. QED
    BY <2>6, <2>7, <2>8 DEF SessOf, CurSess
<1>2. QED
  BY <1>1, Inductive, PTL DEF Spec, HolderReleases
=============================================================================
