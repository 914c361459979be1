------------------------------- MODULE CtxLock -------------------------------
(***************************************************************************)
(* pkg/ctxlock: distributed locks on top of Postgres session-level         *)
(* advisory locks, handed out as contexts that are cancelled when the      *)
(* connection that backs them goes away.                                   *)
(*                                                                         *)
(* Each process owns one Locker.  Its mutex (rc.L) is held for the whole   *)
(* of try, unlock, Close and one turn of the reconnect loop, so each of    *)
(* these is one action; other processes only meet it at the server.        *)
(* Generation g of a process is backed by the server session <<p, g>>.     *)
(***************************************************************************)
EXTENDS Integers, FiniteSets

CONSTANTS
  Procs,      \* processes, one Locker each
  Clients,    \* goroutines that call Lock or TryLock
  Keys,       \* lock names
  Hashes,     \* the int64 values keyify produces
  home,       \* the process a client runs in
  keyify,     \* fnv64a: collisions are allowed
  MaxConn,    \* bound: connections a process opens
  Leavers     \* bound: processes that call Close or whose New context ends

ASSUME CtxLockAssumption ==
  /\ home \in [Clients -> Procs]
  /\ keyify \in [Keys -> Hashes]
  /\ Keys # {} /\ IsFiniteSet(Keys)
  /\ MaxConn \in Nat \ {0}
  /\ Leavers \subseteq Procs

VARIABLES
  new,     \* New: "waiting" for the first connection, "ready" or "failed"
  ctx,     \* FALSE once the context passed to New is done
  loop,    \* run/reconnect: "acquire" from the pool, "wait" on rc, "exited"
  woken,   \* a Broadcast reached the reconnect loop's rc.Wait
  pinger,  \* the ping goroutine: "running" or "exited"
  closed,  \* Close has been called
  conn,    \* Locker.conn, as the session's number; 0 is nil
  gen,     \* Locker.gen
  cur,     \* Locker.cur
  sess,    \* server session: "new", "up", "closing" (client gave up), "gone"
  depth,   \* server: how often a session holds an advisory lock
  handle   \* per client: its Lock or TryLock call, then the watcher it got

locker == <<new, ctx, loop, woken, pinger, closed, conn, gen, cur>>
server == <<sess, depth>>
vars == <<new, ctx, loop, woken, pinger, closed, conn, gen, cur,
          sess, depth, handle>>

Sessions == Procs \X (1..MaxConn)

(* The watcher's once.Do(onCancel) is run by the caller ("releasing", then *)
(* "released") or by the watch goroutine ("strobed", then "lost").  In     *)
(* "released" and "strobed" the deferred next() has not cancelled the      *)
(* child context yet.                                                      *)
Pcs == {"idle", "try", "backoff", "held", "releasing", "released", "strobed", "lost"}

Handles == [pc : Pcs, op : {"Lock", "TryLock"}, key : Keys,
            gen : -1..MaxConn, sess : 0..MaxConn,
            done : BOOLEAN]  \* the parent context is done

Idle == [pc |-> "idle", op |-> "Lock", key |-> CHOOSE k \in Keys : TRUE,
         gen |-> 0, sess |-> 0, done |-> FALSE]

-----------------------------------------------------------------------------
Init ==
  /\ new = [p \in Procs |-> "waiting"]
  /\ ctx = [p \in Procs |-> TRUE]
  /\ loop = [p \in Procs |-> "acquire"]
  /\ woken = [p \in Procs |-> FALSE]
  /\ pinger = [p \in Procs |-> "running"]
  /\ closed = [p \in Procs |-> FALSE]
  /\ conn = [p \in Procs |-> 0]
  /\ gen = [p \in Procs |-> 0]
  /\ cur = [p \in Procs |-> {}]
  /\ sess = [s \in Sessions |-> "new"]
  /\ depth = [s \in Sessions |-> [b \in Hashes |-> 0]]
  /\ handle = [c \in Clients |-> Idle]

(* rc.Broadcast: lost unless the reconnect loop is in rc.Wait.             *)
Broadcast(p) == woken' = [woken EXCEPT ![p] = woken[p] \/ loop[p] = "wait"]

CurSess(p) == <<p, conn[p]>>

(***************************************************************************)
(* The background goroutines.                                              *)
(***************************************************************************)

(* reconnect up to its first rc.Wait.  The first liveness check runs in    *)
(* the same critical section, so a failure tears down unseen by anyone.    *)
Reconnect(p) ==
  /\ loop[p] = "acquire" /\ ctx[p]
  /\ gen[p] \in 0..(MaxConn - 1)
  /\ gen' = [gen EXCEPT ![p] = @ + 1]
  /\ cur' = [cur EXCEPT ![p] = {}]
  /\ \/ /\ conn' = [conn EXCEPT ![p] = gen[p] + 1]
        /\ loop' = [loop EXCEPT ![p] = "wait"]
        /\ sess' = [sess EXCEPT ![<<p, gen[p] + 1>>] = "up"]
     \/ /\ sess' = [sess EXCEPT ![<<p, gen[p] + 1>>] = "closing"]
        /\ UNCHANGED <<conn, loop>>
  /\ UNCHANGED <<new, ctx, woken, pinger, closed, depth, handle>>

(* reconnect after Close won the race for the mutex: gen goes from -1 to   *)
(* 0, the loop is not entered and the connection returns to the pool.      *)
ReconnectExit(p) ==
  /\ loop[p] = "acquire" /\ ctx[p]
  /\ gen[p] = -1
  /\ gen' = [gen EXCEPT ![p] = @ + 1]
  /\ loop' = [loop EXCEPT ![p] = "exited"]
  /\ UNCHANGED <<new, ctx, woken, pinger, closed, conn, cur, server, handle>>

(* The deferred teardown: strobe gone, forget the connection and the locks.*)
Teardown(p, next) ==
  /\ conn' = [conn EXCEPT ![p] = 0]
  /\ cur' = [cur EXCEPT ![p] = {}]
  /\ loop' = [loop EXCEPT ![p] = next]
  /\ woken' = [woken EXCEPT ![p] = FALSE]

(* One turn of the reconnect loop after rc.Wait returns.  A ping whose     *)
(* context (derived from New's) is already done fails without touching the *)
(* connection, which then goes back to the pool with its locks.            *)
WakePing(p) ==
  /\ loop[p] = "wait" /\ woken[p] /\ gen[p] > 0
  /\ IF sess[CurSess(p)] = "up" /\ ctx[p]
     THEN /\ woken' = [woken EXCEPT ![p] = FALSE]
          /\ UNCHANGED <<conn, cur, loop>>
     ELSE Teardown(p, "acquire")
  /\ UNCHANGED <<new, ctx, pinger, closed, gen, server, handle>>

WakeExit(p) ==
  /\ loop[p] = "wait" /\ woken[p] /\ gen[p] <= 0
  /\ Teardown(p, "exited")
  /\ UNCHANGED <<new, ctx, pinger, closed, gen, server, handle>>

(* Mutant: a tick that does not strobe the condition variable.             *)
PingSilent(p) ==
  /\ pinger[p] = "running"
  /\ pinger' = [pinger EXCEPT ![p] = IF gen[p] < 0 THEN "exited" ELSE @]
  /\ UNCHANGED <<new, ctx, loop, woken, closed, conn, gen, cur, server, handle>>

(* ping: one tick.                                                         *)
Ping(p) ==
  /\ pinger[p] = "running"
  /\ pinger' = [pinger EXCEPT ![p] = IF gen[p] < 0 THEN "exited" ELSE @]
  /\ Broadcast(p)
  /\ UNCHANGED <<new, ctx, loop, closed, conn, gen, cur, server, handle>>

(***************************************************************************)
(* New and Close.                                                          *)
(***************************************************************************)
NewReady(p) ==
  /\ new[p] = "waiting" /\ (conn[p] # 0 \/ gen[p] = -1)
  /\ new' = [new EXCEPT ![p] = "ready"]
  /\ UNCHANGED <<ctx, loop, woken, pinger, closed, conn, gen, cur, server, handle>>

DoClose(p) ==
  /\ gen' = [gen EXCEPT ![p] = -1]
  /\ closed' = [closed EXCEPT ![p] = TRUE]
  /\ Broadcast(p)

NewCancelled(p) ==
  /\ new[p] = "waiting" /\ ~ctx[p]
  /\ new' = [new EXCEPT ![p] = "failed"]
  /\ DoClose(p)
  /\ UNCHANGED <<ctx, loop, pinger, conn, cur, server, handle>>

Close(p) ==
  /\ new[p] = "ready" /\ ~closed[p]
  /\ DoClose(p)
  /\ UNCHANGED <<new, ctx, loop, pinger, conn, cur, server, handle>>

CancelNew(p) ==
  /\ ctx[p]
  /\ ctx' = [ctx EXCEPT ![p] = FALSE]
  /\ UNCHANGED <<new, loop, woken, pinger, closed, conn, gen, cur, server, handle>>

(***************************************************************************)
(* The network and the database server.                                    *)
(***************************************************************************)

(* The client can no longer use the session; the server has not noticed.   *)
Drop(s) ==
  /\ sess[s] = "up"
  /\ sess' = [sess EXCEPT ![s] = "closing"]
  /\ UNCHANGED <<locker, depth, handle>>

(* The server ends a session and with it every lock the session holds.     *)
SessionEnd(s) ==
  /\ sess[s] \in {"up", "closing"}
  /\ sess' = [sess EXCEPT ![s] = "gone"]
  /\ depth' = [depth EXCEPT ![s] = [b \in Hashes |-> 0]]
  /\ UNCHANGED <<locker, handle>>

(* pg_try_advisory_lock: exclusive between sessions, re-entrant within one.*)
Grantable(s, b) == \A t \in Sessions \ {s} : depth[t][b] = 0

(* pg_advisory_unlock: one level less; a lock not held stays not held.     *)
AdvisoryUnlock(n) == IF n = 0 THEN 0 ELSE n - 1

(***************************************************************************)
(* Lock and TryLock.                                                       *)
(***************************************************************************)
Call(c, op, k) ==
  /\ handle[c].pc = "idle" /\ new[home[c]] = "ready"
  /\ handle' = [handle EXCEPT ![c] = [Idle EXCEPT !.pc = "try", !.op = op, !.key = k]]
  /\ UNCHANGED <<locker, server>>

CancelParent(c) ==
  /\ handle[c].pc # "idle" /\ ~handle[c].done
  /\ handle' = [handle EXCEPT ![c].done = TRUE]
  /\ UNCHANGED <<locker, server>>

(* TryLock returns a cancelled context, Lock goes to its backoff timer.    *)
Failed(c, done) ==
  handle' = [handle EXCEPT ![c] = IF @.op = "TryLock" THEN Idle
                                  ELSE [@ EXCEPT !.pc = "backoff", !.done = done]]

(* try: errConnGone, errDoubleLock, errLockFail.                           *)
TryRefused(c) ==
  LET p == home[c]
      k == handle[c].key
  IN /\ handle[c].pc = "try"
     /\ \/ conn[p] = 0
        \/ k \in cur[p]
        \/ /\ conn[p] # 0 /\ ~handle[c].done /\ sess[CurSess(p)] = "up"
           /\ ~Grantable(CurSess(p), keyify[k])
     /\ Failed(c, handle[c].done)
     /\ UNCHANGED <<locker, server>>

(* try: the parent is done before the query, or the session is unusable.   *)
TryError(c) ==
  LET p == home[c]
  IN /\ handle[c].pc = "try"
     /\ conn[p] # 0 /\ handle[c].key \notin cur[p]
     /\ handle[c].done \/ sess[CurSess(p)] # "up"
     /\ Failed(c, handle[c].done)
     /\ Broadcast(p)
     /\ UNCHANGED <<new, ctx, loop, pinger, closed, conn, gen, cur, server>>

(* try: the parent ends while the query is under way.  The driver closes   *)
(* the connection; the server may have granted the lock.                   *)
TryInterrupted(c) ==
  LET p == home[c]
      s == CurSess(p)
      b == keyify[handle[c].key]
  IN /\ handle[c].pc = "try"
     /\ conn[p] # 0 /\ handle[c].key \notin cur[p]
     /\ ~handle[c].done /\ sess[s] = "up"
     /\ sess' = [sess EXCEPT ![s] = "closing"]
     /\ \/ UNCHANGED depth
        \/ Grantable(s, b) /\ depth' = [depth EXCEPT ![s][b] = @ + 1]
     /\ Failed(c, TRUE)
     /\ Broadcast(p)
     /\ UNCHANGED <<new, ctx, loop, pinger, closed, conn, gen, cur>>

(* Mutant: the affected-rows test is missing, any answer is a grant.       *)
TryLockedAnyway(c) ==
  LET p == home[c]
      s == CurSess(p)
      k == handle[c].key
  IN /\ handle[c].pc = "try"
     /\ conn[p] # 0 /\ k \notin cur[p]
     /\ ~handle[c].done /\ sess[s] = "up"
     /\ depth' = [depth EXCEPT ![s][keyify[k]] = @ + (IF Grantable(s, keyify[k]) THEN 1 ELSE 0)]
     /\ cur' = [cur EXCEPT ![p] = @ \union {k}]
     /\ handle' = [handle EXCEPT ![c].pc = "held", ![c].gen = gen[p], ![c].sess = conn[p]]
     /\ UNCHANGED <<new, ctx, loop, woken, pinger, closed, conn, gen, sess>>

(* Mutant: the errDoubleLock test is missing.                              *)
TryLockedTwice(c) ==
  LET p == home[c]
      s == CurSess(p)
      k == handle[c].key
  IN /\ handle[c].pc = "try" /\ conn[p] # 0
     /\ ~handle[c].done /\ sess[s] = "up" /\ Grantable(s, keyify[k])
     /\ depth' = [depth EXCEPT ![s][keyify[k]] = @ + 1]
     /\ cur' = [cur EXCEPT ![p] = @ \union {k}]
     /\ handle' = [handle EXCEPT ![c].pc = "held", ![c].gen = gen[p], ![c].sess = conn[p]]
     /\ UNCHANGED <<new, ctx, loop, woken, pinger, closed, conn, gen, sess>>

(* try: success.  The watcher remembers the generation and gone channel.   *)
TryLocked(c) ==
  LET p == home[c]
      s == CurSess(p)
      k == handle[c].key
  IN /\ handle[c].pc = "try"
     /\ conn[p] # 0 /\ k \notin cur[p]
     /\ ~handle[c].done /\ sess[s] = "up" /\ Grantable(s, keyify[k])
     /\ depth' = [depth EXCEPT ![s][keyify[k]] = @ + 1]
     /\ cur' = [cur EXCEPT ![p] = @ \union {k}]
     /\ handle' = [handle EXCEPT ![c].pc = "held", ![c].gen = gen[p], ![c].sess = conn[p]]
     /\ UNCHANGED <<new, ctx, loop, woken, pinger, closed, conn, gen, sess>>

LockRetry(c) ==
  /\ handle[c].pc = "backoff"
  /\ handle' = [handle EXCEPT ![c].pc = "try"]
  /\ UNCHANGED <<locker, server>>

(* Mutant: a cancelled parent is only noticed while connected.             *)
LockGiveUpConnected(c) ==
  /\ handle[c].pc = "backoff" /\ handle[c].done /\ conn[home[c]] # 0
  /\ handle' = [handle EXCEPT ![c] = Idle]
  /\ UNCHANGED <<locker, server>>

LockGiveUp(c) ==
  /\ handle[c].pc = "backoff" /\ handle[c].done
  /\ handle' = [handle EXCEPT ![c] = Idle]
  /\ UNCHANGED <<locker, server>>

(***************************************************************************)
(* Unwatch, Watch and unlock.                                              *)
(***************************************************************************)

(* The caller invokes its CancelFunc.                                      *)
Unwatch(c) ==
  /\ handle[c].pc \in {"held", "lost"}
  /\ handle' = [handle EXCEPT ![c] = IF @.pc = "held" THEN [@ EXCEPT !.pc = "releasing"] ELSE Idle]
  /\ UNCHANGED <<locker, server>>

(* The channel the watcher selects on: closed by the teardown.             *)
Gone(c) == conn[home[c]] # handle[c].sess

(* Mutant: the watch goroutine also unlocks when the parent is done.       *)
OnCancelDone(c, done) ==
  \/ /\ handle[c].pc = "releasing"
     /\ handle' = [handle EXCEPT ![c].pc = "released", ![c].done = done]
  \/ /\ handle[c].pc = "held" /\ (Gone(c) \/ handle[c].done)
     /\ handle' = [handle EXCEPT ![c].pc = "strobed", ![c].done = done]

(* Who runs onCancel, and what runs next.                                  *)
OnCancel(c, done) ==
  \/ /\ handle[c].pc = "releasing"
     /\ handle' = [handle EXCEPT ![c].pc = "released", ![c].done = done]
  \/ /\ handle[c].pc = "held" /\ Gone(c)
     /\ handle' = [handle EXCEPT ![c].pc = "strobed", ![c].done = done]

(* Mutant: the generation of the watcher is not compared.                  *)
StaleNoGen(c) ==
  LET p == home[c] IN conn[p] = 0 \/ gen[p] < 0

(* unlock's switch: nothing to do for a stale generation, without a        *)
(* connection, or while shutting down.                                     *)
Stale(c) ==
  LET p == home[c] IN handle[c].gen < gen[p] \/ conn[p] = 0 \/ gen[p] < 0

UnlockStale(c) ==
  /\ OnCancel(c, handle[c].done) /\ Stale(c)
  /\ UNCHANGED <<locker, server>>

(* Mutant: the key stays in cur.                                           *)
UnlockExecKept(c) ==
  LET p == home[c]
      s == CurSess(p)
      b == keyify[handle[c].key]
  IN /\ OnCancel(c, handle[c].done) /\ ~Stale(c)
     /\ sess[s] = "up"
     /\ depth' = [depth EXCEPT ![s][b] = AdvisoryUnlock(@)]
     /\ UNCHANGED <<new, ctx, loop, woken, pinger, closed, conn, gen, cur, sess>>

UnlockExec(c) ==
  LET p == home[c]
      s == CurSess(p)
      b == keyify[handle[c].key]
  IN /\ OnCancel(c, handle[c].done) /\ ~Stale(c)
     /\ sess[s] = "up"
     /\ depth' = [depth EXCEPT ![s][b] = AdvisoryUnlock(@)]
     /\ cur' = [cur EXCEPT ![p] = @ \ {handle[c].key}]
     /\ UNCHANGED <<new, ctx, loop, woken, pinger, closed, conn, gen, sess>>

(* unlock: the query fails.  Either the session is unusable already; or it *)
(* is interrupted by the parent or the 5 second limit, which closes the    *)
(* connection and may or may not have unlocked; or the parent ends between *)
(* the check of ctx.Err and the query, which then is not sent at all.      *)
UnlockError(c) ==
  LET p == home[c]
      s == CurSess(p)
      b == keyify[handle[c].key]
  IN /\ ~Stale(c)
     /\ Broadcast(p)
     /\ \/ sess[s] # "up" /\ OnCancel(c, handle[c].done) /\ UNCHANGED server
        \/ /\ sess[s] = "up" /\ OnCancel(c, TRUE)
           /\ sess' = [sess EXCEPT ![s] = "closing"]
           /\ \/ UNCHANGED depth
              \/ depth' = [depth EXCEPT ![s][b] = AdvisoryUnlock(@)]
        \/ /\ sess[s] = "up" /\ ~handle[c].done /\ OnCancel(c, TRUE)
           /\ UNCHANGED server
     /\ UNCHANGED <<new, ctx, loop, pinger, closed, conn, gen, cur>>

(* The deferred next(): cancel the child context.                          *)
CancelChild(c) ==
  /\ handle[c].pc \in {"released", "strobed"}
  /\ handle' = [handle EXCEPT ![c] = IF @.pc = "released" THEN Idle ELSE [@ EXCEPT !.pc = "lost"]]
  /\ UNCHANGED <<locker, server>>

-----------------------------------------------------------------------------
Background(p) ==
  \/ Reconnect(p) \/ ReconnectExit(p) \/ WakePing(p) \/ WakeExit(p) \/ Ping(p)
  \/ NewReady(p) \/ NewCancelled(p)

Unlock(c) == UnlockStale(c) \/ UnlockExec(c) \/ UnlockError(c)

Client(c) ==
  \/ TryRefused(c) \/ TryError(c) \/ TryInterrupted(c) \/ TryLocked(c)
  \/ LockRetry(c) \/ LockGiveUp(c) \/ Unlock(c) \/ CancelChild(c)

Environment ==
  \/ \E p \in Leavers : Close(p) \/ CancelNew(p)
  \/ \E s \in Sessions : Drop(s) \/ SessionEnd(s)
  \/ \E c \in Clients :
       \/ \E op \in {"Lock", "TryLock"}, k \in Keys : Call(c, op, k)
       \/ CancelParent(c) \/ Unwatch(c)

Next ==
  \/ \E p \in Procs : Background(p)
  \/ \E c \in Clients : Client(c)
  \/ Environment

Spec == Init /\ [][Next]_vars

(* Goroutines run, timers fire and the pool hands out a connection when    *)
(* the database can be reached.  Lock's select picks among ready cases at  *)
(* random, so a cancelled parent is not passed over for ever.  Callers,    *)
(* Close and the network owe nothing.                                      *)
Fairness ==
  /\ \A p \in Procs :
       /\ WF_vars(Reconnect(p) \/ ReconnectExit(p))
       /\ WF_vars(WakePing(p) \/ WakeExit(p))
       /\ WF_vars(Ping(p))
       /\ WF_vars(NewReady(p) \/ NewCancelled(p))
  /\ \A c \in Clients :
       /\ WF_vars(TryRefused(c) \/ TryError(c) \/ TryInterrupted(c) \/ TryLocked(c))
       /\ WF_vars(LockRetry(c))
       /\ SF_vars(LockGiveUp(c))
       /\ WF_vars(Unlock(c))
       /\ WF_vars(CancelChild(c))

FairSpec == Spec /\ Fairness

-----------------------------------------------------------------------------
(* Every variable stays in its type.                                       *)
TypeOK ==
  /\ new \in [Procs -> {"waiting", "ready", "failed"}]
  /\ ctx \in [Procs -> BOOLEAN]
  /\ loop \in [Procs -> {"acquire", "wait", "exited"}]
  /\ woken \in [Procs -> BOOLEAN]
  /\ pinger \in [Procs -> {"running", "exited"}]
  /\ closed \in [Procs -> BOOLEAN]
  /\ conn \in [Procs -> 0..MaxConn]
  /\ gen \in [Procs -> -1..MaxConn]
  /\ cur \in [Procs -> SUBSET Keys]
  /\ sess \in [Sessions -> {"new", "up", "closing", "gone"}]
  /\ depth \in [Sessions -> [Hashes -> Nat]]
  /\ handle \in [Clients -> Handles]

SessOf(c) == <<home[c], handle[c].sess>>

(* The caller was given the lock, has not called its CancelFunc, and its   *)
(* context is not cancelled.                                               *)
Holding(c) == handle[c].pc \in {"held", "strobed"} /\ ~handle[c].done

(* Mutual exclusion: two contexts for one key are live together only if    *)
(* the server has already ended the session behind one of them (the window *)
(* until that Locker's liveness check).  Crosses try's cur check, the      *)
(* generation test of unlock and re-entrant advisory locks.                *)
Exclusive ==
  \A c, d \in Clients :
    /\ c # d /\ handle[c].key = handle[d].key
    /\ Holding(c) /\ Holding(d)
    => sess[SessOf(c)] = "gone" \/ sess[SessOf(d)] = "gone"

(* unlock never reports "lock protocol botch": whenever it sends the       *)
(* unlock query on a working connection, the key is in cur and this very   *)
(* session holds the advisory lock, keys with equal hashes included.       *)
NoBotch ==
  \A c \in Clients :
    LET p == home[c]
    IN  /\ handle[c].pc = "releasing" \/ (handle[c].pc = "held" /\ Gone(c))
        /\ ~Stale(c) /\ sess[CurSess(p)] = "up"
        => /\ handle[c].key \in cur[p]
           /\ depth[CurSess(p)][keyify[handle[c].key]] > 0

(* Only a holder gives a lock back: while a session stays up, its hold on  *)
(* a lock shrinks only in the step in which a caller that was granted that *)
(* lock on that session runs its CancelFunc.  A watcher left over from an  *)
(* older connection never unlocks what a newer holder has.                 *)
HolderReleases ==
  [][\A s \in Sessions, b \in Hashes :
       sess'[s] = "up" /\ depth'[s][b] < depth[s][b]
       => \E c \in Clients : /\ SessOf(c) = s /\ keyify[handle[c].key] = b
                             /\ handle[c].pc = "releasing"
                             /\ handle'[c].pc = "released"]_vars

(* A lost lock is noticed: once the session behind a held lock is no       *)
(* longer usable, or Close has been called, the ping ticker, the reconnect *)
(* loop and the watcher cancel the caller's context.                       *)
LostLockCancelled ==
  \A c \in Clients :
    (handle[c].pc = "held" /\ (sess[SessOf(c)] # "up" \/ closed[home[c]])) ~> ~Holding(c)

(* Lock returns once its parent is cancelled, whatever the state of the    *)
(* connection and of the lock.                                             *)
LockReturns ==
  \A c \in Clients :
    (handle[c].pc \in {"try", "backoff"} /\ handle[c].done)
      ~> handle[c].pc \notin {"try", "backoff"}

-----------------------------------------------------------------------------
(* The inductive invariant behind Exclusive, NoBotch and HolderReleases.   *)

HashKeys(p, b) == {k \in cur[p] : keyify[k] = b}

Granted(c) == handle[c].pc \in {"held", "releasing", "strobed"}

(* A connection's number is its generation until Close; sessions are       *)
(* opened in order, and none is opened once the loop has left.             *)
GenInv ==
  \A p \in Procs :
    /\ conn[p] # 0 <=> loop[p] = "wait"
    /\ conn[p] # 0 => gen[p] \in {conn[p], -1} /\ sess[CurSess(p)] # "new"
    /\ loop[p] # "exited" /\ gen[p] # -1 => \A i \in 1..MaxConn : i > gen[p] => sess[<<p, i>>] = "new"

(* The server: locks belong to one live session at a time.                 *)
ServerInv ==
  /\ \A s \in Sessions : sess[s] \in {"new", "gone"} => \A b \in Hashes : depth[s][b] = 0
  /\ \A s, t \in Sessions, b \in Hashes : s # t /\ depth[s][b] > 0 => depth[t][b] = 0

(* cur mirrors the server: on a working connection the advisory lock of a  *)
(* hash is held once for every key of that hash in cur.                    *)
CurInv ==
  \A p \in Procs :
    conn[p] # 0 /\ sess[CurSess(p)] = "up"
    => \A b \in Hashes : depth[CurSess(p)][b] = Cardinality(HashKeys(p, b))

(* A granted handle belongs to a session that was opened, at the           *)
(* generation of that session or after Close, and its lock is still there. *)
HandleInv ==
  \A c \in Clients :
    Granted(c) =>
      /\ handle[c].sess \in 1..MaxConn /\ sess[SessOf(c)] # "new"
      /\ handle[c].gen \in {handle[c].sess, -1}
      /\ handle[c].gen = -1 => gen[home[c]] = -1 /\ loop[home[c]] # "acquire"
      /\ handle[c].pc = "strobed" => Gone(c)
      /\ ~Gone(c) => handle[c].key \in cur[home[c]]
      /\ sess[SessOf(c)] # "gone" => depth[SessOf(c)][keyify[handle[c].key]] > 0

(* One grant per key and session.                                          *)
UniqueInv ==
  \A c, d \in Clients :
    c # d /\ Granted(c) /\ Granted(d) /\ SessOf(c) = SessOf(d) => handle[c].key # handle[d].key

IInv == TypeOK /\ GenInv /\ ServerInv /\ CurInv /\ HandleInv /\ UniqueInv
=============================================================================
