------------------------------ MODULE Updates -------------------------------
(***************************************************************************)
(* libvuln/updates: Managers that run updaters on a timer and collect old  *)
(* update operations, over the tables of VulnStore.                        *)
(*                                                                         *)
(* An instance is a process with a Manager.  Instances meet in the         *)
(* database and in the lock source, which has a lock per updater and one   *)
(* for garbage collection.                                                 *)
(***************************************************************************)
EXTENDS VulnStore

CONSTANTS
  Insts, None,
  Rhel,        \* updaters of the factory that compares manifests
  feed,        \* what an updater's source publishes: a sequence of versions
  Keep,        \* Manager.updateRetention
  GCThrottle,
  BatchSize,
  MaxTrouble   \* bound: failed calls, lost locks, crashes and ended contexts

ASSUME UpdatesAssumption ==
  /\ Rhel \subseteq Updaters /\ None \notin Insts
  /\ \A u \in Updaters : feed[u] \in Seq(Seq(Vulns)) /\ Len(feed[u]) > 0
  /\ Keep \in Nat \ {1} /\ GCThrottle \in Nat \ {0} /\ BatchSize \in Nat \ {0}
  /\ MaxTrouble \in Nat

VARIABLES
  up,      \* the version a source publishes now
  etag,    \* Factory.manifestEtag of an instance
  down,    \* the context given to Start is done
  pc,      \* Manager.Run of an instance
  job,     \* the goroutine of an updater in a run
  gc,      \* GC of an instance: operations to delete, updaters, orphans seen
  lock,    \* the holder of a lock, or None
  trouble  \* what MaxTrouble bounds, so far

env == <<up, etag, down>>
vars == <<store, env, pc, job, gc, lock, trouble>>

Locks == Updaters \union {"garbage-collection"}

NoJob == [pc |-> "none", lost |-> FALSE, prev |-> 0, fp |-> 0, op |-> 0, pos |-> 0,
          rows |-> {}, links |-> {}, ok |-> TRUE]

NoGC == [lost |-> FALSE, ops |-> {}, todo |-> {}, seen |-> [u \in Updaters |-> {}]]

Init ==
  /\ StoreInit
  /\ up = [u \in Updaters |-> 1]
  /\ etag = [i \in Insts |-> <<>>]
  /\ down = [i \in Insts |-> FALSE]
  /\ pc = [i \in Insts |-> "idle"]
  /\ job = [i \in Insts |-> [u \in Updaters |-> NoJob]]
  /\ gc = [i \in Insts |-> NoGC]
  /\ lock = [n \in Locks |-> None]
  /\ trouble = 0

Trouble == trouble < MaxTrouble /\ trouble' = trouble + 1

(* A call fails: for a reason there is, or by itself.                      *)
Fails(reason) ==
  \/ reason /\ UNCHANGED trouble
  \/ Trouble

-----------------------------------------------------------------------------
(* The RHEL factory's manifest names the version of every stream.          *)
Manifest == [u \in Rhel |-> up[u]]

Queue(i, us) ==
  job' = [job EXCEPT ![i] = [u \in Updaters |-> IF u \in us THEN [NoJob EXCEPT !.pc = "queued"]
                                                            ELSE NoJob]]

(* Run: build the updater sets.                                            *)
Run(i) ==
  /\ pc[i] = "idle" /\ ~down[i] /\ etag[i] # Manifest
  /\ pc' = [pc EXCEPT ![i] = "run"]
  /\ etag' = [etag EXCEPT ![i] = Manifest]
  /\ Queue(i, Updaters)
  /\ UNCHANGED <<store, up, down, gc, lock, trouble>>

(* The manifest is as before: the set is the stub updater.                 *)
RunStub(i) ==
  /\ pc[i] = "idle" /\ ~down[i] /\ etag[i] = Manifest
  /\ pc' = [pc EXCEPT ![i] = "stub"]
  /\ Queue(i, Updaters \ Rhel)
  /\ UNCHANGED <<store, env, gc, lock, trouble>>

(* The factory fails and its set is left out.                              *)
RunWithout(i) ==
  /\ pc[i] = "idle" /\ ~down[i]
  /\ Trouble
  /\ pc' = [pc EXCEPT ![i] = "run"]
  /\ Queue(i, Updaters \ Rhel)
  /\ UNCHANGED <<store, env, gc, lock>>

StubStatus(i) ==
  /\ pc[i] = "stub"
  /\ \/ ~down[i] /\ RecordUpdaterSetStatus(Rhel) /\ UNCHANGED trouble
     \/ Fails(down[i]) /\ UNCHANGED store
  /\ pc' = [pc EXCEPT ![i] = "run"]
  /\ UNCHANGED <<env, job, gc, lock>>

-----------------------------------------------------------------------------
Running(i) == {u \in Updaters : job[i][u].pc \notin {"none", "queued"}}

To(i, u, p) == job' = [job EXCEPT ![i][u] = [@ EXCEPT !.pc = p]]

(* sem.Acquire.  Once the context is done the rest of the list is dropped. *)
Acquire(i, u) ==
  /\ pc[i] = "run" /\ job[i][u].pc = "queued"
  /\ \/ ~down[i] /\ Cardinality(Running(i)) < BatchSize /\ To(i, u, "trylock")
     \/ down[i] /\ To(i, u, "none")
  /\ UNCHANGED <<store, env, pc, gc, lock, trouble>>

(* Configure fails and the updater is left out.                            *)
Exclude(i, u) ==
  /\ job[i][u].pc = "queued"
  /\ Trouble
  /\ To(i, u, "none")
  /\ UNCHANGED <<store, env, pc, gc, lock>>

(* TryLock returns a context that is done.                                 *)
Refused(i, n) ==
  /\ Fails(down[i] \/ lock[n] # None)
  /\ UNCHANGED lock

(* Mutant: the updater runs whether it has the lock or not.                *)
TryLockAnyway(i, u) ==
  /\ job[i][u].pc = "trylock"
  /\ To(i, u, "get")
  /\ lock' = [lock EXCEPT ![u] = i]
  /\ UNCHANGED <<store, env, pc, gc, trouble>>

(* Mutant: the early return keeps its share of the semaphore.              *)
TryLockKeepsSem(i, u) ==
  /\ job[i][u].pc = "trylock"
  /\ \/ /\ ~down[i] /\ lock[u] = None
        /\ lock' = [lock EXCEPT ![u] = i]
        /\ To(i, u, "get")
        /\ UNCHANGED trouble
     \/ Refused(i, u) /\ To(i, u, "refused")
  /\ UNCHANGED <<store, env, pc, gc>>

TryLock(i, u) ==
  /\ job[i][u].pc = "trylock"
  /\ \/ /\ ~down[i] /\ lock[u] = None
        /\ lock' = [lock EXCEPT ![u] = i]
        /\ To(i, u, "get")
        /\ UNCHANGED trouble
     \/ Refused(i, u) /\ To(i, u, "none")
  /\ UNCHANGED <<store, env, pc, gc>>

(* driveUpdater: the fingerprint of the last operation.                    *)
GetFingerprint(i, u) ==
  /\ job[i][u].pc = "get"
  /\ job' = [job EXCEPT ![i][u] =
       [@ EXCEPT !.pc = "fetch", !.prev = IF Ops(u) = {} THEN 0 ELSE LatestOp(u).fp]]
  /\ UNCHANGED <<store, env, pc, gc, lock, trouble>>

(* driveUpdater: Fetch and Parse.  Unchanged ends the update.              *)
Fetch(i, u) ==
  /\ job[i][u].pc = "fetch"
  /\ \/ job[i][u].prev = up[u] /\ To(i, u, "status")
     \/ /\ job[i][u].prev # up[u]
        /\ job' = [job EXCEPT ![i][u] = [@ EXCEPT !.pc = "create", !.fp = up[u]]]
  /\ UNCHANGED <<store, env, pc, gc, lock, trouble>>

Create(i, u) ==
  /\ job[i][u].pc = "create"
  /\ \/ CreateOp(u, job[i][u].fp, Now) /\ UNCHANGED trouble
     \/ CreateOp(u, job[i][u].fp, PutBack) /\ Trouble
  /\ job' = [job EXCEPT ![i][u] = [@ EXCEPT !.pc = "insert", !.op = nextid, !.pos = 1]]
  /\ UNCHANGED <<env, pc, gc, lock>>

Contents(i, u) == feed[u][job[i][u].fp]

AtEnd(i, u) == job[i][u].pos > Len(Contents(i, u))

Current(i, u) == Contents(i, u)[job[i][u].pos]

(* INSERT waits for the transactions that have inserted the same row.      *)
WaitsFor(i, u) ==
  IF job[i][u].pc # "insert" \/ AtEnd(i, u) THEN {}
  ELSE {t \in (Insts \X Updaters) \ {<<i, u>>} : Current(i, u) \in job[t[1]][t[2]].rows}

(* The server ends a statement that waits for one that waits for it.       *)
Deadlocked(i, u) ==
  \E S \in SUBSET (Insts \X Updaters) :
    <<i, u>> \in S /\ \A t \in S : WaitsFor(t[1], t[2]) \intersect S # {}

(* INSERT ... ON CONFLICT DO NOTHING takes no lock on a row it finds.      *)
Insert(i, u) ==
  /\ job[i][u].pc = "insert" /\ ~AtEnd(i, u)
  /\ WaitsFor(i, u) = {}
  /\ job' = [job EXCEPT ![i][u] =
       [@ EXCEPT !.pc = "assoc",
                 !.rows = {v \in {Current(i, u)} : vuln[v] = NoRow} \union job[i][u].rows]]
  /\ UNCHANGED <<store, env, pc, gc, lock, trouble>>

(* The row a link needs: of this transaction, or committed.                *)
Found(i, u, v) == v \in job[i][u].rows \/ vuln[v] # NoRow

HasOp(i, u) == \E o \in update_operation : o.id = job[i][u].op

Assoc(i, u) ==
  /\ job[i][u].pc = "assoc"
  /\ Found(i, u, Current(i, u)) /\ HasOp(i, u)
  /\ job' = [job EXCEPT ![i][u] =
       [@ EXCEPT !.pc = "insert", !.pos = job[i][u].pos + 1,
                 !.links = job[i][u].links \union {Current(i, u)}]]
  /\ UNCHANGED <<store, env, pc, gc, lock, trouble>>

EndTx(i, u, ok) ==
  job' = [job EXCEPT ![i][u] =
    [@ EXCEPT !.pc = "status", !.rows = {}, !.links = {}, !.ok = ok]]

Commit(i, u) ==
  /\ job[i][u].pc = "insert" /\ AtEnd(i, u)
  /\ CommitTx(u, job[i][u].op, job[i][u].rows, job[i][u].links)
  /\ EndTx(i, u, TRUE)
  /\ UNCHANGED <<env, pc, gc, lock, trouble>>

(* What a step that fails leaves: nothing, its transaction rolled back, or *)
(* the operation or the commit whose answer is lost.                       *)
Leaves(i, u) ==
  \/ UNCHANGED store
  \/ job[i][u].pc = "create" /\ CreateOp(u, job[i][u].fp, Now)
  \/ /\ job[i][u].pc = "insert" /\ AtEnd(i, u)
     /\ CommitTx(u, job[i][u].op, job[i][u].rows, job[i][u].links)

(* A step of driveUpdater fails.  Linking to a row that is gone is an      *)
(* error of its own.                                                       *)
JobError(i, u) ==
  /\ job[i][u].pc \in {"get", "fetch", "create", "insert", "assoc"}
  /\ Fails(\/ down[i] \/ job[i][u].lost \/ Deadlocked(i, u)
           \/ job[i][u].pc = "assoc" /\ ~(Found(i, u, Current(i, u)) /\ HasOp(i, u)))
  /\ Leaves(i, u)
  /\ EndTx(i, u, FALSE)
  /\ UNCHANGED <<env, pc, gc, lock>>

(* Mutant: the lock's cancel function is not called.                       *)
StatusLocked(i, u) ==
  /\ job[i][u].pc = "status"
  /\ RecordUpdaterStatus(u, job[i][u].ok)
  /\ job' = [job EXCEPT ![i][u] = NoJob]
  /\ UNCHANGED <<env, pc, gc, lock, trouble>>

(* The deferred RecordUpdaterStatus, whose error is only logged, and the   *)
(* deferred unlock.                                                        *)
Status(i, u) ==
  /\ job[i][u].pc = "status"
  /\ \/ ~down[i] /\ RecordUpdaterStatus(u, job[i][u].ok) /\ UNCHANGED trouble
     \/ Fails(down[i] \/ job[i][u].lost) /\ UNCHANGED store
  /\ job' = [job EXCEPT ![i][u] = NoJob]
  /\ lock' = [lock EXCEPT ![u] = IF @ = i THEN None ELSE @]
  /\ UNCHANGED <<env, pc, gc>>

-----------------------------------------------------------------------------
(* All of the semaphore: every goroutine has returned.                     *)
Wait(i) ==
  /\ pc[i] = "run" /\ \A u \in Updaters : job[i][u].pc = "none"
  /\ \/ /\ Keep # 0 /\ ~down[i] /\ lock["garbage-collection"] = None
        /\ lock' = [lock EXCEPT !["garbage-collection"] = i]
        /\ pc' = [pc EXCEPT ![i] = "eligible"]
        /\ UNCHANGED trouble
     \/ /\ Keep = 0 /\ UNCHANGED <<lock, trouble>>
        /\ pc' = [pc EXCEPT ![i] = "idle"]
     \/ /\ Keep # 0 /\ Refused(i, "garbage-collection")
        /\ pc' = [pc EXCEPT ![i] = "idle"]
  /\ UNCHANGED <<store, env, job, gc>>

EligibleUpdateOpts(i) ==
  /\ pc[i] = "eligible"
  /\ \E S \in Throttled(Keep, GCThrottle) : gc' = [gc EXCEPT ![i].ops = S]
  /\ pc' = [pc EXCEPT ![i] = "delete"]
  /\ UNCHANGED <<store, env, job, lock, trouble>>

(* A link that is not committed yet holds a lock on its operation.         *)
DeleteOps(i) ==
  /\ pc[i] = "delete"
  /\ \A j \in Insts, u \in Updaters : job[j][u].links # {} => \A o \in gc[i].ops : o.id # job[j][u].op
  /\ DeleteUpdateOperations(gc[i].ops)
  /\ pc' = [pc EXCEPT ![i] = "distinct"]
  /\ UNCHANGED <<env, job, gc, lock, trouble>>

DistinctUpdaters(i) ==
  /\ pc[i] = "distinct"
  /\ gc' = [gc EXCEPT ![i].todo = {o.updater : o \in update_operation}]
  /\ pc' = [pc EXCEPT ![i] = "cleanup"]
  /\ UNCHANGED <<store, env, job, lock, trouble>>

(* vulnCleanup of an updater: the statement selects its rows ...           *)
SelectOrphans(i, u) ==
  /\ pc[i] = "cleanup" /\ u \in gc[i].todo
  /\ gc' = [gc EXCEPT ![i] =
       [@ EXCEPT !.todo = gc[i].todo \ {u}, !.seen = [gc[i].seen EXCEPT ![u] = Orphans(u)]]]
  /\ UNCHANGED <<store, env, pc, job, lock, trouble>>

(* Mutant: nothing holds a lock on a row.                                  *)
VulnCleanupAtOnce(i, u) ==
  /\ pc[i] = "cleanup" /\ gc[i].seen[u] # {}
  /\ DeleteVulns(gc[i].seen[u])
  /\ gc' = [gc EXCEPT ![i].seen[u] = {}]
  /\ UNCHANGED <<env, pc, job, lock, trouble>>

(* ... and deletes them, after the transactions that hold a lock on one.   *)
VulnCleanup(i, u) ==
  /\ pc[i] = "cleanup" /\ gc[i].seen[u] # {}
  /\ \A j \in Insts, w \in Updaters : job[j][w].links \intersect gc[i].seen[u] = {}
  /\ DeleteVulns(gc[i].seen[u])
  /\ gc' = [gc EXCEPT ![i].seen[u] = {}]
  /\ UNCHANGED <<env, pc, job, lock, trouble>>

(* An error of one cleanup is reported after the others are done.          *)
CleanupError(i, u) ==
  /\ pc[i] = "cleanup" /\ u \in gc[i].todo
  /\ Fails(down[i] \/ gc[i].lost)
  /\ gc' = [gc EXCEPT ![i].todo = @ \ {u}]
  /\ UNCHANGED <<store, env, pc, job, lock>>

EndGC(i) ==
  /\ gc' = [gc EXCEPT ![i] = NoGC]
  /\ lock' = [lock EXCEPT !["garbage-collection"] = IF @ = i THEN None ELSE @]
  /\ pc' = [pc EXCEPT ![i] = "idle"]

GCError(i) ==
  /\ pc[i] \in {"eligible", "delete", "distinct"}
  /\ Fails(down[i] \/ gc[i].lost)
  /\ EndGC(i)
  /\ UNCHANGED <<store, env, job>>

GCReturn(i) ==
  /\ pc[i] = "cleanup" /\ gc[i].todo = {} /\ \A u \in Updaters : gc[i].seen[u] = {}
  /\ EndGC(i)
  /\ UNCHANGED <<store, env, job, trouble>>

-----------------------------------------------------------------------------
(* A source publishes its next version.                                    *)
Publish(u) ==
  /\ up[u] < Len(feed[u])
  /\ up' = [up EXCEPT ![u] = @ + 1]
  /\ UNCHANGED <<store, etag, down, pc, job, gc, lock, trouble>>

(* The context given to Start ends.                                        *)
Stop(i) ==
  /\ ~down[i] /\ Trouble
  /\ down' = [down EXCEPT ![i] = TRUE]
  /\ UNCHANGED <<store, up, etag, pc, job, gc, lock>>

(* A lock is lost; the context that comes with it ends some time later.    *)
LockLost(i, n) ==
  /\ lock[n] = i
  /\ Trouble
  /\ lock' = [lock EXCEPT ![n] = None]
  /\ IF n \in Updaters THEN job' = [job EXCEPT ![i][n] = [@ EXCEPT !.lost = TRUE]] /\ UNCHANGED gc
                        ELSE gc' = [gc EXCEPT ![i].lost = TRUE] /\ UNCHANGED job
  /\ UNCHANGED <<store, env, pc>>

(* A process dies and starts again.                                        *)
Crash(i) ==
  /\ Trouble
  /\ pc' = [pc EXCEPT ![i] = "idle"]
  /\ etag' = [etag EXCEPT ![i] = <<>>]
  /\ job' = [job EXCEPT ![i] = [u \in Updaters |-> NoJob]]
  /\ gc' = [gc EXCEPT ![i] = NoGC]
  /\ lock' = [n \in Locks |-> IF lock[n] = i THEN None ELSE lock[n]]
  /\ UNCHANGED <<store, up, down>>

-----------------------------------------------------------------------------
DriveUpdater(i, u) ==
  \/ Acquire(i, u) \/ Exclude(i, u) \/ TryLock(i, u) \/ GetFingerprint(i, u) \/ Fetch(i, u) \/ Create(i, u)
  \/ Insert(i, u) \/ Assoc(i, u) \/ Commit(i, u) \/ JobError(i, u) \/ Status(i, u)

GC(i) ==
  \/ EligibleUpdateOpts(i) \/ DeleteOps(i) \/ DistinctUpdaters(i) \/ GCError(i) \/ GCReturn(i)
  \/ \E u \in Updaters : SelectOrphans(i, u) \/ VulnCleanup(i, u) \/ CleanupError(i, u)

Tick(i) == Run(i) \/ RunStub(i)

Step(i) == StubStatus(i) \/ Wait(i) \/ GC(i) \/ \E u \in Updaters : DriveUpdater(i, u)

Next ==
  \/ \E i \in Insts : Tick(i) \/ RunWithout(i) \/ Step(i) \/ Stop(i) \/ Crash(i)
  \/ \E i \in Insts, n \in Locks : LockLost(i, n)
  \/ \E u \in Updaters : Publish(u)

Spec == Init /\ [][Next]_vars

(* The ticker fires, goroutines run and statements end.                    *)
FairSpec ==
  /\ Spec
  /\ \A i \in Insts : WF_vars(Tick(i)) /\ WF_vars(StubStatus(i) \/ Wait(i) \/ GC(i))
  /\ \A i \in Insts, u \in Updaters : WF_vars(DriveUpdater(i, u))

-----------------------------------------------------------------------------
(* Every variable stays in its type.                                       *)
TypeOK ==
  /\ update_operation \subseteq
       [id : 1..(nextid - 1), updater : Updaters, fp : Nat \ {0}, date : Nat]
  /\ \A o \in update_operation : o.fp \in 1..up[o.updater]
  /\ vuln \in [Vulns -> Updaters \union {NoRow}]
  /\ \A x \in uo_vuln : x[2] \in Vulns /\ vuln[x[2]] # NoRow /\ \E o \in update_operation : o.id = x[1]
  /\ updater_status \in [Updaters -> {"none", "ok", "failed"}]
  /\ \A u \in Updaters : up[u] \in 1..Len(feed[u])
  /\ lock \in [Locks -> Insts \union {None}]
  /\ trouble \in 0..MaxTrouble

Seen(q) == {q[k] : k \in 1..Len(q)}

(* The operation is being written.                                         *)
Filling(o) == \E i \in Insts : job[i][o.updater].op = o.id /\ job[i][o.updater].pc \in {"insert", "assoc"}

Complete(o) == Linked(o.id) = Seen(feed[o.updater][o.fp])

(* What becomes of the vulnerabilities of an operation that stays: they    *)
(* come all at once, those of its version, and go only with a collection   *)
(* that selected them (gc.go:204).                                         *)
Loads(o) == Linked(o.id) = {} /\ Linked(o.id)' = Seen(feed[o.updater][o.fp])

Collected(o) ==
  \E i \in Insts, u \in Updaters :
    Linked(o.id)' = Linked(o.id) \ gc[i].seen[u] /\ \A v \in gc[i].seen[u] : vuln'[v] = NoRow

(* No update, failed or not, ever changes what another one loaded, or      *)
(* loads a part: an operation has nothing until its transaction commits    *)
(* and then its whole version.  It loses a vulnerability afterwards only   *)
(* to a collection that selected the row while no operation referred to    *)
(* it: one that was brought back, between the select and the delete of     *)
(* vulnCleanup.                                                            *)
WholeUpdates ==
  [][/\ \A o \in update_operation \intersect update_operation' :
          Linked(o.id)' # Linked(o.id) => Loads(o) \/ Collected(o)
     /\ \A i \in Insts, u \in Updaters : \A v \in gc'[i].seen[u] \ gc[i].seen[u] :
          \A o \in update_operation : v \notin Linked(o.id)]_vars

(* Operations of one updater are in the order of what they loaded: no      *)
(* update overwrites a newer one, and none is loaded twice.                *)
Ordered ==
  \A o, x \in update_operation : o.updater = x.updater /\ o.id < x.id => o.fp < x.fp

(* GC leaves the latest Keep operations of every updater alone, whoever    *)
(* adds or deletes operations while it works and whatever the clock does.  *)
GCKeeps ==
  [][\A o \in update_operation \ update_operation' :
       Cardinality({x \in update_operation' : x.updater = o.updater /\ x.date > o.date}) >= Keep]_vars

(* gc.go:50, GC deletes "any vulns from the vuln table which are not       *)
(* longer referenced by update operations": none that one refers to.       *)
GCOnlyOrphans ==
  [][\A v \in Vulns : vuln[v] # NoRow /\ vuln'[v] = NoRow => \A l \in uo_vuln : l[2] # v]_vars

(* updater.go:59, "records that an updater is up to date": an updater with *)
(* a successful last run has its last operation loaded, or being loaded.   *)
StatusHonest ==
  \A u \in Updaters : updater_status[u] = "ok" =>
    Ops(u) # {} /\ (Complete(LatestOp(u)) \/ Filling(LatestOp(u)))

(* Every Run returns: no lock or semaphore is kept by a goroutine.         *)
RunReturns == \A i \in Insts : pc[i] # "idle" ~> pc[i] = "idle"

(* A source that never brings back a vulnerability it has dropped.         *)
Steady(u) ==
  \A l \in 1..Len(feed[u]) : \A k \in 1..l, n \in l..Len(feed[u]) :
    Seen(feed[u][k]) \intersect Seen(feed[u][n]) \subseteq Seen(feed[u][l])

(* What the sources publish is loaded in the end, as far as they are       *)
(* steady: a row that is brought back may go while it is being linked.     *)
EventuallyCurrent ==
  \A u \in Updaters :
    Steady(u) => <>[](Ops(u) # {} /\ LatestOp(u).fp = up[u] /\ Complete(LatestOp(u)))
=============================================================================
