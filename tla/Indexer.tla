------------------------------ MODULE Indexer -------------------------------
(***************************************************************************)
(* Libindex.Index: the manifest lock, the controller's state machine, the  *)
(* LayerScanner and DeleteManifests, over the tables of IndexerStore.      *)
(*                                                                         *)
(* A request runs in a process; the requests of a process share one        *)
(* indexer.Options, and with it Vscnrs.  Every store call is a step.  The  *)
(* arena is one step that fetches or fails (see FetchArena), and the lock  *)
(* is one that may be lost (see CtxLock).                                  *)
(***************************************************************************)
EXTENDS IndexerStore

CONSTANTS
  Procs, Reqs, None,
  proc,        \* the process a request runs in
  mf,          \* the manifest a request indexes
  Config,      \* the scanner lists a process runs with, one per restart
  Broken,      \* scanners whose Configure fails
  MaxFault,    \* bound: store, fetch and scanner errors
  MaxCrash,    \* bound: restarts of processes
  MaxDelete,   \* bound: calls of DeleteManifests
  Impatient,   \* bound: requests whose context may end
  Losable      \* bound: requests that may lose their lock

SeqSet(q) == {q[i] : i \in 1..Len(q)}

ASSUME IndexerAssumption ==
  /\ proc \in [Reqs -> Procs] /\ mf \in [Reqs -> Manifests] /\ None \notin Reqs
  /\ Config \in [Procs -> Seq(Seq(Scanners))] /\ \A p \in Procs : Len(Config[p]) > 0
  /\ MaxFault \in Nat /\ MaxCrash \in Nat /\ MaxDelete \in Nat

VARIABLES
  vscnrs,   \* indexer.Options.Vscnrs of a process: the elements of the array
  vlen,     \* and the length in the slice's header
  version,  \* which Config a process runs with
  lock,     \* the request that holds a manifest's lock, or None
  ctx,      \* a request's context: "live", "canceled", "deadline"
  lost,     \* requests whose lock was lost
  pc,       \* where a request is
  next,     \* the state the last stateFunc asked for
  err,      \* what Index returns or will return
  report,   \* Controller.report
  filter,   \* checkManifest's loop: length, position and result
  fetched,  \* layers the request's Realizer holds
  task,     \* scanLayer per layer and scanner
  gerr,     \* the errgroup's first error
  deleter,  \* "idle", or "cleanup" between the two statements
  faults, crashes, deletes

run == <<pc, next, err, report, filter, fetched, task, gerr>>
opts == <<vscnrs, vlen>>
env == <<opts, version, ctx, lost, faults, crashes, deleter, deletes>>
vars == <<db, run, lock, env>>

Pairs == Layers \X Scanners

NewReport == [state |-> "", success |-> FALSE, err |-> FALSE, content |-> {}]

NoFilter == [n |-> 0, i |-> 0, out |-> <<>>]

(* A reader of s.Vscnrs sees array and length, which may not match between *)
(* the two halves of a write.  The array has nil after its elements.       *)
Vscnrs(r) == {vscnrs[proc[r]][i] : i \in 1..Len(vscnrs[proc[r]]) \intersect 1..vlen[proc[r]]}

HasNil(r) == vlen[proc[r]] > Len(vscnrs[proc[r]])

NoTasks == [t \in Pairs |-> "none"]

Active(r) == pc[r] \notin {"idle", "done", "gone"}

Dead(r) == ctx[r] \in {"canceled", "deadline"}

(* The scanners NewLayerScanner kept.                                      *)
LayerScanners(r) == SeqSet(Config[proc[r]][version[proc[r]]]) \ Broken

(* The scanners of the process's ecosystems.                               *)
AllScanners(r) == SeqSet(Config[proc[r]][version[proc[r]]])

Init ==
  /\ StoreInit
  /\ version = [p \in Procs |-> 1]
  /\ vscnrs = [p \in Procs |-> Config[p][1]]
  /\ vlen = [p \in Procs |-> Len(Config[p][1])]
  /\ lock = [m \in Manifests |-> None]
  /\ ctx = [r \in Reqs |-> "live"] /\ lost = {}
  /\ pc = [r \in Reqs |-> "idle"]
  /\ next = [r \in Reqs |-> ""]
  /\ err = [r \in Reqs |-> "nil"]
  /\ report = [r \in Reqs |-> NewReport]
  /\ filter = [r \in Reqs |-> NoFilter]
  /\ fetched = [r \in Reqs |-> {}]
  /\ task = [r \in Reqs |-> NoTasks]
  /\ gerr = [r \in Reqs |-> "nil"]
  /\ deleter = "idle"
  /\ faults = 0 /\ crashes = 0 /\ deletes = 0

-----------------------------------------------------------------------------
(* Mutant: the deferred unlock is missing.                                 *)
LeaveLocked(r, e) ==
  /\ pc' = [pc EXCEPT ![r] = "done"]
  /\ err' = [err EXCEPT ![r] = e]
  /\ next' = [next EXCEPT ![r] = ""]
  /\ filter' = [filter EXCEPT ![r] = NoFilter]
  /\ fetched' = [fetched EXCEPT ![r] = {}]
  /\ task' = [task EXCEPT ![r] = NoTasks]
  /\ gerr' = [gerr EXCEPT ![r] = "nil"]
  /\ UNCHANGED lock

(* Index returns: the deferred calls close the Realizer, free the lock.    *)
Leave(r, e) ==
  /\ pc' = [pc EXCEPT ![r] = "done"]
  /\ err' = [err EXCEPT ![r] = e]
  /\ lock' = [lock EXCEPT ![mf[r]] = IF @ = r THEN None ELSE @]
  /\ next' = [next EXCEPT ![r] = ""]
  /\ filter' = [filter EXCEPT ![r] = NoFilter]
  /\ fetched' = [fetched EXCEPT ![r] = {}]
  /\ task' = [task EXCEPT ![r] = NoTasks]
  /\ gerr' = [gerr EXCEPT ![r] = "nil"]

(* A stateFunc returned without error: run drops out if the context ended  *)
(* meanwhile, and else persists the report and goes on to nxt.             *)
Proceed(r, nxt) ==
  \/ Dead(r) /\ Leave(r, ctx[r])
  \/ /\ ~Dead(r)
     /\ pc' = [pc EXCEPT ![r] = "save"]
     /\ next' = [next EXCEPT ![r] = nxt]
     /\ filter' = [filter EXCEPT ![r] = NoFilter]
     /\ task' = [task EXCEPT ![r] = NoTasks]
     /\ UNCHANGED <<err, lock, fetched, gerr>>

(* A stateFunc returned Terminal and e.  DeadlineExceeded is reset after   *)
(* the report is persisted, and Terminal then ends the loop.               *)
Give(r, e, rep) ==
  \/ e = "canceled" /\ Leave(r, e) /\ report' = [report EXCEPT ![r] = rep]
  \/ /\ e # "canceled"
     /\ pc' = [pc EXCEPT ![r] = "save"]
     /\ next' = [next EXCEPT ![r] = "Terminal"]
     /\ err' = [err EXCEPT ![r] = IF e = "deadline" THEN "nil" ELSE e]
     /\ report' = [report EXCEPT ![r] =
          IF e = "deadline" THEN rep
          ELSE [rep EXCEPT !.state = "IndexError", !.success = FALSE, !.err = TRUE]]
     /\ filter' = [filter EXCEPT ![r] = NoFilter]
     /\ task' = [task EXCEPT ![r] = NoTasks]
     /\ gerr' = [gerr EXCEPT ![r] = "nil"]
     /\ UNCHANGED <<lock, fetched>>

(* Errors a call may meet: its context's, or a fault of its own.  A write  *)
(* that fails this way may have been committed all the same, with only its *)
(* answer lost.                                                            *)
MayFail(r, e) ==
  \/ Dead(r) /\ e = ctx[r] /\ UNCHANGED faults
  \/ faults < MaxFault /\ e \in {"error", "deadline"} /\ faults' = faults + 1

(* run after a stateFunc: SetIndexReport, whose error is only logged, then *)
(* the next state or the end of the loop.                                  *)
Continue(r) ==
  \/ next[r] = "Terminal" /\ Leave(r, err[r]) /\ UNCHANGED report
  \/ /\ next[r] # "Terminal"
     /\ pc' = [pc EXCEPT ![r] = next[r]]
     /\ report' = [report EXCEPT ![r] = [@ EXCEPT !.state = next[r]]]
     /\ UNCHANGED <<next, err, filter, fetched, task, gerr, lock>>

Save(r) ==
  /\ pc[r] = "save"
  /\ SetIndexReport(mf[r], report[r])
  /\ Continue(r)
  /\ UNCHANGED env

SaveError(r) ==
  /\ pc[r] = "save"
  /\ \/ mf[r] \notin manifest /\ UNCHANGED <<db, faults>>
     \/ /\ \E e \in {"error", "canceled", "deadline"} : MayFail(r, e)
        /\ SetIndexReport(mf[r], report[r]) \/ UNCHANGED db
  /\ Continue(r)
  /\ UNCHANGED <<opts, version, ctx, lost, crashes, deleter, deletes>>

-----------------------------------------------------------------------------
Index(r) ==
  /\ pc[r] = "idle"
  /\ pc' = [pc EXCEPT ![r] = "lock"]
  /\ UNCHANGED <<db, next, err, report, filter, fetched, task, gerr, lock, env>>

Lock(r) ==
  /\ pc[r] = "lock" /\ lock[mf[r]] = None
  /\ lock' = [lock EXCEPT ![mf[r]] = r]
  /\ pc' = [pc EXCEPT ![r] = "CheckManifest"]
  /\ UNCHANGED <<db, next, err, report, filter, fetched, task, gerr, env>>

LockGivesUp(r) ==
  /\ pc[r] = "lock" /\ Dead(r)
  /\ Leave(r, ctx[r])
  /\ UNCHANGED <<db, report, env>>

(* Mutant: a manifest is indexed again whatever is recorded of it.         *)
CheckManifestBlind(r) ==
  /\ pc[r] = "CheckManifest"
  /\ pc' = [pc EXCEPT ![r] = "range"]
  /\ UNCHANGED <<db, next, err, report, filter, fetched, task, gerr, lock, env>>

(* checkManifest: the first ManifestScanned.                               *)
CheckManifest(r) ==
  /\ pc[r] = "CheckManifest" /\ ~HasNil(r)
  /\ pc' = [pc EXCEPT ![r] = IF ManifestScanned(mf[r], Vscnrs(r)) THEN "existing" ELSE "range"]
  /\ UNCHANGED <<db, next, err, report, filter, fetched, task, gerr, lock, env>>

(* The loop's range and the capacity of filtered: the length as it is now. *)
Range(r) ==
  /\ pc[r] = "range"
  /\ pc' = [pc EXCEPT ![r] = "filter"]
  /\ filter' = [filter EXCEPT ![r] = [n |-> vlen[proc[r]], i |-> 1, out |-> <<>>]]
  /\ UNCHANGED <<db, next, err, report, fetched, task, gerr, lock, env>>

(* A turn of the loop reads s.Vscnrs again.  s.Vscnrs[i:i+1] may go past   *)
(* the length, up to the array's capacity; s.Vscnrs[i] may not.            *)
Filter(r) ==
  LET f == filter[r]
      v == vscnrs[proc[r]]
      seen == ManifestScanned(mf[r], {v[f.i]})
  IN /\ pc[r] = "filter" /\ f.i <= f.n /\ f.i <= Len(v)
     /\ seen \/ f.i <= vlen[proc[r]]
     /\ filter' = [filter EXCEPT ![r] =
          [f EXCEPT !.i = f.i + 1, !.out = IF seen THEN f.out ELSE Append(f.out, v[f.i])]]
     /\ UNCHANGED <<db, pc, next, err, report, fetched, task, gerr, lock, env>>

(* A read of s.Vscnrs past its end: an index out of range, or a nil        *)
(* scanner that is asked for its name.                                     *)
Panic(r) ==
  /\ \/ pc[r] \in {"CheckManifest", "IndexFinished"} /\ HasNil(r)
     \/ /\ pc[r] = "FetchLayers" /\ HasNil(r)
        /\ \E l \in LayerSet(mf[r]) : \A s \in Vscnrs(r) : LayerScanned(l, s)
     \/ /\ pc[r] = "filter" /\ filter[r].i <= filter[r].n
        /\ \/ filter[r].i > Len(vscnrs[proc[r]])
           \/ /\ filter[r].i \in (vlen[proc[r]] + 1)..Len(vscnrs[proc[r]])
              /\ ~ManifestScanned(mf[r], {vscnrs[proc[r]][filter[r].i]})
  /\ Leave(r, "panic")
  /\ UNCHANGED <<db, report, env>>

(* s.Vscnrs = filtered, in the Options every request of the process has:   *)
(* the words of the slice are stored one after the other.                  *)
SetVscnrs(r) ==
  /\ pc[r] = "filter" /\ filter[r].i > filter[r].n
  /\ \/ /\ vscnrs' = [vscnrs EXCEPT ![proc[r]] = filter[r].out]
        /\ pc' = [pc EXCEPT ![r] = "setlen"]
        /\ UNCHANGED vlen
     \/ /\ vlen' = [vlen EXCEPT ![proc[r]] = Len(filter[r].out)]
        /\ pc' = [pc EXCEPT ![r] = "setarray"]
        /\ UNCHANGED vscnrs
  /\ UNCHANGED <<db, next, err, report, filter, fetched, task, gerr, lock, version, ctx, lost,
                 faults, crashes, deleter, deletes>>

SetRest(r) ==
  /\ \/ /\ pc[r] = "setarray"
        /\ vscnrs' = [vscnrs EXCEPT ![proc[r]] = filter[r].out]
        /\ UNCHANGED vlen
     \/ /\ pc[r] = "setlen"
        /\ vlen' = [vlen EXCEPT ![proc[r]] = Len(filter[r].out)]
        /\ UNCHANGED vscnrs
  /\ pc' = [pc EXCEPT ![r] = "persist"]
  /\ UNCHANGED <<db, next, err, report, filter, fetched, task, gerr, lock, version, ctx, lost,
                 faults, crashes, deleter, deletes>>

Persist(r) ==
  /\ pc[r] = "persist"
  /\ PersistManifest(mf[r])
  /\ Proceed(r, "FetchLayers")
  /\ UNCHANGED <<report, env>>

(* checkManifest for a manifest that is already scanned.                   *)
Existing(r) ==
  /\ pc[r] = "existing"
  /\ \/ /\ indexreport[mf[r]] # NoReport
        /\ report' = [report EXCEPT ![r] = indexreport[mf[r]]]
        /\ Proceed(r, "Terminal")
     \/ indexreport[mf[r]] = NoReport /\ Give(r, "error", report[r])
  /\ UNCHANGED <<db, env>>

(* reduce: the layers some scanner has not seen.                           *)
Reduce(m, ss) == {l \in LayerSet(m) : \E s \in ss : ~LayerScanned(l, s)}

(* fetchLayers.  The reads of reduce are one step: rows that appear while  *)
(* it reads only make it fetch more than is needed.                        *)
FetchLayers(r) ==
  /\ pc[r] = "FetchLayers"
  /\ HasNil(r) => \A l \in LayerSet(mf[r]) : \E s \in Vscnrs(r) : ~LayerScanned(l, s)
  /\ fetched' = [fetched EXCEPT ![r] = Reduce(mf[r], Vscnrs(r))]
  /\ pc' = [pc EXCEPT ![r] = "realize"]
  /\ UNCHANGED <<db, next, err, report, filter, task, gerr, lock, env>>

Realize(r) ==
  /\ pc[r] = "realize"
  /\ Proceed(r, "ScanLayers")
  /\ UNCHANGED <<db, report, env>>

-----------------------------------------------------------------------------
(* LayerScanner.Scan starts a goroutine per layer and scanner.             *)
Scan(r) ==
  /\ pc[r] = "ScanLayers"
  /\ pc' = [pc EXCEPT ![r] = "scanning"]
  /\ task' = [task EXCEPT ![r] =
       [t \in Pairs |-> IF t \in LayerSet(mf[r]) \X LayerScanners(r) THEN "todo" ELSE "none"]]
  /\ UNCHANGED <<db, next, err, report, filter, fetched, gerr, lock, env>>

SetTask(r, t, st) ==
  /\ task' = [task EXCEPT ![r][t] = st]
  /\ UNCHANGED <<pc, next, err, report, filter, fetched, lock>>

(* scanLayer: LayerScanned.                                                *)
CheckLayer(r, t) ==
  /\ task[r][t] = "todo"
  /\ SetTask(r, t, IF LayerScanned(t[1], t[2]) THEN "ok" ELSE "scan")
  /\ UNCHANGED <<db, gerr, env>>

(* Mutant: the layer is never marked.                                      *)
MarkForgotten(r, t) ==
  /\ task[r][t] = "scan" /\ t[1] \in fetched[r]
  /\ SetTask(r, t, "marked")
  /\ UNCHANGED <<db, gerr, env>>

(* scanLayer: result.Do reads the fetched layer, then SetLayerScanned.     *)
Mark(r, t) ==
  /\ task[r][t] = "scan" /\ t[1] \in fetched[r]
  /\ SetLayerScanned(t[1], t[2])
  /\ SetTask(r, t, "marked")
  /\ UNCHANGED <<gerr, env>>

(* The scanner has no network: Do drops the error, nothing is stored.      *)
MarkOffline(r, t) ==
  /\ task[r][t] = "scan" /\ t[1] \in fetched[r] /\ faults < MaxFault
  /\ faults' = faults + 1
  /\ SetLayerScanned(t[1], t[2])
  /\ SetTask(r, t, "ok")
  /\ UNCHANGED <<gerr, opts, version, ctx, lost, crashes, deleter, deletes>>

(* scanLayer: result.Store.                                                *)
Store(r, t) ==
  /\ task[r][t] = "marked"
  /\ IndexArtifacts(t[1], t[2])
  /\ SetTask(r, t, "ok")
  /\ UNCHANGED <<gerr, env>>

(* The writes of scanLayer, as far as the server is concerned.             *)
TaskWrites(r, t) ==
  \/ UNCHANGED db
  \/ task[r][t] = "scan" /\ t[1] \in fetched[r] /\ SetLayerScanned(t[1], t[2])
  \/ task[r][t] = "marked" /\ IndexArtifacts(t[1], t[2])

(* scanLayer fails: a fault, the group's or the request's context, a layer *)
(* without a file or without a row.  The group keeps the first error.      *)
ScanLayerError(r, t) ==
  /\ task[r][t] \in {"todo", "scan", "marked"}
  /\ \E e \in {"error", "canceled", "deadline"} :
       /\ \/ MayFail(r, e) /\ TaskWrites(r, t)
          \/ gerr[r] # "nil" /\ e = "canceled" /\ UNCHANGED faults /\ TaskWrites(r, t)
          \/ /\ task[r][t] = "scan" /\ t[1] \notin fetched[r] \intersect layer
             /\ e = "error" /\ UNCHANGED <<db, faults>>
          \/ /\ task[r][t] = "marked" /\ t[1] \notin layer
             /\ e = "error" /\ UNCHANGED <<db, faults>>
       /\ gerr' = [gerr EXCEPT ![r] = IF @ = "nil" THEN e ELSE @]
  /\ SetTask(r, t, "err")
  /\ UNCHANGED <<opts, version, ctx, lost, crashes, deleter, deletes>>

(* g.Wait.                                                                 *)
ScanReturn(r) ==
  /\ pc[r] = "scanning"
  /\ \A t \in Pairs : task[r][t] \in {"none", "ok", "err"}
  /\ \/ gerr[r] = "nil" /\ Proceed(r, "Coalesce") /\ UNCHANGED report
     \/ gerr[r] # "nil" /\ Give(r, gerr[r], report[r])
  /\ UNCHANGED <<db, env>>

-----------------------------------------------------------------------------
(* coalesce reads what every ecosystem's scanners stored for the layers    *)
(* and merges the coalesced reports into the controller's.                 *)
Coalesce(r) ==
  /\ pc[r] = "Coalesce"
  /\ report' = [report EXCEPT ![r] =
       [@ EXCEPT !.content = report[r].content \union ArtifactsByLayer(mf[r], AllScanners(r))]]
  /\ Proceed(r, "IndexManifest")
  /\ UNCHANGED <<db, env>>

(* Mutant: the manifest's contents are not written.                        *)
IndexContentsSkipped(r) ==
  /\ pc[r] = "IndexManifest"
  /\ Proceed(r, "IndexFinished")
  /\ UNCHANGED <<db, report, env>>

IndexContents(r) ==
  /\ pc[r] = "IndexManifest"
  /\ IndexManifest(mf[r], report[r].content)
  /\ Proceed(r, "IndexFinished")
  /\ UNCHANGED <<report, env>>

Finished(r) == [report[r] EXCEPT !.success = TRUE]

(* indexFinished, with whatever Vscnrs holds by now.                       *)
Finish(r) ==
  /\ pc[r] = "IndexFinished" /\ ~HasNil(r)
  /\ SetIndexFinished(mf[r], Vscnrs(r), Finished(r))
  /\ report' = [report EXCEPT ![r] = Finished(r)]
  /\ Proceed(r, "Terminal")
  /\ UNCHANGED env

(* The rows are there already, or the manifest is gone.                    *)
FinishRefused(r) ==
  /\ pc[r] = "IndexFinished"
  /\ ~HasNil(r)
  /\ mf[r] \notin manifest \/ FinishedBefore(mf[r], Vscnrs(r))
  /\ Give(r, "error", Finished(r))
  /\ UNCHANGED <<db, env>>

(* The writes of a stateFunc, as far as the server is concerned.           *)
StateWrites(r) ==
  \/ UNCHANGED db
  \/ pc[r] = "persist" /\ PersistManifest(mf[r])
  \/ pc[r] = "IndexManifest" /\ IndexManifest(mf[r], report[r].content)
  \/ pc[r] = "IndexFinished" /\ ~HasNil(r) /\ SetIndexFinished(mf[r], Vscnrs(r), Finished(r))

(* A stateFunc's call fails: it returns Terminal and the error.            *)
StateError(r) ==
  /\ pc[r] \in {"CheckManifest", "filter", "persist", "existing", "FetchLayers", "realize",
                "Coalesce", "IndexManifest", "IndexFinished"}
  /\ pc[r] = "filter" => filter[r].i <= filter[r].n
  /\ \E e \in {"error", "canceled", "deadline"} :
       /\ MayFail(r, e)
       /\ Give(r, e, IF pc[r] = "IndexFinished" THEN Finished(r) ELSE report[r])
  /\ StateWrites(r)
  /\ UNCHANGED <<opts, version, ctx, lost, crashes, deleter, deletes>>

-----------------------------------------------------------------------------
(* The caller's context ends.                                              *)
ContextEnds(r) ==
  /\ r \in Impatient /\ Active(r) /\ ~Dead(r)
  /\ \E k \in {"canceled", "deadline"} : ctx' = [ctx EXCEPT ![r] = k]
  /\ UNCHANGED <<db, run, lock, opts, version, lost, faults, crashes, deleter, deletes>>

(* The lock is lost, and the holder's context is cancelled some time later *)
(* (CtxLock: Exclusive and LostLockCancelled).                             *)
LockLost(r) ==
  /\ r \in Losable /\ lock[mf[r]] = r
  /\ lock' = [lock EXCEPT ![mf[r]] = None]
  /\ lost' = lost \union {r}
  /\ UNCHANGED <<db, run, opts, version, ctx, faults, crashes, deleter, deletes>>

LostNoticed(r) ==
  /\ r \in lost /\ Active(r) /\ ~Dead(r)
  /\ ctx' = [ctx EXCEPT ![r] = "canceled"]
  /\ UNCHANGED <<db, run, lock, opts, version, lost, faults, crashes, deleter, deletes>>

(* A process dies and comes back, with its next configuration if any.      *)
Crash(p) ==
  LET v == IF version[p] < Len(Config[p]) THEN version[p] + 1 ELSE version[p]
      hit == {r \in Reqs : proc[r] = p /\ Active(r)}
  IN /\ crashes < MaxCrash
     /\ crashes' = crashes + 1
     /\ version' = [version EXCEPT ![p] = v]
     /\ vscnrs' = [vscnrs EXCEPT ![p] = Config[p][v]]
     /\ vlen' = [vlen EXCEPT ![p] = Len(Config[p][v])]
     /\ pc' = [r \in Reqs |-> IF r \in hit THEN "gone" ELSE pc[r]]
     /\ lock' = [m \in Manifests |-> IF lock[m] \in hit THEN None ELSE lock[m]]
     /\ next' = [r \in Reqs |-> IF r \in hit THEN "" ELSE next[r]]
     /\ filter' = [r \in Reqs |-> IF r \in hit THEN NoFilter ELSE filter[r]]
     /\ fetched' = [r \in Reqs |-> IF r \in hit THEN {} ELSE fetched[r]]
     /\ task' = [r \in Reqs |-> IF r \in hit THEN NoTasks ELSE task[r]]
     /\ gerr' = [r \in Reqs |-> IF r \in hit THEN "nil" ELSE gerr[r]]
     /\ report' = [r \in Reqs |-> IF r \in hit THEN NewReport ELSE report[r]]
     /\ UNCHANGED <<db, err, ctx, lost, faults, deleter, deletes>>

(* DeleteManifests takes no lock, and is two statements.                   *)
Delete(m) ==
  /\ deleter = "idle" /\ deletes < MaxDelete
  /\ DeleteManifestRow(m)
  /\ deleter' = "cleanup" /\ deletes' = deletes + 1
  /\ UNCHANGED <<run, lock, opts, version, ctx, lost, faults, crashes>>

Cleanup ==
  /\ deleter = "cleanup"
  /\ LayerCleanup
  /\ deleter' = "idle"
  /\ UNCHANGED <<run, lock, opts, version, ctx, lost, faults, crashes, deletes>>

CleanupError ==
  /\ deleter = "cleanup"
  /\ deleter' = "idle"
  /\ UNCHANGED <<db, run, lock, opts, version, ctx, lost, faults, crashes, deletes>>

-----------------------------------------------------------------------------
(* Steps of a request that its goroutines take by themselves.              *)
ScanLayer(r, t) ==
  CheckLayer(r, t) \/ Mark(r, t) \/ Store(r, t) \/ ScanLayerError(r, t)

Step(r) ==
  \/ Lock(r) \/ LockGivesUp(r) \/ CheckManifest(r) \/ Range(r) \/ Filter(r) \/ SetVscnrs(r)
  \/ SetRest(r) \/ Panic(r) \/ Persist(r)
  \/ Existing(r) \/ FetchLayers(r) \/ Realize(r) \/ Scan(r) \/ ScanReturn(r) \/ Coalesce(r)
  \/ IndexContents(r) \/ Finish(r) \/ FinishRefused(r) \/ StateError(r) \/ Save(r) \/ SaveError(r)
  \/ \E t \in Pairs : ScanLayer(r, t)

Next ==
  \/ \E r \in Reqs : \/ Index(r) \/ Step(r) \/ ContextEnds(r) \/ LockLost(r) \/ LostNoticed(r)
                     \/ \E t \in Pairs : MarkOffline(r, t)
  \/ \E p \in Procs : Crash(p)
  \/ \E m \in Manifests : Delete(m)
  \/ Cleanup \/ CleanupError

Spec == Init /\ [][Next]_vars

(* Goroutines run and store calls end.  Nothing else is owed: no request   *)
(* has to come, no process to crash, no context to end.                    *)
FairSpec == Spec /\ \A r \in Reqs : WF_vars(Step(r))

-----------------------------------------------------------------------------
TaskStates == {"none", "todo", "scan", "marked", "ok", "err"}

PCs == {"idle", "lock", "CheckManifest", "range", "filter", "setlen", "setarray", "persist", "existing",
        "FetchLayers", "realize", "ScanLayers", "scanning", "Coalesce", "IndexManifest", "IndexFinished",
        "save", "done", "gone"}

(* Every variable stays in its type; the bounds are kept.                  *)
TypeOK ==
  /\ StoreTypeOK
  /\ vscnrs \in [Procs -> Seq(Scanners)]
  /\ vlen \in [Procs -> Nat]
  /\ \A p \in Procs : version[p] \in 1..Len(Config[p])
  /\ lock \in [Manifests -> Reqs \union {None}]
  /\ ctx \in [Reqs -> {"live", "canceled", "deadline"}] /\ lost \subseteq Reqs
  /\ pc \in [Reqs -> PCs]
  /\ next \in [Reqs -> States \union {"Terminal"}]
  /\ err \in [Reqs -> {"nil", "error", "canceled", "deadline", "panic"}]
  /\ report \in [Reqs -> Reports]
  /\ \A r \in Reqs : filter[r].n \in Nat /\ filter[r].i \in Nat /\ filter[r].out \in Seq(Scanners)
  /\ fetched \in [Reqs -> SUBSET Layers]
  /\ task \in [Reqs -> [Pairs -> TaskStates]]
  /\ gerr \in [Reqs -> {"nil", "error", "canceled", "deadline"}]
  /\ deleter \in {"idle", "cleanup"}
  /\ faults \in 0..MaxFault /\ crashes \in 0..MaxCrash /\ deletes \in 0..MaxDelete

(* checkManifest may skip a scanner that has the manifest: every layer of  *)
(* a manifest recorded for a scanner is recorded for that scanner, through *)
(* crashes in the middle of a scan, errors and concurrent deletion.        *)
FinishedScanned ==
  \A x \in scanned_manifest : \A l \in LayerSet(x[1]) : <<l, x[2]>> \in scanned_layer

(* SetIndexFinished promises that IndexReport then returns the finished    *)
(* report (indexer/store.go:45-49).  The code breaks it: the report is     *)
(* saved after every state function (controller.go:112), after those of a  *)
(* failing request and of one with a new scanner too.                      *)
FinishedReport ==
  \A m \in Manifests : (\E s \in Scanners : <<m, s>> \in scanned_manifest) =>
    indexreport[m] # NoReport /\ indexreport[m].success

FinishedStored(m) == indexreport[m] # NoReport /\ indexreport[m].success

(* What the code keeps of that promise, through all faults, the lost       *)
(* answer of a commit among them: a finished report is replaced by an      *)
(* unfinished one only by a request whose state function has failed, or    *)
(* that has a scanner the manifest is not recorded for; or after the lock  *)
(* of the manifest was lost, whose holder may have gone on for a while.    *)
ReportKept ==
  [][\A m \in Manifests : FinishedStored(m) /\ indexreport'[m] # NoReport /\ ~FinishedStored(m)' =>
       \E r \in Reqs :
         /\ mf[r] = m /\ pc[r] = "save"
         /\ \/ next[r] = "Terminal"
            \/ ~ManifestScanned(m, AllScanners(r))
            \/ \E o \in lost : mf[o] = m]_vars

(* A scanner only ever opens layers this request has fetched: reduce left  *)
(* out none that scanLayer goes on to scan.                                *)
FetchedBeforeScan ==
  \A r \in Reqs : \A t \in Pairs : task[r][t] = "scan" => t[1] \in fetched[r]

(* indexFinished never meets rows that are already there: the lock keeps   *)
(* requests for one manifest apart and checkManifest leaves out the        *)
(* scanners that have it.                                                  *)
OnceFinished ==
  \A r \in Reqs : pc[r] = "IndexFinished" => ~FinishedBefore(mf[r], Vscnrs(r))

(* What the records of a scan promise each other, at every moment of every *)
(* request: see the three above.                                           *)
Consistent == TypeOK /\ FinishedScanned /\ FetchedBeforeScan /\ OnceFinished

(* A stored report that claims success lists nothing that AffectedManifests *)
(* could not find in manifest_index.                                       *)
ContentIndexed ==
  \A m \in Manifests : indexreport[m] # NoReport /\ indexreport[m].success =>
    {m} \X indexreport[m].content \subseteq manifest_index

(* layerscanner.go:120, "indexing the results on successful completion":   *)
(* a report that claims success has what every scanner finds in every      *)
(* layer.                                                                  *)
Complete ==
  \A m \in Manifests : indexreport[m] # NoReport /\ indexreport[m].success =>
    LayerSet(m) \X {s \in Scanners : <<m, s>> \in scanned_manifest} \subseteq indexreport[m].content

(* Every Index call returns, also when many wait for one manifest's lock   *)
(* and when calls fail or contexts end in the middle.                      *)
IndexReturns == \A r \in Reqs : pc[r] = "lock" ~> pc[r] \in {"done", "gone"}
=============================================================================
