--------------------------- MODULE IndexerProofs ----------------------------
(***************************************************************************)
(* Libindex.Index: the theorems.                                           *)
(***************************************************************************)
EXTENDS IndexerSteps

(* Whatever fails, crashes, is deleted or is lost: every variable keeps    *)
(* its type, only a report that is being persisted for the last time       *)
(* claims success, scanLayer runs within scanLayers only, and the rows of  *)
(* the store refer to rows that are there.                                 *)
THEOREM BaseInvariant == Spec => []Base
<1>1. Base /\ [Next]_vars => Base'  BY Zenon, BaseStep
<1> QED  BY BaseInit, <1>1, PTL DEF Spec

(* Every variable of the indexer stays in its type (Libindex.Index and the *)
(* controller, for any requests and configurations).                       *)
THEOREM IndexerTyped == Spec => []TypeOK
<1>1. ASSUME Base PROVE TypeOK
  <2>1. \A r \in Reqs : filter[r].n \in Nat /\ filter[r].i \in Nat /\ filter[r].out \in Seq(Scanners)
    BY Zenon, <1>1 DEF Base, Types, RunTypes, Filters
  <2> QED  BY Zenon, <1>1, <2>1 DEF Base, Types, RunTypes, OptTypes, EnvTypes, TypeOK, Ctxs, Errs, GErrs
<1> QED  BY <1>1, BaseInvariant, PTL

-----------------------------------------------------------------------------
(* The two ways in which a manifest's row cannot come back under a request *)
(* that has persisted it: the manifest's lock is held, or the row never    *)
(* goes.                                                                   *)
LocksKept == [][\A r \in Reqs : ~LockLost(r)]_vars

NeverDeleted == [][\A m \in Manifests : ~Delete(m)]_vars

Alone ==
  \A r, q \in Reqs : r # q /\ mf[r] = mf[q] /\ pc[r] = "persist" /\ Persisted(q) => mf[q] \in manifest

(* A request that holds the manifest's lock is alone with it.              *)
LEMMA HeldAlone == ASSUME HoldInv PROVE Alone
<1> SUFFICES ASSUME NEW r \in Reqs, NEW q \in Reqs, r # q, mf[r] = mf[q], pc[r] = "persist", Persisted(q)
             PROVE FALSE
  BY Zenon DEF Alone
<1>1. At(r) = "persist"  BY Zenon DEF At
<1>2. At(q) \notin {"idle", "lock", "done", "gone"}  BY Zenon DEF Persisted, Past
<1> QED  BY Zenon, <1>1, <1>2 DEF HoldInv

(* A row that never goes is still there when it is persisted again.        *)
LEMMA KeptAlone == ASSUME KeptInv PROVE Alone
  BY Zenon DEF KeptInv, Alone

(* The manifest's lock changes when it is taken and when Index returns.    *)
Frees(r) ==
  /\ pc' = [pc EXCEPT ![r] = "done"]
  /\ lock' = [lock EXCEPT ![mf[r]] = IF lock[mf[r]] = r THEN None ELSE lock[mf[r]]]

(* Index gives the lock up when it returns.                                *)
LEMMA LeaveFrees == ASSUME NEW r, NEW e, Leave(r, e) PROVE Frees(r)
  BY Zenon DEF Leave, Frees

(* After a state function the lock is kept or given up.                    *)
LEMMA ProceedLock == ASSUME NEW r, NEW a, Proceed(r, a) PROVE lock' = lock \/ Frees(r)
  BY Zenon, LeaveFrees DEF Proceed

(* The same when the report is handed back.                                *)
LEMMA GiveLock == ASSUME NEW r, NEW e, NEW rep, Give(r, e, rep) PROVE lock' = lock \/ Frees(r)
  BY Zenon, LeaveFrees DEF Give

(* A request takes the lock in Lock and gives it up at its return.         *)
LEMMA ReqLock ==
  ASSUME NEW r \in Reqs, ReqStep(r)
  PROVE  lock' = lock \/ Lock(r) \/ Frees(r)
<1>1. CASE Index(r)  BY Zenon, <1>1 DEF Index
<1>2. ASSUME NEW t \in Pairs, MarkOffline(r, t) \/ ScanLayer(r, t) PROVE lock' = lock
  BY Zenon, <1>2 DEF MarkOffline, ScanLayer, CheckLayer, Mark, Store, ScanLayerError, SetTask
<1>3. CASE Step(r) /\ ~\E t \in Pairs : ScanLayer(r, t)
  <2>1. CASE \/ CheckManifest(r) \/ Range(r) \/ Filter(r) \/ SetVscnrs(r) \/ SetRest(r)
             \/ FetchLayers(r) \/ Scan(r)
    BY Zenon, <2>1 DEF CheckManifest, Range, Filter, SetVscnrs, SetRest, FetchLayers, Scan
  <2>2. CASE LockGivesUp(r) \/ Panic(r)  BY Zenon, <2>2, LeaveFrees DEF LockGivesUp, Panic
  <2>3. CASE Save(r) \/ SaveError(r)
    <3>1. Continue(r)  BY Zenon, <2>3 DEF Save, SaveError
    <3> QED  BY Zenon, <3>1, LeaveFrees DEF Continue
  <2>4. CASE Persist(r) \/ Realize(r) \/ Coalesce(r) \/ IndexContents(r) \/ Finish(r)
    BY <2>4, ProceedLock, Zenon DEF Persist, Realize, Coalesce, IndexContents, Finish
  <2>5. CASE FinishRefused(r) \/ StateError(r)  BY <2>5, GiveLock, Zenon DEF FinishRefused, StateError
  <2>6. CASE Existing(r) \/ ScanReturn(r)  BY <2>6, ProceedLock, GiveLock, Zenon DEF Existing, ScanReturn
  <2> QED  BY <1>3, <2>1, <2>2, <2>3, <2>4, <2>5, <2>6, Zenon DEF Step
<1> QED  BY <1>1, <1>2, <1>3, Zenon DEF ReqStep

(* Where a request has no lock.                                            *)
Out == {"idle", "lock", "done", "gone"}

(* A request has the lock from Lock to its return, unless it loses it.     *)
LEMMA HeldOn ==
  ASSUME Types, TaskInv, [Next]_vars, NEW q \in Reqs, At(q)' \notin Out, ~LockLost(q),
         At(q) \notin Out => lock[mf[q]] = q
  PROVE  lock'[mf[q]] = q
<1> USE DEF Out
<1>0. /\ lock \in [Manifests -> Reqs \union {None}] /\ None \notin Reqs /\ mf[q] \in Manifests
      /\ pc \in [Reqs -> PCs]
  BY Zenon, IndexerAssumption DEF Types, RunTypes
<1>1. CASE Locks(q)  BY Zenon, <1>1 DEF Locks
<1>2. CASE ~Locks(q)
  <2>1. At(q) \notin Out
    <3>1. Move(q)  BY Zenon, NextMoves
    <3>2. CASE Stay(q) \/ Ended(q) \/ Goes(q, "idle", "lock")  BY Zenon, <3>2 DEF Stay, Ended, At, Goes
    <3>3. CASE Checks(q) \/ Reduces(q)  BY Zenon, <3>3 DEF Checks, Reduces, Goes
    <3>4. CASE Filtered(q)  BY Zenon, <3>4 DEF Filtered, Goes
    <3>5. CASE Fails(q)  BY Zenon, <3>5 DEF Fails, Filtering, Past
    <3>6. CASE Persists(q) \/ Finds(q) \/ Realizes(q) \/ Joins(q) \/ Merges(q) \/ Indexes(q) \/ Finishes(q)
      BY Zenon, <3>6 DEF Persists, Finds, Realizes, Joins, Merges, Indexes, Finishes, Turns
    <3>7. CASE Starts(q) \/ Works(q)  BY Zenon, <3>7 DEF Starts, Works
    <3> QED  BY Zenon, <1>2, <3>1, <3>2, <3>3, <3>4, <3>5, <3>6, <3>7 DEF Move
  <2>2. lock[mf[q]] = q  BY Zenon, <2>1
  <2>3. ASSUME NEW r \in Reqs, ReqStep(r) PROVE lock'[mf[q]] = q
    <3>1. mf[r] \in Manifests  BY Zenon, IndexerAssumption
    <3>2. CASE Lock(r)
      <4>1. lock[mf[r]] = None /\ lock' = [lock EXCEPT ![mf[r]] = r]  BY Zenon, <3>2 DEF Lock
      <4> QED  BY Zenon, <1>0, <2>2, <3>1, <4>1
    <3>3. CASE Frees(r)
      <4>1. pc' = [pc EXCEPT ![r] = "done"]
            /\ lock' = [lock EXCEPT ![mf[r]] = IF lock[mf[r]] = r THEN None ELSE lock[mf[r]]]
        BY Zenon, <3>3 DEF Frees
      <4>2. r # q
        <5>1. r = q => At(q)' = "done"  BY Zenon, <1>0, <4>1 DEF At
        <5> QED  BY Zenon, <5>1
      <4> QED  BY Zenon, <1>0, <2>2, <3>1, <4>1, <4>2
    <3> QED  BY Zenon, <2>2, <2>3, <3>2, <3>3, ReqLock
  <2>4. ASSUME NEW p \in Procs, Crash(p) PROVE lock'[mf[q]] = q
    <3>1. ~(proc[q] = p /\ Active(q))
      <4>1. ~Ended(q)  BY Zenon DEF Ended, At
      <4> QED  BY Zenon, <2>4, <4>1, CrashMoves
    <3>2. lock' = [m \in Manifests |->
            IF lock[m] \in {r \in Reqs : proc[r] = p /\ Active(r)} THEN None ELSE lock[m]]
      BY Zenon, <2>4 DEF Crash
    <3> QED  BY Zenon, <1>0, <2>2, <3>1, <3>2
  <2>5. ASSUME NEW r \in Reqs, ContextEnds(r) \/ LostNoticed(r) PROVE lock' = lock
    BY Zenon, <2>5 DEF ContextEnds, LostNoticed
  <2>9. ASSUME NEW r \in Reqs, LockLost(r) PROVE lock'[mf[q]] = q
    <3>1. lock[mf[r]] = r /\ lock' = [lock EXCEPT ![mf[r]] = None] /\ r # q  BY Zenon, <2>9 DEF LockLost
    <3> QED  BY Zenon, <1>0, <2>2, <3>1
  <2>6. ASSUME NEW m \in Manifests, Delete(m) PROVE lock' = lock  BY Zenon, <2>6 DEF Delete
  <2>7. CASE Cleanup \/ CleanupError  BY Zenon, <2>2, <2>7 DEF Cleanup, CleanupError
  <2>8. CASE UNCHANGED vars  BY Zenon, <2>2, <2>8 DEF vars
  <2> QED  BY Zenon, <2>2, <2>3, <2>4, <2>5, <2>6, <2>7, <2>8, <2>9, NextCases
<1> QED  BY Zenon, <1>1, <1>2

(* Past the lock a request holds it, as long as none is lost.              *)
LEMMA HoldStep ==
  ASSUME Types, TaskInv, HoldInv, [Next]_vars, \A r \in Reqs : ~LockLost(r)
  PROVE  HoldInv'
  BY Zenon, HeldOn DEF HoldInv, Out

(* Rows of manifest stay unless they are deleted.                          *)
LEMMA ManifestCases ==
  ASSUME [Next]_vars
  PROVE  \/ manifest' = manifest
         \/ \E r \in Reqs : pc[r] = "persist" /\ ReqStep(r) /\ manifest' = manifest \union {mf[r]}
         \/ \E m \in Manifests : Delete(m) /\ manifest' = manifest \ {m}
<1>1. ASSUME NEW r \in Reqs, ReqStep(r), ReqDb(r)
      PROVE manifest' = manifest \/ (pc[r] = "persist" /\ manifest' = manifest \union {mf[r]})
  BY Zenon, <1>1 DEF ReqDb, db, PersistManifest, SetLayerScanned, IndexArtifacts, IndexManifest,
     SetIndexReport, SetIndexFinished
<1>2. ASSUME NEW m \in Manifests, Delete(m), DeleteManifestRow(m) PROVE manifest' = manifest \ {m}
  BY Zenon, <1>2 DEF DeleteManifestRow
<1>3. CASE LayerCleanup  BY Zenon, <1>3 DEF LayerCleanup
<1>4. CASE UNCHANGED db  BY Zenon, <1>4 DEF db
<1> QED  BY Zenon, <1>1, <1>2, <1>3, <1>4, DbCases

(* A row that was persisted is there, as long as none is deleted.          *)
LEMMA KeptStep ==
  ASSUME Base, KeptInv, [Next]_vars, \A m \in Manifests : ~Delete(m)
  PROVE  KeptInv'
<1> SUFFICES ASSUME NEW q \in Reqs, Persisted(q)' PROVE mf[q] \in manifest'
  BY Zenon DEF KeptInv
<1>1. manifest \subseteq manifest'  BY Zenon, ManifestCases
<1>2. Persisted(q) => mf[q] \in manifest  BY Zenon DEF KeptInv
<1>3. SuccessInv /\ RowInv /\ Move(q)  BY Zenon, NextMoves DEF Base
<1>4. CASE Persists(q)  BY Zenon, <1>4 DEF Persists, PersistManifest
<1>5. CASE Finds(q)
  BY Zenon, <1>1, <1>3, <1>5, IndexerAssumption DEF Finds, RowInv
<1>6. CASE ~Persists(q) /\ ~Finds(q)
  <2>1. Persisted(q)
    <3>1. CASE Stay(q) \/ Ended(q) \/ Goes(q, "idle", "lock")
      BY Zenon, <3>1 DEF Stay, Ended, At, Goes, Persisted, Past
    <3>2. CASE Checks(q) \/ Reduces(q) \/ Locks(q)  BY Zenon, <3>2 DEF Checks, Reduces, Locks, Goes, Persisted, Past
    <3>3. CASE Filtered(q)
      <4>1. At(q)' \in {"filter", "setlen", "setarray", "persist"}  BY Zenon, <3>3 DEF Filtered, Goes
      <4> QED  BY Zenon, <4>1 DEF Persisted, Past
    <3>4. CASE Fails(q)
      <4>1. At(q)' = "Terminal"  BY Zenon, <3>4 DEF Fails, Turns
      <4>2. report'[q].success  BY Zenon, <4>1 DEF Persisted, Past
      <4>3. At(q) = "IndexFinished" \/ report[q].success  BY Zenon, <3>4, <4>2 DEF Fails
      <4>4. At(q) \notin {"Terminal", "done", "gone"}  BY Zenon, <3>4 DEF Fails, Filtering, Past
      <4>5. At(q) = "IndexFinished"  BY Zenon, <1>3, <4>3, <4>4 DEF SuccessInv
      <4> QED  BY Zenon, <4>5 DEF Persisted, Past
    <3>5. CASE Realizes(q) \/ Joins(q) \/ Merges(q) \/ Indexes(q) \/ Finishes(q)
      BY Zenon, <3>5 DEF Realizes, Joins, Merges, Indexes, Finishes, Turns, Persisted, Past
    <3>6. CASE Starts(q) \/ Works(q)  BY Zenon, <3>6 DEF Starts, Works, Persisted, Past
    <3> QED  BY Zenon, <1>3, <1>6, <3>1, <3>2, <3>3, <3>4, <3>5, <3>6 DEF Move
  <2> QED  BY Zenon, <1>1, <1>2, <2>1
<1> QED  BY Zenon, <1>4, <1>5, <1>6

(* The row of a manifest that a request has persisted does not come back.  *)
LEMMA NotRevived ==
  ASSUME Alone, [Next]_vars, NEW q \in Reqs, Persisted(q), mf[q] \in manifest'
  PROVE  mf[q] \in manifest
<1>1. ASSUME NEW r \in Reqs, pc[r] = "persist", manifest' = manifest \union {mf[r]} PROVE mf[q] \in manifest
  <2>1. CASE mf[r] = mf[q]
    <3>1. pc[q] # "persist"  BY Zenon DEF Persisted, Past, At
    <3> QED  BY Zenon, <1>1, <2>1, <3>1 DEF Alone
  <2>2. CASE mf[r] # mf[q]  BY Zenon, <1>1, <2>2
  <2> QED  BY Zenon, <2>1, <2>2
<1> QED  BY Zenon, <1>1, ManifestCases

(* What a manifest's row keeps alive.                                      *)
LEMMA IndexKept ==
  ASSUME [Next]_vars, NEW m \in manifest', NEW x \in manifest_index, x[1] = m
  PROVE  x \in manifest_index'
<1>1. ASSUME NEW r \in Reqs, ReqDb(r) PROVE manifest_index \subseteq manifest_index'
  <2>1. CASE IndexManifest(mf[r], report[r].content)  BY Zenon, <2>1 DEF IndexManifest
  <2>2. CASE ~IndexManifest(mf[r], report[r].content)
    <3>1. manifest_index' = manifest_index
      BY <1>1, <2>2, Zenon DEF ReqDb, db, PersistManifest, SetLayerScanned, IndexArtifacts,
         SetIndexReport, SetIndexFinished
    <3> QED  BY Zenon, <3>1
  <2> QED  BY Zenon, <2>1, <2>2
<1>2. ASSUME NEW d \in Manifests, DeleteManifestRow(d) PROVE x \in manifest_index'
  BY Zenon, <1>2 DEF DeleteManifestRow
<1>3. CASE LayerCleanup  BY Zenon, <1>3 DEF LayerCleanup
<1>4. CASE UNCHANGED db  BY Zenon, <1>4 DEF db
<1> QED  BY Zenon, <1>1, <1>2, <1>3, <1>4, DbCases

Indexed(q) == At(q) = "IndexFinished" \/ (At(q) = "Terminal" /\ report[q].success)

(* A request at its end has the rows its report lists, unless the manifest *)
(* was deleted under it.                                                   *)
LEMMA IndexedStep ==
  ASSUME Base, Alone, IndexedInv, ContentIndexed, [Next]_vars
  PROVE  IndexedInv'
<1> SUFFICES ASSUME NEW q \in Reqs, mf[q] \in manifest', Indexed(q)'
             PROVE {mf[q]} \X report'[q].content \subseteq manifest_index'
  BY Zenon DEF IndexedInv, Indexed
<1>0. SuccessInv /\ Types /\ Move(q) /\ mf[q] \in Manifests  BY Zenon, NextMoves, IndexerAssumption DEF Base
<1>1. ASSUME Indexed(q), report'[q].content = report[q].content
      PROVE {mf[q]} \X report'[q].content \subseteq manifest_index'
  <2>1. Persisted(q)  BY Zenon, <1>1 DEF Indexed, Persisted, Past
  <2>2. mf[q] \in manifest  BY Zenon, <2>1, NotRevived
  <2>3. {mf[q]} \X report[q].content \subseteq manifest_index  BY Zenon, <1>1, <2>2 DEF IndexedInv, Indexed
  <2>4. \A x \in {mf[q]} \X report[q].content : x \in manifest_index /\ x[1] = mf[q]  BY Zenon, <2>3
  <2> QED  BY Zenon, <1>1, <2>4, IndexKept
<1>2. CASE Indexes(q)
  <2>1. IndexManifest(mf[q], report[q].content) /\ report'[q] = report[q]  BY Zenon, <1>2 DEF Indexes
  <2> QED  BY Zenon, <2>1 DEF IndexManifest
<1>3. CASE Finds(q)
  <2>1. /\ indexreport[mf[q]] # NoReport /\ report'[q] = indexreport[mf[q]] /\ UNCHANGED db
        /\ At(q)' = "Terminal"
    BY Zenon, <1>3 DEF Finds, Turns
  <2>2. report'[q].success  BY Zenon, <2>1 DEF Indexed
  <2>3. manifest_index' = manifest_index  BY Zenon, <2>1 DEF db
  <2> QED  BY Zenon, <1>0, <2>1, <2>2, <2>3 DEF ContentIndexed
<1>4. CASE Finishes(q)
  <2>1. At(q) = "IndexFinished" /\ report'[q] = Finished(q)  BY Zenon, <1>4 DEF Finishes, Turns
  <2>2. report'[q].content = report[q].content  BY Zenon, <1>0, <2>1, FinishedReports
  <2> QED  BY Zenon, <1>1, <2>1, <2>2 DEF Indexed
<1>5. CASE Fails(q)
  <2>1. At(q)' = "Terminal"  BY Zenon, <1>5 DEF Fails, Turns
  <2>2. report'[q].success  BY Zenon, <2>1 DEF Indexed
  <2>3. At(q) \notin {"Terminal", "done", "gone"}  BY Zenon, <1>5 DEF Fails, Filtering, Past
  <2>4. ~report[q].success  BY Zenon, <1>0, <2>3 DEF SuccessInv
  <2>5. At(q) = "IndexFinished" /\ report'[q] = Finished(q)  BY Zenon, <1>5, <2>2, <2>4 DEF Fails
  <2>6. report'[q].content = report[q].content  BY Zenon, <1>0, <2>5, FinishedReports
  <2> QED  BY Zenon, <1>1, <2>5, <2>6 DEF Indexed
<1>6. CASE Stay(q)
  <2>1. Indexed(q) /\ report'[q].content = report[q].content  BY Zenon, <1>6 DEF Stay, Indexed
  <2> QED  BY Zenon, <1>1, <2>1
<1>7. CASE ~Indexes(q) /\ ~Finds(q) /\ ~Finishes(q) /\ ~Fails(q) /\ ~Stay(q)
  <2>1. At(q)' \notin {"IndexFinished", "Terminal"}
    <3>1. CASE Ended(q) \/ Goes(q, "idle", "lock") \/ Locks(q) \/ Reduces(q)
      BY Zenon, <3>1 DEF Ended, At, Goes, Locks, Reduces
    <3>2. CASE Checks(q)  BY Zenon, <3>2 DEF Checks, Goes
    <3>3. CASE Filtered(q)  BY Zenon, <3>3 DEF Filtered, Goes
    <3>4. CASE Persists(q) \/ Realizes(q) \/ Joins(q) \/ Merges(q)
      BY Zenon, <3>4 DEF Persists, Realizes, Joins, Merges, Turns
    <3>5. CASE Starts(q) \/ Works(q)  BY Zenon, <3>5 DEF Starts, Works
    <3> QED  BY Zenon, <1>0, <1>7, <3>1, <3>2, <3>3, <3>4, <3>5 DEF Move
  <2> QED  BY Zenon, <2>1 DEF Indexed
<1> QED  BY Zenon, <1>2, <1>3, <1>4, <1>5, <1>6, <1>7

(* Who writes a report.                                                    *)
LEMMA ReportCases ==
  ASSUME Types, [Next]_vars, NEW m \in Manifests
  PROVE  \/ indexreport'[m] = indexreport[m]
         \/ indexreport'[m] = NoReport /\ m \notin manifest'
         \/ \E r \in Reqs : /\ pc[r] = "save" /\ mf[r] = m /\ m \in manifest
                            /\ indexreport'[m] = report[r]
                            /\ UNCHANGED <<manifest_index, scanned_manifest>>
         \/ \E r \in Reqs : /\ pc[r] = "IndexFinished" /\ ~HasNil(r) /\ mf[r] = m /\ m \in manifest
                            /\ indexreport'[m] = Finished(r) /\ UNCHANGED manifest_index
                            /\ scanned_manifest' = scanned_manifest \union ({m} \X Vscnrs(r))
<1>0. indexreport \in [Manifests -> Reports \union {NoReport}]  BY Zenon DEF Types, StoreTypeOK
<1>1. ASSUME NEW r \in Reqs, pc[r] = "save", SetIndexReport(mf[r], report[r])
      PROVE \/ indexreport'[m] = indexreport[m]
            \/ /\ mf[r] = m /\ m \in manifest /\ indexreport'[m] = report[r]
               /\ UNCHANGED <<manifest_index, scanned_manifest>>
  BY Zenon, <1>0, <1>1 DEF SetIndexReport
<1>2. ASSUME NEW r \in Reqs, pc[r] = "IndexFinished", SetIndexFinished(mf[r], Vscnrs(r), Finished(r))
      PROVE \/ indexreport'[m] = indexreport[m]
            \/ /\ mf[r] = m /\ m \in manifest /\ indexreport'[m] = Finished(r) /\ UNCHANGED manifest_index
               /\ scanned_manifest' = scanned_manifest \union ({m} \X Vscnrs(r))
  BY Zenon, <1>0, <1>2 DEF SetIndexFinished
<1>3. ASSUME NEW d \in Manifests, DeleteManifestRow(d)
      PROVE indexreport'[m] = indexreport[m] \/ (indexreport'[m] = NoReport /\ m \notin manifest')
  BY Zenon, <1>0, <1>3 DEF DeleteManifestRow
<1>4. ASSUME NEW r \in Reqs, ReqDb(r)
      PROVE \/ indexreport' = indexreport
            \/ pc[r] = "save" /\ SetIndexReport(mf[r], report[r])
            \/ pc[r] = "IndexFinished" /\ ~HasNil(r) /\ SetIndexFinished(mf[r], Vscnrs(r), Finished(r))
  BY Zenon, <1>4 DEF ReqDb, db, PersistManifest, SetLayerScanned, IndexArtifacts, IndexManifest
<1>5. CASE LayerCleanup  BY Zenon, <1>5 DEF LayerCleanup
<1>6. CASE UNCHANGED db  BY Zenon, <1>6 DEF db
<1>7. ASSUME NEW r \in Reqs, ReqDb(r)
      PROVE \/ indexreport'[m] = indexreport[m]
            \/ /\ pc[r] = "save" /\ mf[r] = m /\ m \in manifest
               /\ indexreport'[m] = report[r]
               /\ UNCHANGED <<manifest_index, scanned_manifest>>
            \/ /\ pc[r] = "IndexFinished" /\ ~HasNil(r) /\ mf[r] = m /\ m \in manifest
               /\ indexreport'[m] = Finished(r) /\ UNCHANGED manifest_index
               /\ scanned_manifest' = scanned_manifest \union ({m} \X Vscnrs(r))
  BY Zenon, <1>1, <1>2, <1>4, <1>7
<1> QED  BY Zenon, <1>3, <1>5, <1>6, <1>7, DbCases

(* So a stored report that claims success lists what is indexed.           *)
LEMMA ContentStep ==
  ASSUME Base, IndexedInv, ContentIndexed, [Next]_vars
  PROVE  ContentIndexed'
<1> SUFFICES ASSUME NEW m \in Manifests, indexreport'[m] # NoReport, indexreport'[m].success
             PROVE {m} \X indexreport'[m].content \subseteq manifest_index'
  BY Zenon DEF ContentIndexed
<1>0. Types /\ SuccessInv /\ RowInv'  BY Zenon, BaseStep DEF Base
<1>1. CASE indexreport'[m] = indexreport[m]
  <2>1. \A x \in {m} \X indexreport[m].content : x \in manifest_index /\ x[1] = m
    BY Zenon, <1>1 DEF ContentIndexed
  <2>2. m \in manifest'  BY Zenon, <1>0 DEF RowInv
  <2> QED  BY Zenon, <1>1, <2>1, <2>2, IndexKept
<1>2. ASSUME NEW r \in Reqs, pc[r] = "save", mf[r] = m, m \in manifest, indexreport'[m] = report[r],
             UNCHANGED <<manifest_index, scanned_manifest>>
      PROVE {m} \X indexreport'[m].content \subseteq manifest_index'
  <2>1. next[r] \in Nexts /\ At(r) = next[r]  BY Zenon, <1>0, <1>2 DEF Types, RunTypes, Placed, At
  <2>2. At(r) = "Terminal"  BY Zenon, <1>0, <1>2, <2>1 DEF SuccessInv, Nexts
  <2> QED  BY Zenon, <1>2, <2>2 DEF IndexedInv
<1>3. ASSUME NEW r \in Reqs, pc[r] = "IndexFinished", mf[r] = m, m \in manifest,
             indexreport'[m] = Finished(r), UNCHANGED manifest_index
      PROVE {m} \X indexreport'[m].content \subseteq manifest_index'
  <2>1. At(r) = "IndexFinished"  BY Zenon, <1>3 DEF At
  <2>2. Finished(r).content = report[r].content  BY Zenon, <1>0, FinishedReports
  <2> QED  BY Zenon, <1>3, <2>1, <2>2 DEF IndexedInv
<1> QED  BY Zenon, <1>0, <1>1, <1>2, <1>3, ReportCases

-----------------------------------------------------------------------------
(* A request's process does not start again under it.                      *)
LEMMA VersionKept ==
  ASSUME Types, [Next]_vars, NEW q \in Reqs, At(q)' \notin {"idle", "done", "gone"}
  PROVE  version'[proc[q]] = version[proc[q]]
<1>1. ASSUME NEW p \in Procs, Crash(p) PROVE version'[proc[q]] = version[proc[q]]
  <2>1. CASE proc[q] = p
    <3>1. CASE Active(q)
      <4>1. Ended(q)  BY Zenon, <1>1, <2>1, <3>1, CrashMoves
      <4> QED  BY Zenon, <4>1 DEF Ended, At
    <3>2. CASE ~Active(q)
      <4>1. Same(q)  BY Zenon, <1>1, <3>2, CrashMoves
      <4> QED  BY Zenon, <3>2, <4>1 DEF Same, SameRun, Active, At
    <3> QED  BY Zenon, <3>1, <3>2
  <2>2. CASE proc[q] # p
    <3>1. \E v : version' = [version EXCEPT ![p] = v]  BY Zenon, <1>1 DEF Crash
    <3>2. version \in [Procs -> Nat] /\ proc[q] \in Procs  BY Zenon, IndexerAssumption DEF Types, OptTypes
    <3> QED  BY Zenon, <2>2, <3>1, <3>2
  <2> QED  BY Zenon, <2>1, <2>2
<1>2. CASE UNCHANGED <<opts, version>>  BY Zenon, <1>2
<1> QED  BY Zenon, <1>1, <1>2, OptCases

(* A running request keeps the scanners of its process.                    *)
LEMMA ScannersKept ==
  ASSUME Types, [Next]_vars, NEW q \in Reqs, At(q)' \notin {"idle", "done", "gone"}
  PROVE  LayerScanners(q)' = LayerScanners(q) /\ AllScanners(q)' = AllScanners(q)
  BY Zenon, VersionKept DEF LayerScanners, AllScanners

(* A layer stays scanned while a manifest has it.                          *)
LEMMA ScannedKept ==
  ASSUME RowInv, [Next]_vars, NEW m \in manifest, m \in manifest', NEW x \in scanned_layer, x[1] \in LayerSet(m)
  PROVE  x \in scanned_layer'
<1>1. ASSUME NEW r \in Reqs, ReqDb(r) PROVE scanned_layer \subseteq scanned_layer'
  <2>1. ASSUME NEW t \in Pairs, SetLayerScanned(t[1], t[2]) PROVE scanned_layer \subseteq scanned_layer'
    BY Zenon, <2>1 DEF SetLayerScanned
  <2>2. CASE ~\E t \in Pairs : SetLayerScanned(t[1], t[2])
    <3>1. scanned_layer' = scanned_layer
      BY <1>1, <2>2, Zenon DEF ReqDb, db, PersistManifest, IndexArtifacts, IndexManifest,
         SetIndexReport, SetIndexFinished
    <3> QED  BY Zenon, <3>1
  <2> QED  BY Zenon, <2>1, <2>2
<1>2. ASSUME NEW d \in Manifests, DeleteManifestRow(d) PROVE x \in scanned_layer'
  BY Zenon, <1>2 DEF DeleteManifestRow
<1>3. CASE LayerCleanup
  <2>1. x[1] \in layer /\ x[1] \in UNION {LayerSet(n) : n \in manifest}  BY Zenon DEF RowInv
  <2> QED  BY Zenon, <1>3, <2>1 DEF LayerCleanup
<1>4. CASE UNCHANGED db  BY Zenon, <1>4 DEF db
<1> QED  BY Zenon, <1>1, <1>2, <1>3, <1>4, DbCases

(* The steps of scanLayer.                                                 *)
LEMMA ScanLayerFacts ==
  ASSUME Types, NEW q \in Reqs, NEW t \in Pairs, ScanLayer(q, t) \/ MarkOffline(q, t)
  PROVE  /\ manifest' = manifest /\ scanned_layer \subseteq scanned_layer'
         /\ task[q][t] # "none" /\ task'[q][t] # "none"
         /\ gerr[q] # "nil" \/ task'[q][t] = "err" => gerr'[q] # "nil"
         /\ task'[q][t] \in {"marked", "ok"} => task[q][t] = "marked" \/ t \in scanned_layer'
         /\ task'[q][t] = "scan" => t \notin scanned_layer
<1>0. t = <<t[1], t[2]>> /\ task \in [Reqs -> [Pairs -> TaskStates]] /\ gerr \in [Reqs -> GErrs]
  <2>1. t = <<t[1], t[2]>>  BY DEF Pairs
  <2> QED  BY Zenon, <2>1 DEF Types, RunTypes
<1>1. ASSUME NEW st, SetTask(q, t, st) PROVE task'[q][t] = st  BY Zenon, <1>0, <1>1 DEF SetTask
<1>2. CASE CheckLayer(q, t)
  <2> DEFINE st == IF LayerScanned(t[1], t[2]) THEN "ok" ELSE "scan"
  <2>1. SetTask(q, t, st) /\ task[q][t] = "todo" /\ gerr' = gerr /\ UNCHANGED db  BY Zenon, <1>2 DEF CheckLayer
  <2>2. task'[q][t] = st
    <3> HIDE DEF st
    <3> QED  BY Zenon, <1>1, <2>1
  <2>3. LayerScanned(t[1], t[2]) <=> t \in scanned_layer  BY Zenon, <1>0 DEF LayerScanned
  <2> QED  BY Zenon, <2>1, <2>2, <2>3 DEF db
<1>3. CASE Mark(q, t)
  <2>1. task'[q][t] = "marked" /\ task[q][t] = "scan" /\ gerr' = gerr /\ SetLayerScanned(t[1], t[2])
    BY Zenon, <1>1, <1>3 DEF Mark
  <2> QED  BY Zenon, <1>0, <2>1 DEF SetLayerScanned
<1>4. CASE MarkOffline(q, t)
  <2>1. task'[q][t] = "ok" /\ task[q][t] = "scan" /\ gerr' = gerr /\ SetLayerScanned(t[1], t[2])
    BY Zenon, <1>1, <1>4 DEF MarkOffline
  <2> QED  BY Zenon, <1>0, <2>1 DEF SetLayerScanned
<1>5. CASE Store(q, t)
  <2>1. task'[q][t] = "ok" /\ task[q][t] = "marked" /\ gerr' = gerr /\ IndexArtifacts(t[1], t[2])
    BY Zenon, <1>1, <1>5 DEF Store
  <2> QED  BY Zenon, <2>1 DEF IndexArtifacts
<1>6. CASE ScanLayerError(q, t)
  <2>1. PICK e \in {"error", "canceled", "deadline"} :
          gerr' = [gerr EXCEPT ![q] = IF gerr[q] = "nil" THEN e ELSE gerr[q]]
    BY Zenon, <1>6 DEF ScanLayerError
  <2>2. gerr'[q] # "nil"  BY Zenon, <1>0, <2>1
  <2>3. task'[q][t] = "err" /\ task[q][t] \in {"todo", "scan", "marked"}
    BY Zenon, <1>1, <1>6 DEF ScanLayerError
  <2>4. UNCHANGED db \/ TaskWrites(q, t)  BY Zenon, <1>6 DEF ScanLayerError
  <2>5. manifest' = manifest /\ scanned_layer \subseteq scanned_layer'
    BY <2>4, Zenon DEF TaskWrites, db, SetLayerScanned, IndexArtifacts
  <2> QED  BY Zenon, <2>2, <2>3, <2>5
<1> QED  BY Zenon, <1>2, <1>3, <1>4, <1>5, <1>6 DEF ScanLayer

(* A request that is past the layers' scan has its layers scanned.         *)
ScanOK(q, t) ==
  /\ task[q][t] = "none" <=> t \notin LayerSet(mf[q]) \X LayerScanners(q)
  /\ task[q][t] = "err" => gerr[q] # "nil"
  /\ mf[q] \in manifest /\ task[q][t] \in {"marked", "ok"} => t \in scanned_layer

(* A request in scanLayers was there, has just started, or moved one scan  *)
(* on.                                                                     *)
LEMMA ScanningMoves ==
  ASSUME Types, TaskInv, [Next]_vars, NEW q \in Reqs, At(q)' = "scanning"
  PROVE  Stay(q) \/ Starts(q) \/ Works(q)
<1>1. Move(q)  BY Zenon, NextMoves
<1>2. ~(Ended(q) \/ Goes(q, "idle", "lock") \/ Locks(q) \/ Reduces(q))
  BY Zenon DEF Ended, At, Goes, Locks, Reduces
<1>3. ~Checks(q)  BY Zenon DEF Checks, Goes
<1>4. ~Filtered(q)
  <2>1. Filtered(q) => At(q)' # "scanning"  BY Zenon DEF Filtered, Goes
  <2> QED  BY Zenon, <2>1
<1>5. ~(Persists(q) \/ Finds(q) \/ Fails(q) \/ Realizes(q) \/ Joins(q) \/ Merges(q) \/ Indexes(q) \/ Finishes(q))
  BY Zenon DEF Persists, Finds, Fails, Realizes, Joins, Merges, Indexes, Finishes, Turns
<1> QED  BY Zenon, <1>1, <1>2, <1>3, <1>4, <1>5 DEF Move

(* A layer that scanLayer marked is recorded for its scanner.              *)
LEMMA ScanStep ==
  ASSUME Base, Alone, ScanInv, [Next]_vars
  PROVE  ScanInv'
<1> SUFFICES ASSUME NEW q \in Reqs, At(q)' = "scanning", NEW t \in Pairs PROVE ScanOK(q, t)'
  BY Zenon DEF ScanInv, ScanOK
<1>0. Types /\ TaskInv /\ RowInv  BY Zenon DEF Base
<1>1. LayerScanners(q)' = LayerScanners(q)  BY Zenon, <1>0, ScannersKept
<1>2. At(q) = "scanning" => ScanOK(q, t)  BY Zenon DEF ScanInv, ScanOK
<1>3. mf[q] \in manifest' /\ At(q) = "scanning" => mf[q] \in manifest
  BY Zenon, NotRevived DEF Persisted, Past
<1>4. CASE Stay(q)
  <2>1. At(q) = "scanning" /\ task'[q] = task[q] /\ gerr'[q] = gerr[q]  BY Zenon, <1>4 DEF Stay
  <2>2. ASSUME mf[q] \in manifest', task[q][t] \in {"marked", "ok"} PROVE t \in scanned_layer'
    <3>1. t \in scanned_layer /\ mf[q] \in manifest  BY Zenon, <1>2, <1>3, <2>1, <2>2 DEF ScanOK
    <3>2. t \in LayerSet(mf[q]) \X LayerScanners(q)  BY Zenon, <1>2, <2>1, <2>2 DEF ScanOK
    <3>3. t[1] \in LayerSet(mf[q])  BY Zenon, <3>2
    <3> QED  BY Zenon, <1>0, <2>2, <3>1, <3>3, ScannedKept
  <2> QED  BY Zenon, <1>1, <1>2, <2>1, <2>2 DEF ScanOK
<1>5. CASE Starts(q)
  <2>1. task'[q][t] = IF t \in LayerSet(mf[q]) \X LayerScanners(q) THEN "todo" ELSE "none"
    BY Zenon, <1>5 DEF Starts
  <2> QED  BY Zenon, <1>1, <2>1 DEF ScanOK
<1>6. CASE Works(q)
  <2>1. PICK u \in Pairs : /\ \A v \in Pairs \ {u} : task'[q][v] = task[q][v]
                           /\ ScanLayer(q, u) \/ MarkOffline(q, u)
    BY Zenon, <1>6 DEF Works
  <2>2. ScanOK(q, t)  BY Zenon, <1>2, <1>6 DEF Works
  <2>3. /\ manifest' = manifest /\ scanned_layer \subseteq scanned_layer'
        /\ task[q][u] # "none" /\ task'[q][u] # "none"
        /\ gerr[q] # "nil" \/ task'[q][u] = "err" => gerr'[q] # "nil"
        /\ task'[q][u] \in {"marked", "ok"} => task[q][u] = "marked" \/ u \in scanned_layer'
    BY Zenon, <1>0, <2>1, ScanLayerFacts
  <2>4. CASE t = u  BY Zenon, <1>1, <2>2, <2>3, <2>4 DEF ScanOK
  <2>5. CASE t # u
    <3>1. t \in Pairs \ {u}  BY Zenon, <2>5
    <3>2. task'[q][t] = task[q][t]  BY <2>1, <3>1, Zenon
    <3> QED  BY Zenon, <1>1, <2>2, <2>3, <3>2 DEF ScanOK
  <2> QED  BY Zenon, <2>4, <2>5
<1> QED  BY Zenon, <1>0, <1>4, <1>5, <1>6, ScanningMoves

(* So past scanLayers every layer is, for every scanner that configured.   *)
LEMMA ScannedStep ==
  ASSUME Base, Alone, ScanInv, ScannedInv, [Next]_vars
  PROVE  ScannedInv'
<1> DEFINE After == {"Coalesce", "IndexManifest", "IndexFinished"}
<1> SUFFICES ASSUME NEW q \in Reqs, mf[q] \in manifest', At(q)' \in After
             PROVE (LayerSet(mf[q]) \X LayerScanners(q))' \subseteq scanned_layer'
  BY Zenon DEF ScannedInv
<1>0. Types /\ TaskInv /\ RowInv  BY Zenon DEF Base
<1>1. LayerScanners(q)' = LayerScanners(q)  BY Zenon, <1>0, ScannersKept
<1>2. ASSUME At(q) \in After PROVE LayerSet(mf[q]) \X LayerScanners(q) \subseteq scanned_layer'
  <2>1. mf[q] \in manifest  BY Zenon, <1>2, NotRevived DEF Persisted, Past
  <2>2. LayerSet(mf[q]) \X LayerScanners(q) \subseteq scanned_layer  BY Zenon, <1>2, <2>1 DEF ScannedInv
  <2>3. \A x \in LayerSet(mf[q]) \X LayerScanners(q) : x \in scanned_layer /\ x[1] \in LayerSet(mf[q])
    BY Zenon, <2>2
  <2> QED  BY Zenon, <1>0, <2>1, <2>3, ScannedKept
<1>3. CASE Joins(q)
  <2>1. /\ At(q) = "scanning" /\ gerr[q] = "nil" /\ UNCHANGED db
        /\ \A t \in Pairs : task[q][t] \in {"none", "ok", "err"}
    BY Zenon, <1>3 DEF Joins, Turns
  <2>2. mf[q] \in manifest /\ scanned_layer' = scanned_layer  BY Zenon, <2>1 DEF db
  <2>3. ASSUME NEW t \in LayerSet(mf[q]) \X LayerScanners(q) PROVE t \in scanned_layer
    <3>1. t \in Pairs
      <4>1. LayerSet(mf[q]) \subseteq Layers  BY Zenon, LayersTyped, IndexerAssumption
      <4>2. LayerScanners(q) \subseteq Scanners
        <5>1. proc[q] \in Procs  BY Zenon, IndexerAssumption
        <5>2. Config[proc[q]] \in Seq(Seq(Scanners)) /\ version[proc[q]] \in 1..Len(Config[proc[q]])
          BY Zenon, <1>0, <5>1, IndexerAssumption DEF Types, OptTypes
        <5>3. Config[proc[q]][version[proc[q]]] \in Seq(Scanners)  BY <5>2
        <5> QED  BY <5>3 DEF LayerScanners, SeqSet
      <4> QED  BY Zenon, <4>1, <4>2 DEF Pairs
    <3>2. task[q][t] # "none" /\ task[q][t] # "err"  BY Zenon, <2>1, <2>3, <3>1 DEF ScanInv
    <3> QED  BY Zenon, <2>1, <2>2, <3>1, <3>2 DEF ScanInv
  <2> QED  BY Zenon, <1>1, <2>2, <2>3
<1>4. CASE ~Joins(q)
  <2>1. At(q) \in After
    <3>1. Move(q)  BY Zenon, <1>0, NextMoves
    <3>2. CASE Stay(q) \/ Ended(q) \/ Goes(q, "idle", "lock")  BY Zenon, <3>2 DEF Stay, Ended, At, Goes
    <3>3. CASE Checks(q) \/ Reduces(q) \/ Locks(q)  BY Zenon, <3>3 DEF Checks, Reduces, Locks, Goes
    <3>4. CASE Filtered(q)  BY Zenon, <3>4 DEF Filtered, Goes
    <3>5. CASE Fails(q) \/ Persists(q) \/ Finds(q) \/ Realizes(q) \/ Merges(q) \/ Indexes(q) \/ Finishes(q)
      BY Zenon, <3>5 DEF Fails, Persists, Finds, Realizes, Merges, Indexes, Finishes, Turns
    <3>6. CASE Starts(q) \/ Works(q)  BY Zenon, <3>6 DEF Starts, Works
    <3> QED  BY Zenon, <1>4, <3>1, <3>2, <3>3, <3>4, <3>5, <3>6 DEF Move
  <2> QED  BY Zenon, <1>1, <1>2, <2>1
<1> QED  BY Zenon, <1>3, <1>4

(* The lists of a process.                                                 *)
LEMMA FilterFacts ==
  ASSUME Types, NEW r \in Reqs, Filter(r)
  PROVE  LET f == filter[r]
             v == vscnrs[proc[r]]
         IN /\ f \in Filters /\ v \in Seq(Scanners) /\ f.i \in 1..Len(v) /\ f.i <= f.n
            /\ filter'[r].i = f.i + 1 /\ filter'[r].n = f.n
            /\ filter'[r].out = IF ManifestScanned(mf[r], {v[f.i]}) THEN f.out ELSE Append(f.out, v[f.i])
<1> DEFINE f == filter[r]
           v == vscnrs[proc[r]]
           o == IF ManifestScanned(mf[r], {v[f.i]}) THEN f.out ELSE Append(f.out, v[f.i])
           k == f.i + 1
<1>1. /\ pc[r] = "filter" /\ f.i <= f.n /\ f.i <= Len(v)
      /\ filter' = [filter EXCEPT ![r] = [f EXCEPT !.i = k, !.out = o]]
  BY Zenon DEF Filter
<1>2. filter \in [Reqs -> Filters] /\ f \in Filters /\ v \in Seq(Scanners) /\ f.i > 0
  <2>1. filter \in [Reqs -> Filters] /\ vscnrs \in [Procs -> Seq(Scanners)]
    BY Zenon DEF Types, RunTypes, OptTypes
  <2>2. f.i > 0  BY Zenon, <1>1 DEF Types, RunTypes, Placed
  <2> QED  BY Zenon, <2>1, <2>2, IndexerAssumption
<1>3. f.i \in Nat /\ f.n \in Nat /\ f.out \in Seq(Scanners) /\ Len(v) \in Nat  BY <1>2 DEF Filters
<1>4. f.i \in 1..Len(v)  BY <1>1, <1>2, <1>3
<1> HIDE DEF k, o
<1>5. filter'[r] = [f EXCEPT !.i = k, !.out = o]  BY <1>1, <1>2, Zenon
<1>6. filter'[r].i = k /\ filter'[r].n = f.n /\ filter'[r].out = o
  <2> HIDE DEF f
  <2> QED  BY <1>2, <1>5, Zenon DEF Filters
<1> QED  BY Zenon, <1>1, <1>2, <1>4, <1>6 DEF k, o

(* vscnrs is a part of what the process was configured with.               *)
LEMMA OptsStep == ASSUME Types, TaskInv, OptsInv, [Next]_vars PROVE OptsInv'
<1> DEFINE Within(p) == SeqSet(vscnrs[p]) \subseteq SeqSet(Config[p][version[p]])
           In == {"filter", "setlen", "setarray"}
<1>0. /\ vscnrs \in [Procs -> Seq(Scanners)] /\ version \in [Procs -> Nat]
      /\ \A p \in Procs : Within(p)
      /\ \A r \in Reqs : At(r) \in In => SeqSet(filter[r].out) \subseteq AllScanners(r)
  BY Zenon DEF Types, OptTypes, OptsInv
<1>1. ASSUME NEW p \in Procs PROVE Within(p)'
  <2>1. CASE UNCHANGED <<opts, version>>  BY Zenon, <1>0, <2>1 DEF opts
  <2>2. ASSUME NEW r \in Reqs, SetVscnrs(r) \/ SetRest(r), version' = version PROVE Within(p)'
    <3>1. vscnrs' = vscnrs \/ vscnrs' = [vscnrs EXCEPT ![proc[r]] = filter[r].out]
      BY Zenon, <2>2 DEF SetVscnrs, SetRest
    <3>2. pc[r] \in In  BY Zenon, <2>2 DEF SetVscnrs, SetRest
    <3>3. At(r) = pc[r]  BY Zenon, <3>2 DEF At
    <3>4. SeqSet(filter[r].out) \subseteq SeqSet(Config[proc[r]][version[proc[r]]])
      BY Zenon, <1>0, <3>2, <3>3 DEF AllScanners
    <3>5. vscnrs'[p] = vscnrs[p] \/ (p = proc[r] /\ vscnrs'[p] = filter[r].out)  BY Zenon, <1>0, <3>1
    <3> QED  BY Zenon, <1>0, <2>2, <3>4, <3>5
  <2>3. ASSUME NEW c \in Procs, Crash(c) PROVE Within(p)'
    <3> DEFINE v == IF version[c] < Len(Config[c]) THEN version[c] + 1 ELSE version[c]
    <3>1. version' = [version EXCEPT ![c] = v] /\ vscnrs' = [vscnrs EXCEPT ![c] = Config[c][v]]
      BY Zenon, <2>3 DEF Crash
    <3> HIDE DEF v
    <3>2. CASE p = c  BY Zenon, <1>0, <3>1, <3>2
    <3>3. CASE p # c
      <4>1. vscnrs'[p] = vscnrs[p] /\ version'[p] = version[p]  BY Zenon, <1>0, <3>1, <3>3
      <4> QED  BY Zenon, <1>0, <4>1
    <3> QED  BY Zenon, <3>2, <3>3
  <2> QED  BY Zenon, <2>1, <2>2, <2>3, OptCases
<1>2. ASSUME NEW q \in Reqs, At(q)' \in In PROVE SeqSet(filter'[q].out) \subseteq AllScanners(q)'
  <2>0. At(q)' \notin {"idle", "done", "gone"}  BY Zenon, <1>2
  <2>1. AllScanners(q)' = AllScanners(q)  BY Zenon, <2>0, ScannersKept
  <2>2. ASSUME At(q) \in In, filter'[q] = filter[q]
        PROVE SeqSet(filter'[q].out) \subseteq AllScanners(q)'
    BY Zenon, <1>0, <2>1, <2>2
  <2>3. CASE Stay(q)  BY Zenon, <1>2, <2>2, <2>3 DEF Stay
  <2>4. CASE Filtered(q)
    <3>1. CASE Range(q) /\ Goes(q, "range", "filter")
               /\ filter'[q] = [n |-> vlen[proc[q]], i |-> 1, out |-> <<>>]
      BY <3>1 DEF SeqSet
    <3>2. CASE Filter(q) /\ Goes(q, "filter", "filter")
      <4> DEFINE f == filter[q]
                 v == vscnrs[proc[q]]
      <4>1. /\ f \in Filters /\ v \in Seq(Scanners) /\ f.i \in 1..Len(v)
            /\ filter'[q].out = f.out \/ filter'[q].out = Append(f.out, v[f.i])
        BY Zenon, <3>2, FilterFacts
      <4>2. SeqSet(f.out) \subseteq AllScanners(q)  BY Zenon, <1>0, <3>2 DEF Goes
      <4>3. v[f.i] \in AllScanners(q)
        <5>1. proc[q] \in Procs  BY Zenon, IndexerAssumption
        <5>2. v[f.i] \in SeqSet(v)  BY Zenon, <4>1 DEF SeqSet
        <5> QED  BY Zenon, <1>0, <5>1, <5>2 DEF AllScanners
      <4>4. f.out \in Seq(Scanners) /\ v[f.i] \in Scanners  BY <4>1 DEF Filters
      <4>5. SeqSet(Append(f.out, v[f.i])) \subseteq SeqSet(f.out) \union {v[f.i]}
        <5> HIDE DEF f, v
        <5> QED  BY <4>4 DEF SeqSet
      <4> QED  BY Zenon, <2>1, <4>1, <4>2, <4>3, <4>5
    <3>3. CASE \/ SetVscnrs(q) /\ Goes(q, "filter", "setlen") /\ filter'[q] = filter[q]
               \/ SetVscnrs(q) /\ Goes(q, "filter", "setarray") /\ filter'[q] = filter[q]
      BY Zenon, <2>2, <3>3 DEF Goes
    <3>4. CASE \/ SetRest(q) /\ Goes(q, "setlen", "persist")
               \/ SetRest(q) /\ Goes(q, "setarray", "persist")
      BY Zenon, <1>2, <3>4 DEF Goes
    <3> QED  BY <2>4, <3>1, <3>2, <3>3, <3>4, Zenon DEF Filtered
  <2>5. Stay(q) \/ Filtered(q)
    <3>1. Move(q)  BY Zenon, NextMoves
    <3>2. CASE Ended(q) \/ Goes(q, "idle", "lock") \/ Locks(q) \/ Reduces(q) \/ Checks(q)
      BY Zenon, <1>2, <3>2 DEF Ended, At, Goes, Locks, Reduces, Checks
    <3>3. CASE \/ Persists(q) \/ Finds(q) \/ Fails(q) \/ Realizes(q) \/ Joins(q) \/ Merges(q) \/ Indexes(q)
               \/ Finishes(q)
      BY Zenon, <1>2, <3>3 DEF Persists, Finds, Fails, Realizes, Joins, Merges, Indexes, Finishes, Turns
    <3>4. CASE Starts(q) \/ Works(q)  BY Zenon, <1>2, <3>4 DEF Starts, Works
    <3> QED  BY Zenon, <3>1, <3>2, <3>3, <3>4 DEF Move
  <2> QED  BY Zenon, <2>3, <2>4, <2>5
<1> QED  BY Zenon, <1>1, <1>2 DEF OptsInv

(* Who records a manifest for a scanner.                                   *)
LEMMA FinishCases ==
  ASSUME [Next]_vars, NEW x \in scanned_manifest'
  PROVE  \/ x \in scanned_manifest
         \/ \E r \in Reqs : /\ Ends(r) /\ pc[r] = "IndexFinished" /\ ~HasNil(r) /\ mf[r] \in manifest
                            /\ x \in {mf[r]} \X Vscnrs(r) /\ scanned_layer' = scanned_layer
                            /\ indexreport' = [indexreport EXCEPT ![mf[r]] = Finished(r)]
                            /\ scanned_manifest' = scanned_manifest \union ({mf[r]} \X Vscnrs(r))
<1>1. ASSUME NEW r \in Reqs, ReqDb(r)
      PROVE \/ scanned_manifest' = scanned_manifest
            \/ Ends(r) /\ pc[r] = "IndexFinished" /\ ~HasNil(r) /\ SetIndexFinished(mf[r], Vscnrs(r), Finished(r))
  BY Zenon, <1>1 DEF ReqDb, db, PersistManifest, SetLayerScanned, IndexArtifacts, IndexManifest, SetIndexReport
<1>2. ASSUME NEW r \in Reqs, SetIndexFinished(mf[r], Vscnrs(r), Finished(r))
      PROVE \/ x \in scanned_manifest
            \/ /\ mf[r] \in manifest /\ x \in {mf[r]} \X Vscnrs(r) /\ scanned_layer' = scanned_layer
               /\ indexreport' = [indexreport EXCEPT ![mf[r]] = Finished(r)]
               /\ scanned_manifest' = scanned_manifest \union ({mf[r]} \X Vscnrs(r))
  BY Zenon, <1>2 DEF SetIndexFinished
<1>3. ASSUME NEW d \in Manifests, DeleteManifestRow(d) PROVE x \in scanned_manifest
  BY Zenon, <1>3 DEF DeleteManifestRow
<1>4. CASE LayerCleanup  BY Zenon, <1>4 DEF LayerCleanup
<1>5. CASE UNCHANGED db  BY Zenon, <1>5 DEF db
<1> QED  BY Zenon, <1>1, <1>2, <1>3, <1>4, <1>5, DbCases

(* A request never scans with more than its process was configured with.   *)
LEMMA VscnrsWithin == ASSUME OptsInv, NEW r \in Reqs PROVE Vscnrs(r) \subseteq AllScanners(r)
<1>1. proc[r] \in Procs  BY Zenon, IndexerAssumption
<1>2. Vscnrs(r) \subseteq SeqSet(vscnrs[proc[r]])  BY Zenon DEF Vscnrs, SeqSet
<1> QED  BY Zenon, <1>1, <1>2 DEF OptsInv, AllScanners

(* So a manifest is recorded for a scanner when its layers are.            *)
LEMMA ScannedButStep ==
  ASSUME Base, OptsInv, ScannedInv, ScannedBut, [Next]_vars
  PROVE  ScannedBut'
<1> SUFFICES ASSUME NEW x \in scanned_manifest', x[2] \notin Broken, NEW l \in LayerSet(x[1])
             PROVE <<l, x[2]>> \in scanned_layer'
  BY Zenon DEF ScannedBut
<1>0. Types /\ RowInv /\ RowInv'  BY Zenon, BaseStep DEF Base
<1>1. CASE x \in scanned_manifest
  <2>1. x[1] \in manifest /\ x[1] \in manifest'  BY Zenon, <1>0, <1>1 DEF RowInv
  <2>2. <<l, x[2]>> \in scanned_layer /\ <<l, x[2]>>[1] \in LayerSet(x[1])  BY Zenon, <1>1 DEF ScannedBut
  <2> QED  BY Zenon, <1>0, <2>1, <2>2, ScannedKept
<1>2. ASSUME NEW r \in Reqs, pc[r] = "IndexFinished", mf[r] \in manifest, x \in {mf[r]} \X Vscnrs(r),
             scanned_layer' = scanned_layer
      PROVE <<l, x[2]>> \in scanned_layer'
  <2>1. x[1] = mf[r] /\ x[2] \in Vscnrs(r)  BY Zenon, <1>2
  <2>2. Vscnrs(r) \subseteq AllScanners(r)  BY Zenon, VscnrsWithin
  <2>3. x[2] \in LayerScanners(r)  BY Zenon, <2>1, <2>2 DEF AllScanners, LayerScanners
  <2>4. LayerSet(mf[r]) \X LayerScanners(r) \subseteq scanned_layer  BY Zenon, <1>2 DEF ScannedInv, At
  <2> QED  BY Zenon, <1>2, <2>1, <2>3, <2>4
<1> QED  BY Zenon, <1>1, <1>2, FinishCases

-----------------------------------------------------------------------------
(* What the tables and the requests say of each other.                     *)
Records == Base /\ OptsInv /\ IndexedInv /\ ContentIndexed /\ ScanInv /\ ScannedInv /\ ScannedBut

(* The initial states are among those of Records.                          *)
LEMMA RecordsInit == Init => Records /\ HoldInv /\ KeptInv
<1> SUFFICES ASSUME Init PROVE Records /\ HoldInv /\ KeptInv  BY Zenon
<1>1. /\ pc = [r \in Reqs |-> "idle"] /\ scanned_manifest = {} /\ manifest = {}
      /\ indexreport = [m \in Manifests |-> NoReport]
      /\ vscnrs = [p \in Procs |-> Config[p][1]] /\ version = [p \in Procs |-> 1]
  BY Zenon DEF Init, StoreInit
<1>2. \A r \in Reqs : At(r) = "idle"  BY Zenon, <1>1 DEF At
<1>3. HoldInv  BY Zenon, <1>2 DEF HoldInv
<1>4. KeptInv  BY Zenon, <1>2 DEF KeptInv, Persisted, Past
<1>5. IndexedInv /\ ScanInv  BY Zenon, <1>2 DEF IndexedInv, ScanInv
<1>6. ScannedInv  BY Zenon, <1>2 DEF ScannedInv
<1>7. ContentIndexed /\ ScannedBut  BY Zenon, <1>1 DEF ContentIndexed, ScannedBut
<1>8. OptsInv  BY Zenon, <1>1, <1>2 DEF OptsInv
<1> QED  BY Zenon, BaseInit, <1>3, <1>4, <1>5, <1>6, <1>7, <1>8 DEF Records

(* Every step keeps Records while a request is alone with its row.         *)
LEMMA RecordsStep == ASSUME Records, Alone, [Next]_vars PROVE Records'
<1>1. Base'  BY Zenon, BaseStep DEF Records
<1>2. OptsInv'  BY Zenon, OptsStep DEF Records, Base
<1>3. IndexedInv' /\ ContentIndexed'  BY Zenon, IndexedStep, ContentStep DEF Records
<1>4. ScanInv' /\ ScannedInv'  BY Zenon, ScanStep, ScannedStep DEF Records
<1>5. ScannedBut'  BY Zenon, ScannedButStep DEF Records
<1> QED  BY Zenon, <1>1, <1>2, <1>3, <1>4, <1>5 DEF Records

(* LocksKept rules the step out where it would change something.           *)
LEMMA NoLockLost ==
  ASSUME Types, [\A r \in Reqs : ~LockLost(r)]_vars
  PROVE  \A r \in Reqs : ~LockLost(r)
<1>1. ASSUME UNCHANGED vars, NEW r \in Reqs, LockLost(r) PROVE FALSE
  <2>1. lock \in [Manifests -> Reqs \union {None}] /\ mf[r] \in Manifests /\ None # r
    BY Zenon, IndexerAssumption DEF Types, RunTypes
  <2>2. lock' = lock  BY Zenon, <1>1 DEF vars
  <2>3. lock[mf[r]] = r /\ lock' = [lock EXCEPT ![mf[r]] = None]  BY Zenon, <1>1 DEF LockLost
  <2> QED  BY Zenon, <2>1, <2>2, <2>3
<1> QED  BY Zenon, <1>1

(* NeverDeleted rules the step out where it would change something.        *)
LEMMA NoDelete ==
  ASSUME Types, [\A m \in Manifests : ~Delete(m)]_vars
  PROVE  \A m \in Manifests : ~Delete(m)
<1>1. ASSUME UNCHANGED vars, NEW m \in Manifests, Delete(m) PROVE FALSE
  <2>1. deletes \in Nat  BY IndexerAssumption DEF Types, EnvTypes
  <2>2. deletes' = deletes  BY Zenon, <1>1 DEF vars, env
  <2>3. deletes' = deletes + 1  BY Zenon, <1>1 DEF Delete
  <2> QED  BY <2>1, <2>2, <2>3
<1> QED  BY Zenon, <1>1

(* Every step keeps Records as long as no lock is lost.                    *)
LEMMA HeldStep ==
  ASSUME Records, HoldInv, [Next]_vars, [\A r \in Reqs : ~LockLost(r)]_vars
  PROVE  Records' /\ HoldInv'
<1>1. Types /\ TaskInv  BY Zenon DEF Records, Base
<1>2. \A r \in Reqs : ~LockLost(r)  BY Zenon, <1>1, NoLockLost
<1> QED  BY Zenon, <1>1, <1>2, HoldStep, HeldAlone, RecordsStep

(* Every step keeps Records as long as no manifest is deleted.             *)
LEMMA KeptsStep ==
  ASSUME Records, KeptInv, [Next]_vars, [\A m \in Manifests : ~Delete(m)]_vars
  PROVE  Records' /\ KeptInv'
<1>1. Base /\ Types  BY Zenon DEF Records, Base
<1>2. \A m \in Manifests : ~Delete(m)  BY Zenon, <1>1, NoDelete
<1> QED  BY Zenon, <1>1, <1>2, KeptStep, KeptAlone, RecordsStep

(* Between Lock and its return, Index holds its manifest's lock, as long   *)
(* as no lock is lost; and what the tables say of a manifest stays true    *)
(* through faults, crashes and deletions.                                  *)
THEOREM HeldRecords == Spec /\ LocksKept => [](Records /\ HoldInv)
<1>1. Records /\ HoldInv /\ [Next]_vars /\ [\A r \in Reqs : ~LockLost(r)]_vars => (Records /\ HoldInv)'
  BY Zenon, HeldStep
<1> QED  BY RecordsInit, <1>1, PTL DEF Spec, LocksKept

(* While no manifest is deleted the same is true though locks are lost.    *)
THEOREM KeptRecords == Spec /\ NeverDeleted => [](Records /\ KeptInv)
<1>1. Records /\ KeptInv /\ [Next]_vars /\ [\A m \in Manifests : ~Delete(m)]_vars => (Records /\ KeptInv)'
  BY Zenon, KeptsStep
<1> QED  BY RecordsInit, <1>1, PTL DEF Spec, NeverDeleted

(* A stored report that claims success lists nothing that                  *)
(* AffectedManifests could not find in manifest_index, for any number of   *)
(* requests, processes and restarts, unless a lost lock and a deletion     *)
(* come together.                                                          *)
THEOREM IndexedContent == Spec /\ (LocksKept \/ NeverDeleted) => []ContentIndexed
<1>1. Records => ContentIndexed  BY Zenon DEF Records
<1> QED  BY <1>1, HeldRecords, KeptRecords, PTL

(* checkManifest may skip a scanner that has the manifest: every layer of  *)
(* a manifest that is recorded for a scanner is recorded for that scanner, *)
(* when Configure fails for none of them.                                  *)
THEOREM ScannedLayers ==
  ASSUME Broken = {}
  PROVE  Spec /\ (LocksKept \/ NeverDeleted) => []FinishedScanned
<1>1. Records => FinishedScanned  BY Zenon DEF Records, ScannedBut, FinishedScanned
<1> QED  BY <1>1, HeldRecords, KeptRecords, PTL

-----------------------------------------------------------------------------
(* All processes run the same scanners.                                    *)
LEMMA ConfigTyped ==
  ASSUME Types, NEW p \in Procs
  PROVE  /\ version[p] \in 1..Len(Config[p]) /\ Config[p][version[p]] \in Seq(Scanners)
         /\ Uniform => SeqSet(Config[p][version[p]]) = Scanners
<1>1. Config[p] \in Seq(Seq(Scanners)) /\ version[p] \in 1..Len(Config[p])
  BY Zenon, IndexerAssumption DEF Types, OptTypes
<1> QED  BY <1>1 DEF Uniform

(* With all vscnrs in place, every request scans with all scanners.        *)
LEMMA FullVscnrs ==
  ASSUME Uniform, Types, FullInv, NEW r \in Reqs
  PROVE  Vscnrs(r) = Scanners
<1> DEFINE v == vscnrs[proc[r]]
<1>1. proc[r] \in Procs  BY Zenon, IndexerAssumption
<1>2. v = Config[proc[r]][version[proc[r]]] /\ vlen[proc[r]] = Len(v)  BY Zenon, <1>1 DEF FullInv
<1>3. v \in Seq(Scanners) /\ SeqSet(v) = Scanners  BY Zenon, <1>1, <1>2, ConfigTyped
<1>4. Len(v) \in Nat  BY <1>3
<1> HIDE DEF v
<1>5. {v[i] : i \in 1..Len(v) \intersect 1..Len(v)} = SeqSet(v)  BY Zenon, <1>4 DEF SeqSet
<1> QED  BY Zenon, <1>2, <1>3, <1>5 DEF Vscnrs, v

(* Two requests past their lock are not for the same manifest.             *)
LEMMA OneHolder ==
  ASSUME HoldInv, NEW r \in Reqs, NEW q \in Reqs, mf[r] = mf[q],
         At(r) \notin {"idle", "lock", "done", "gone"}, At(q) \notin {"idle", "lock", "done", "gone"}
  PROVE  r = q
  BY Zenon DEF HoldInv

(* Only the holder of the lock records its manifest.                       *)
LEMMA UnscannedKept ==
  ASSUME HoldInv, [Next]_vars, NEW q \in Reqs, At(q) \notin {"idle", "lock", "done", "gone"},
         ~Ends(q), Unscanned(mf[q])
  PROVE  Unscanned(mf[q])'
<1> SUFFICES ASSUME NEW s \in Scanners, <<mf[q], s>> \in scanned_manifest' PROVE FALSE
  BY Zenon DEF Unscanned
<1>1. <<mf[q], s>> \notin scanned_manifest  BY Zenon DEF Unscanned
<1>2. PICK r \in Reqs : Ends(r) /\ pc[r] = "IndexFinished" /\ <<mf[q], s>> \in {mf[r]} \X Vscnrs(r)
  BY Zenon, <1>1, FinishCases
<1>3. mf[r] = mf[q] /\ At(r) = "IndexFinished"  BY Zenon, <1>2 DEF At
<1>4. r = q  BY Zenon, <1>3, OneHolder
<1> QED  BY Zenon, <1>2, <1>4

(* A manifest is recorded for all scanners or for none.                    *)
LEMMA AllOrNoneStep ==
  ASSUME Uniform, Types, FullInv, AllOrNone, [Next]_vars
  PROVE  AllOrNone'
<1> SUFFICES ASSUME NEW m \in Manifests PROVE Scanned(m)' \/ Unscanned(m)'
  BY Zenon DEF AllOrNone
<1>1. ASSUME NEW r \in Reqs, scanned_manifest' = scanned_manifest \union ({mf[r]} \X Vscnrs(r))
      PROVE Scanned(m)' \/ Unscanned(m)'
  <2>1. Vscnrs(r) = Scanners  BY Zenon, FullVscnrs
  <2> QED  BY Zenon, <1>1, <2>1 DEF AllOrNone, Scanned, Unscanned
<1>2. ASSUME NEW d \in Manifests, scanned_manifest' = {x \in scanned_manifest : x[1] # d}
      PROVE Scanned(m)' \/ Unscanned(m)'
  BY Zenon, <1>2 DEF AllOrNone, Scanned, Unscanned
<1>3. CASE scanned_manifest' = scanned_manifest  BY Zenon, <1>3 DEF AllOrNone, Scanned, Unscanned
<1>4. ASSUME NEW r \in Reqs, ReqDb(r)
      PROVE \/ scanned_manifest' = scanned_manifest
            \/ scanned_manifest' = scanned_manifest \union ({mf[r]} \X Vscnrs(r))
  BY Zenon, <1>4 DEF ReqDb, db, PersistManifest, SetLayerScanned, IndexArtifacts, IndexManifest,
     SetIndexReport, SetIndexFinished
<1>5. ASSUME NEW d \in Manifests, DeleteManifestRow(d)
      PROVE scanned_manifest' = {x \in scanned_manifest : x[1] # d}
  BY Zenon, <1>5 DEF DeleteManifestRow
<1>6. LayerCleanup \/ UNCHANGED db => scanned_manifest' = scanned_manifest  BY Zenon DEF LayerCleanup, db
<1> QED  BY Zenon, <1>1, <1>2, <1>3, <1>4, <1>5, <1>6, DbCases

(* indexFinished is the last state, and so is one that failed.             *)
LEMMA EndsLeave ==
  ASSUME Types, NEW q \in Reqs, Ends(q)
  PROVE  At(q)' \in {"Terminal", "done", "gone"}
<1>1. CASE Finish(q)
  <2>1. Proceed(q, "Terminal")  BY Zenon, <1>1 DEF Finish
  <2>2. "Terminal" \in Nexts  BY Zenon DEF Nexts
  <2>3. Ended(q) \/ OnTo(q, "Terminal")  BY Zenon, <2>1, <2>2, ProceedStep
  <2> QED  BY Zenon, <2>3 DEF Ended, OnTo, At
<1>2. CASE StateError(q)
  <2>1. \E e \in {"error", "canceled", "deadline"} : \E rep \in Reports : Give(q, e, rep)
    BY Zenon, <1>2, FinishedReports DEF StateError
  <2>2. Ended(q) \/ OnTo(q, "Terminal")  BY Zenon, <2>1, GiveStep
  <2> QED  BY Zenon, <2>2 DEF Ended, OnTo, At
<1> QED  BY Zenon, <1>1, <1>2 DEF Ends

(* A request comes past checkManifest only through checkManifest.          *)
LEMMA PastMoves ==
  ASSUME Types, TaskInv, [Next]_vars, NEW q \in Reqs, At(q)' \in Past \union Filtering, ~Checks(q)
  PROVE  At(q) \in Past \union Filtering
<1>1. Move(q)  BY Zenon, NextMoves
<1>2. CASE Stay(q) \/ Ended(q) \/ Goes(q, "idle", "lock")
  BY Zenon, <1>2 DEF Stay, Ended, At, Goes, Past, Filtering
<1>3. CASE Reduces(q) \/ Locks(q)  BY Zenon, <1>3 DEF Reduces, Locks, Goes, Past, Filtering
<1>4. CASE Filtered(q)
  <2>1. At(q) \in Filtering  BY Zenon, <1>4 DEF Filtered, Goes, Filtering
  <2> QED  BY Zenon, <2>1
<1>5. CASE Fails(q) \/ Finds(q) \/ Finishes(q)
  BY Zenon, <1>5 DEF Fails, Finds, Finishes, Turns, Past, Filtering
<1>6. CASE Persists(q) \/ Realizes(q) \/ Joins(q) \/ Merges(q) \/ Indexes(q)
  BY Zenon, <1>6 DEF Persists, Realizes, Joins, Merges, Indexes, Turns, Past, Filtering
<1>7. CASE Starts(q) \/ Works(q)  BY Zenon, <1>7 DEF Starts, Works, Past
<1> QED  BY Zenon, <1>1, <1>2, <1>3, <1>4, <1>5, <1>6, <1>7 DEF Move

(* A request past checkManifest works on a manifest that is not recorded.  *)
LEMMA FreshStep ==
  ASSUME Uniform, Types, TaskInv, HoldInv, FullInv, AllOrNone, FreshInv, [Next]_vars
  PROVE  FreshInv'
<1> SUFFICES ASSUME NEW q \in Reqs, At(q)' \in Past \union Filtering PROVE Unscanned(mf[q])'
  BY Zenon DEF FreshInv
<1>0. ~Ends(q)
  <2>1. At(q)' \notin {"Terminal", "done", "gone"}  BY Zenon DEF Past, Filtering
  <2> QED  BY Zenon, <2>1, EndsLeave
<1>1. ASSUME At(q) \in Past \union Filtering PROVE Unscanned(mf[q])'
  <2>1. Unscanned(mf[q])  BY Zenon, <1>1 DEF FreshInv
  <2>2. At(q) \notin {"idle", "lock", "done", "gone"}  BY Zenon, <1>1 DEF Past, Filtering
  <2> QED  BY Zenon, <1>0, <2>1, <2>2, UnscannedKept
<1>2. CASE Checks(q)
  <2>1. UNCHANGED db /\ ~ManifestScanned(mf[q], Vscnrs(q))  BY Zenon, <1>2 DEF Checks, Goes, Past, Filtering
  <2>2. Vscnrs(q) = Scanners /\ mf[q] \in Manifests  BY Zenon, FullVscnrs, IndexerAssumption
  <2>3. Unscanned(mf[q])  BY Zenon, <2>1, <2>2 DEF ManifestScanned, AllOrNone, Scanned
  <2> QED  BY Zenon, <2>1, <2>3 DEF db, Unscanned
<1>3. CASE ~Checks(q)
  <2>1. At(q) \in Past \union Filtering  BY Zenon, <1>3, PastMoves
  <2> QED  BY Zenon, <1>1, <2>1
<1> QED  BY Zenon, <1>2, <1>3

(* The loop that skipped nothing ends with the list it began with.         *)
LEMMA LoopEnds ==
  ASSUME Types, FullInv, NEW r \in Reqs, SetVscnrs(r) \/ SetRest(r)
  PROVE  filter[r].out = vscnrs[proc[r]]
<1> DEFINE f == filter[r]
           v == vscnrs[proc[r]]
<1>0. LoopOK(r) /\ v \in Seq(Scanners) /\ f.out \in Seq(Scanners) /\ f.i \in Nat
  <2>1. f \in Filters /\ v \in Seq(Scanners)  BY Zenon, IndexerAssumption DEF Types, RunTypes, OptTypes
  <2>2. LoopOK(r)  BY Zenon DEF FullInv
  <2> QED  BY Zenon, <2>1, <2>2 DEF Filters
<1>1. CASE SetRest(r)
  <2>1. pc[r] \in {"setlen", "setarray"}  BY Zenon, <1>1 DEF SetRest
  <2> QED  BY Zenon, <1>0, <2>1 DEF LoopOK, At
<1>2. CASE SetVscnrs(r)
  <2>1. pc[r] = "filter" /\ f.i > f.n  BY Zenon, <1>2 DEF SetVscnrs
  <2>2. At(r) = "filter"  BY Zenon, <2>1 DEF At
  <2>3. /\ f.n = Len(v) /\ f.i \in 1..(Len(v) + 1) /\ Len(f.out) = f.i - 1
        /\ \A k \in 1..(f.i - 1) : f.out[k] = v[k]
    BY Zenon, <1>0, <2>2 DEF LoopOK
  <2> HIDE DEF f, v
  <2>4. f.i = Len(v) + 1 /\ Len(v) \in Nat  BY <1>0, <2>1, <2>3
  <2>5. Len(f.out) = Len(v) /\ \A k \in 1..Len(v) : f.out[k] = v[k]  BY <2>3, <2>4
  <2> QED  BY <1>0, <2>5 DEF f, v
<1> QED  BY Zenon, <1>1, <1>2

(* So the shared list is the full one whatever requests interleave.        *)
LEMMA FullStep ==
  ASSUME Uniform, Types, TaskInv, FullInv, FreshInv, [Next]_vars
  PROVE  FullInv'
<1> DEFINE Full(p) == vscnrs[p] = Config[p][version[p]] /\ vlen[p] = Len(vscnrs[p])
<1>0. /\ vscnrs \in [Procs -> Seq(Scanners)] /\ vlen \in [Procs -> Nat] /\ version \in [Procs -> Nat]
      /\ \A p \in Procs : Full(p)
      /\ \A r \in Reqs : LoopOK(r)
  BY Zenon DEF Types, OptTypes, FullInv
<1>1. ASSUME NEW p \in Procs PROVE Full(p)'
  <2>1. CASE UNCHANGED <<opts, version>>  BY Zenon, <1>0, <2>1 DEF opts
  <2>2. ASSUME NEW r \in Reqs, SetVscnrs(r) \/ SetRest(r), version' = version PROVE Full(p)'
    <3>1. /\ vscnrs' = vscnrs \/ vscnrs' = [vscnrs EXCEPT ![proc[r]] = filter[r].out]
          /\ vlen' = vlen \/ vlen' = [vlen EXCEPT ![proc[r]] = Len(filter[r].out)]
      BY Zenon, <2>2 DEF SetVscnrs, SetRest
    <3>2. filter[r].out = vscnrs[proc[r]] /\ proc[r] \in Procs  BY Zenon, <2>2, LoopEnds, IndexerAssumption
    <3>3. vscnrs'[p] = vscnrs[p]  BY Zenon, <1>0, <3>1, <3>2
    <3>4. vlen'[p] = vlen[p]  BY <1>0, <3>1, <3>2
    <3> QED  BY Zenon, <1>0, <2>2, <3>3, <3>4
  <2>3. ASSUME NEW c \in Procs, Crash(c) PROVE Full(p)'
    <3> DEFINE v == IF version[c] < Len(Config[c]) THEN version[c] + 1 ELSE version[c]
    <3>1. /\ version' = [version EXCEPT ![c] = v] /\ vscnrs' = [vscnrs EXCEPT ![c] = Config[c][v]]
          /\ vlen' = [vlen EXCEPT ![c] = Len(Config[c][v])]
      BY Zenon, <2>3 DEF Crash
    <3> HIDE DEF v
    <3>2. CASE p = c  BY Zenon, <1>0, <3>1, <3>2
    <3>3. CASE p # c
      <4>1. vscnrs'[p] = vscnrs[p] /\ version'[p] = version[p] /\ vlen'[p] = vlen[p]  BY Zenon, <1>0, <3>1, <3>3
      <4> QED  BY Zenon, <1>0, <4>1
    <3> QED  BY Zenon, <3>2, <3>3
  <2> QED  BY Zenon, <2>1, <2>2, <2>3, OptCases
<1>2. ASSUME NEW q \in Reqs PROVE LoopOK(q)'
  <2> DEFINE v == vscnrs[proc[q]]
  <2> SUFFICES ASSUME At(q)' \in {"filter", "setlen", "setarray"} PROVE LoopOK(q)'
    BY Zenon DEF LoopOK
  <2>0. proc[q] \in Procs /\ version'[proc[q]] = version[proc[q]]
    <3>1. At(q)' \notin {"idle", "done", "gone"}  BY Zenon
    <3> QED  BY Zenon, <3>1, VersionKept, IndexerAssumption
  <2>1. v' = v
    <3>1. vscnrs[proc[q]] = Config[proc[q]][version[proc[q]]]  BY Zenon, <1>0, <2>0
    <3>2. vscnrs'[proc[q]] = Config[proc[q]][version'[proc[q]]]  BY Zenon, <1>1, <2>0
    <3> QED  BY Zenon, <2>0, <3>1, <3>2
  <2>2. Stay(q) \/ Filtered(q)
    <3>1. Move(q)  BY Zenon, NextMoves
    <3>2. CASE Ended(q) \/ Goes(q, "idle", "lock") \/ Locks(q) \/ Reduces(q) \/ Checks(q)
      BY Zenon, <3>2 DEF Ended, At, Goes, Locks, Reduces, Checks
    <3>3. CASE \/ Persists(q) \/ Finds(q) \/ Fails(q) \/ Realizes(q) \/ Joins(q) \/ Merges(q) \/ Indexes(q)
               \/ Finishes(q)
      BY Zenon, <3>3 DEF Persists, Finds, Fails, Realizes, Joins, Merges, Indexes, Finishes, Turns
    <3>4. CASE Starts(q) \/ Works(q)  BY Zenon, <3>4 DEF Starts, Works
    <3> QED  BY Zenon, <3>1, <3>2, <3>3, <3>4 DEF Move
  <2>3. CASE Stay(q)
    <3>1. At(q)' = At(q) /\ filter'[q] = filter[q]  BY Zenon, <2>3 DEF Stay
    <3> QED  BY Zenon, <1>0, <2>1, <3>1 DEF LoopOK
  <2>4. CASE Range(q) /\ Goes(q, "range", "filter")
             /\ filter'[q] = [n |-> vlen[proc[q]], i |-> 1, out |-> <<>>]
    <3>1. filter'[q].n = Len(v) /\ filter'[q].i = 1 /\ filter'[q].out = <<>> /\ At(q)' = "filter"
      BY <1>0, <2>0, <2>4 DEF Goes
    <3>2. Len(v) \in Nat  BY Zenon, <1>0, <2>0
    <3> HIDE DEF v
    <3>3. 1 \in 1..(Len(v) + 1) /\ Len(<<>>) = 1 - 1 /\ 1..(1 - 1) = {}  BY <3>2
    <3> QED  BY Zenon, <2>1, <3>1, <3>3 DEF LoopOK, v
  <2>5. CASE Filter(q) /\ Goes(q, "filter", "filter")
    <3> DEFINE f == filter[q]
    <3>1. /\ f \in Filters /\ v \in Seq(Scanners) /\ f.i \in 1..Len(v) /\ f.i <= f.n
          /\ filter'[q].i = f.i + 1 /\ filter'[q].n = f.n
          /\ filter'[q].out = IF ManifestScanned(mf[q], {v[f.i]}) THEN f.out ELSE Append(f.out, v[f.i])
      BY Zenon, <2>5, FilterFacts
    <3>2. f.out \in Seq(Scanners) /\ v[f.i] \in Scanners /\ f.i \in Nat /\ Len(v) \in Nat
      BY Zenon, <3>1, FilterFields, Element
    <3>3. At(q) = "filter" /\ At(q)' = "filter"  BY Zenon, <2>5 DEF Goes
    <3>4. Unscanned(mf[q])  BY Zenon, <3>3 DEF FreshInv, Filtering
    <3>5. ~ManifestScanned(mf[q], {v[f.i]})  BY Zenon, <3>2, <3>4 DEF Unscanned, ManifestScanned
    <3>6. /\ f.n = Len(v) /\ Len(f.out) = f.i - 1
          /\ \A k \in 1..(f.i - 1) : f.out[k] = v[k]
      BY Zenon, <1>0, <3>3 DEF LoopOK
    <3> DEFINE g == filter'[q]
    <3>7. g.n = Len(v) /\ g.i = f.i + 1 /\ g.out = Append(f.out, v[f.i])  BY Zenon, <3>1, <3>5, <3>6
    <3> HIDE DEF f, v, g
    <3>8. Len(g.out) = g.i - 1 /\ g.i \in 1..(Len(v) + 1)
      <4>1. Len(Append(f.out, v[f.i])) = Len(f.out) + 1  BY <3>2
      <4>2. f.i \in 1..Len(v) /\ f.i \in Nat /\ Len(v) \in Nat /\ Len(f.out) = f.i - 1  BY Zenon, <3>1, <3>2, <3>6
      <4>3. (f.i - 1) + 1 = (f.i + 1) - 1 /\ f.i + 1 \in 1..(Len(v) + 1)  BY <4>2
      <4> QED  BY Zenon, <3>7, <4>1, <4>2, <4>3
    <3>9. ASSUME NEW k \in 1..(g.i - 1) PROVE g.out[k] = v[k]
      <4>1. k \in 1..f.i  BY <3>2, <3>7
      <4>2. CASE k = f.i  BY <3>2, <3>6, <3>7, <4>2
      <4>3. CASE k # f.i
        <5>1. k \in 1..(f.i - 1)  BY <3>2, <4>1, <4>3
        <5> QED  BY <3>2, <3>6, <3>7, <5>1
      <4> QED  BY Zenon, <4>2, <4>3
    <3> QED  BY Zenon, <2>1, <3>3, <3>7, <3>8, <3>9 DEF LoopOK, g, v
  <2>6. CASE \/ SetVscnrs(q) /\ Goes(q, "filter", "setlen") /\ filter'[q] = filter[q]
             \/ SetVscnrs(q) /\ Goes(q, "filter", "setarray") /\ filter'[q] = filter[q]
    <3>1. filter'[q].out = v  BY Zenon, <2>6, LoopEnds
    <3>2. At(q)' # "filter"  BY Zenon, <2>6 DEF Goes
    <3> QED  BY Zenon, <2>1, <3>1, <3>2 DEF LoopOK
  <2>7. CASE \/ SetRest(q) /\ Goes(q, "setlen", "persist")
             \/ SetRest(q) /\ Goes(q, "setarray", "persist")
    BY Zenon, <2>7 DEF Goes
  <2> QED  BY <2>2, <2>3, <2>4, <2>5, <2>6, <2>7, Zenon DEF Filtered
<1> QED  BY Zenon, <1>1, <1>2 DEF FullInv

(* The files of all layers are there when scanLayers needs them.           *)
LEMMA FetchStep ==
  ASSUME Uniform, Base, KeptInv, KeptInv', ScanInv, FullInv, FetchInv, [Next]_vars
  PROVE  FetchInv'
<1>0. Types /\ TaskInv /\ RowInv /\ TaskInv'  BY Zenon, BaseStep DEF Base
<1>1. ASSUME NEW q \in Reqs, At(q)' \in {"realize", "ScanLayers", "scanning"},
             NEW t \in LayerSet(mf[q]) \X Scanners
      PROVE t \in scanned_layer' \/ t[1] \in fetched'[q]
  <2>1. CASE Reduces(q)
    <3>1. Vscnrs(q) = Scanners  BY Zenon, <1>0, FullVscnrs
    <3>2. fetched'[q] = {l \in LayerSet(mf[q]) : \E s \in Scanners : <<l, s>> \notin scanned_layer}
      BY Zenon, <2>1, <3>1 DEF Reduces, Reduce, LayerScanned
    <3>3. scanned_layer' = scanned_layer  BY Zenon, <2>1 DEF Reduces, db
    <3>4. t = <<t[1], t[2]>> /\ t[1] \in LayerSet(mf[q]) /\ t[2] \in Scanners  OBVIOUS
    <3> QED  BY Zenon, <3>2, <3>3, <3>4
  <2>2. CASE ~Reduces(q)
    <3>1. At(q) \in {"realize", "ScanLayers", "scanning"} /\ fetched'[q] = fetched[q]
      <4>1. Move(q)  BY Zenon, <1>0, NextMoves
      <4>2. CASE Stay(q) \/ Ended(q) \/ Goes(q, "idle", "lock") \/ Locks(q)
        BY Zenon, <1>1, <4>2 DEF Stay, Ended, At, Goes, Locks
      <4>3. CASE Checks(q)  BY Zenon, <1>1, <4>3 DEF Checks, Goes
      <4>4. CASE Filtered(q)
        <5>1. At(q)' \in {"filter", "setlen", "setarray", "persist"}  BY Zenon, <4>4 DEF Filtered, Goes
        <5> QED  BY Zenon, <1>1, <5>1
      <4>5. CASE Fails(q) \/ Finds(q) \/ Finishes(q) \/ Persists(q) \/ Realizes(q)
        BY Zenon, <1>1, <4>5 DEF Fails, Finds, Finishes, Persists, Realizes, Turns
      <4>6. CASE Joins(q) \/ Merges(q) \/ Indexes(q)  BY Zenon, <1>1, <4>6 DEF Joins, Merges, Indexes, Turns
      <4>7. CASE Starts(q) \/ Works(q)  BY Zenon, <4>7 DEF Starts, Works
      <4> QED  BY Zenon, <2>2, <4>1, <4>2, <4>3, <4>4, <4>5, <4>6, <4>7 DEF Move
    <3>2. t \in scanned_layer \/ t[1] \in fetched[q]  BY Zenon, <3>1 DEF FetchInv
    <3>3. mf[q] \in manifest /\ mf[q] \in manifest'
      <4>1. Persisted(q) /\ Persisted(q)'  BY Zenon, <1>1, <3>1 DEF Persisted, Past
      <4> QED  BY Zenon, <4>1 DEF KeptInv
    <3>4. t[1] \in LayerSet(mf[q])  BY Zenon
    <3>5. t \in scanned_layer => t \in scanned_layer'  BY Zenon, <1>0, <3>3, <3>4, ScannedKept
    <3> QED  BY Zenon, <3>1, <3>2, <3>5
  <2> QED  BY Zenon, <2>1, <2>2
<1>2. ASSUME NEW q \in Reqs, NEW t \in Pairs, task'[q][t] = "scan" PROVE t[1] \in fetched'[q]
  <2>1. At(q)' = "scanning"
    <3>1. NoTasks[t] # "scan"  BY Zenon DEF NoTasks
    <3> QED  BY Zenon, <1>0, <1>2, <3>1 DEF TaskInv
  <2>2. CASE Stay(q)
    <3>1. task[q][t] = "scan" /\ fetched'[q] = fetched[q]  BY Zenon, <1>2, <2>2 DEF Stay
    <3> QED  BY Zenon, <3>1 DEF FetchInv
  <2>3. CASE Starts(q)
    <3>1. task'[q][t] \in {"todo", "none"}  BY Zenon, <2>3 DEF Starts
    <3> QED  BY Zenon, <1>2, <3>1
  <2>4. CASE Works(q)
    <3>1. PICK u \in Pairs : /\ \A v \in Pairs \ {u} : task'[q][v] = task[q][v]
                             /\ ScanLayer(q, u) \/ MarkOffline(q, u)
      BY Zenon, <2>4 DEF Works
    <3>2. At(q) = "scanning" /\ fetched'[q] = fetched[q]  BY Zenon, <2>4 DEF Works
    <3>3. CASE u = t
      <4>1. task[q][t] # "none" /\ t \notin scanned_layer  BY Zenon, <1>0, <1>2, <3>1, <3>3, ScanLayerFacts
      <4>2. t \in LayerSet(mf[q]) \X LayerScanners(q)  BY Zenon, <3>2, <4>1 DEF ScanInv
      <4>3. t \in LayerSet(mf[q]) \X Scanners  BY Zenon, <4>2 DEF Pairs
      <4> QED  BY Zenon, <3>2, <4>1, <4>3 DEF FetchInv
    <3>4. CASE u # t
      <4>1. task[q][t] = "scan"  BY Zenon, <1>2, <3>1, <3>4
      <4> QED  BY Zenon, <3>2, <4>1 DEF FetchInv
    <3> QED  BY Zenon, <3>3, <3>4
  <2> QED  BY Zenon, <1>0, <2>1, <2>2, <2>3, <2>4, ScanningMoves
<1> QED  BY Zenon, <1>1, <1>2 DEF FetchInv

(* With the same scanners everywhere the lock is enough for what one       *)
(* request has read to stay true until it has finished.                    *)
OneList == Records /\ HoldInv /\ FullInv /\ AllOrNone /\ FreshInv

(* The initial states are among those of OneList.                          *)
LEMMA OneListInit == Init => OneList /\ FetchInv
<1> SUFFICES ASSUME Init PROVE OneList /\ FetchInv  BY Zenon
<1>1. /\ pc = [r \in Reqs |-> "idle"] /\ scanned_manifest = {} /\ task = [r \in Reqs |-> NoTasks]
      /\ vscnrs = [p \in Procs |-> Config[p][1]] /\ version = [p \in Procs |-> 1]
      /\ vlen = [p \in Procs |-> Len(Config[p][1])]
  BY Zenon DEF Init, StoreInit
<1>2. \A r \in Reqs : At(r) = "idle"  BY Zenon, <1>1 DEF At
<1>3. AllOrNone  BY Zenon, <1>1 DEF AllOrNone, Unscanned
<1>4. FreshInv  BY Zenon, <1>2 DEF FreshInv, Past, Filtering
<1>5. FullInv  BY Zenon, <1>1, <1>2 DEF FullInv, LoopOK
<1>6. \A r \in Reqs : \A t \in Pairs : task[r][t] # "scan"  BY Zenon, <1>1 DEF NoTasks
<1>7. FetchInv  BY Zenon, <1>2, <1>6 DEF FetchInv
<1> QED  BY Zenon, RecordsInit, <1>3, <1>4, <1>5, <1>7 DEF OneList

(* Every step keeps OneList as long as no lock is lost.                    *)
LEMMA OneListStep ==
  ASSUME Uniform, OneList, [Next]_vars, [\A r \in Reqs : ~LockLost(r)]_vars
  PROVE  OneList'
<1>1. Records /\ HoldInv /\ FullInv /\ AllOrNone /\ FreshInv /\ Types /\ TaskInv
  BY Zenon DEF OneList, Records, Base
<1>2. Records' /\ HoldInv'  BY Zenon, <1>1, HeldStep
<1>3. FullInv'  BY Zenon, <1>1, FullStep
<1>4. AllOrNone' /\ FreshInv'  BY Zenon, <1>1, AllOrNoneStep, FreshStep
<1> QED  BY Zenon, <1>2, <1>3, <1>4 DEF OneList

(* What one run of the pipeline promises the next, when all processes have *)
(* the same scanners and Configure fails for none, no lock is lost and no  *)
(* manifest deleted: a recorded manifest has all its layers recorded, a    *)
(* scanner only opens layers that were fetched, and indexFinished never    *)
(* meets its own rows, through any faults and restarts.                    *)
THEOREM RecordsConsistent ==
  ASSUME Uniform, Broken = {}
  PROVE  Spec /\ LocksKept /\ NeverDeleted => []Consistent
<1> DEFINE IInv == OneList /\ KeptInv /\ FetchInv
<1>1. Init => IInv  BY Zenon, OneListInit, RecordsInit
<1>2. IInv /\ [Next]_vars /\ [\A r \in Reqs : ~LockLost(r)]_vars /\ [\A m \in Manifests : ~Delete(m)]_vars
      => IInv'
  <2> SUFFICES ASSUME IInv, [Next]_vars, [\A r \in Reqs : ~LockLost(r)]_vars,
                      [\A m \in Manifests : ~Delete(m)]_vars
               PROVE  IInv'
    BY Zenon
  <2>1. OneList'  BY Zenon, OneListStep
  <2>2. Records /\ Base /\ ScanInv /\ FullInv  BY Zenon DEF OneList, Records
  <2>3. KeptInv'  BY Zenon, <2>2, KeptsStep
  <2>4. FetchInv'  BY Zenon, <2>2, <2>3, FetchStep
  <2> QED  BY Zenon, <2>1, <2>3, <2>4
<1>3. IInv /\ TypeOK => Consistent
  <2> SUFFICES ASSUME IInv, TypeOK PROVE Consistent  BY Zenon
  <2>1. FinishedScanned  BY Zenon DEF OneList, Records, ScannedBut, FinishedScanned
  <2>2. FetchedBeforeScan  BY Zenon DEF FetchInv, FetchedBeforeScan
  <2>3. OnceFinished
    <3> SUFFICES ASSUME NEW r \in Reqs, pc[r] = "IndexFinished" PROVE ~FinishedBefore(mf[r], Vscnrs(r))
      BY Zenon DEF OnceFinished
    <3>1. Unscanned(mf[r])  BY Zenon DEF OneList, FreshInv, Past, At
    <3>2. Vscnrs(r) \subseteq Scanners  BY Zenon, VscnrsTyped DEF OneList, Records, Base
    <3> QED  BY <3>1, <3>2 DEF Unscanned, FinishedBefore
  <2> QED  BY Zenon, <2>1, <2>2, <2>3 DEF Consistent
<1> QED  BY <1>1, <1>2, <1>3, IndexerTyped, PTL DEF Spec, LocksKept, NeverDeleted

-----------------------------------------------------------------------------
(* A request past its lock holds it, or has lost it.                       *)
HeldOrLost(r) == At(r) \notin Out => lock[mf[r]] = r \/ r \in lost

HoldersInv == \A r \in Reqs : HeldOrLost(r)

(* A lock of the manifest has been lost.                                   *)
Lost(m) == \E o \in lost : mf[o] = m

(* A request past checkManifest has a scanner the manifest is not recorded *)
(* for.                                                                    *)
MissingInv ==
  \A r \in Reqs : At(r) \in Past \union Filtering =>
    ~ManifestScanned(mf[r], AllScanners(r)) \/ Lost(mf[r])

(* A lost lock stays on record.                                            *)
LEMMA LostGrows == ASSUME [Next]_vars PROVE lost \subseteq lost'
<1>1. ASSUME NEW r \in Reqs, ReqStep(r) PROVE lost' = lost  BY Zenon, <1>1, ReqEffects DEF Effects, EnvKept
<1>2. ASSUME NEW r \in Reqs, ContextEnds(r) \/ LockLost(r) \/ LostNoticed(r) PROVE lost \subseteq lost'
  BY Zenon, <1>2 DEF ContextEnds, LockLost, LostNoticed
<1>3. ASSUME NEW p \in Procs, Crash(p) PROVE lost' = lost  BY Zenon, <1>3 DEF Crash
<1>4. ASSUME NEW m \in Manifests, Delete(m) PROVE lost' = lost  BY Zenon, <1>4 DEF Delete
<1>5. CASE Cleanup \/ CleanupError  BY Zenon, <1>5 DEF Cleanup, CleanupError
<1>6. CASE UNCHANGED vars  BY Zenon, <1>6 DEF vars, env
<1> QED  BY Zenon, <1>1, <1>2, <1>3, <1>4, <1>5, <1>6, NextCases

(* A lock goes to another request only after it was given up or lost.      *)
LEMMA HoldersStep ==
  ASSUME Types, TaskInv, HoldersInv, [Next]_vars
  PROVE  HoldersInv'
<1> SUFFICES ASSUME NEW q \in Reqs, At(q)' \notin Out PROVE lock'[mf[q]] = q \/ q \in lost'
  BY Zenon DEF HoldersInv, HeldOrLost, Out
<1>1. CASE LockLost(q)  BY Zenon, <1>1 DEF LockLost
<1>2. CASE q \in lost  BY Zenon, <1>2, LostGrows
<1>3. CASE ~LockLost(q) /\ q \notin lost
  <2>1. At(q) \notin Out => lock[mf[q]] = q  BY Zenon, <1>3 DEF HoldersInv, HeldOrLost, Out
  <2> QED  BY Zenon, <1>3, <2>1, HeldOn
<1> QED  BY Zenon, <1>1, <1>2, <1>3

(* Only a request that has the lock, or has lost it, records its manifest. *)
LEMMA MissingKept ==
  ASSUME Types, HoldersInv, [Next]_vars, NEW q \in Reqs, At(q) \notin Out, ~Ends(q),
         ~Lost(mf[q])', NEW s, <<mf[q], s>> \notin scanned_manifest
  PROVE  <<mf[q], s>> \notin scanned_manifest'
<1> SUFFICES ASSUME <<mf[q], s>> \in scanned_manifest' PROVE FALSE  BY Zenon
<1>1. PICK r \in Reqs : Ends(r) /\ pc[r] = "IndexFinished" /\ <<mf[q], s>> \in {mf[r]} \X Vscnrs(r)
  BY Zenon, FinishCases
<1>2. mf[r] = mf[q] /\ At(r) \notin Out  BY Zenon, <1>1 DEF At, Out
<1>3. q \notin lost /\ r \notin lost  BY Zenon, <1>2, LostGrows DEF Lost
<1>4. lock[mf[q]] = q /\ lock[mf[r]] = r  BY Zenon, <1>2, <1>3 DEF HoldersInv, HeldOrLost, Out
<1> QED  BY Zenon, <1>1, <1>2, <1>4

(* What checkManifest found missing stays so until the request finishes.   *)
LEMMA MissingStep ==
  ASSUME Types, TaskInv, OptsInv, HoldersInv, MissingInv, [Next]_vars
  PROVE  MissingInv'
<1> SUFFICES ASSUME NEW q \in Reqs, At(q)' \in Past \union Filtering, ~Lost(mf[q])'
             PROVE  ~ManifestScanned(mf[q], AllScanners(q))'
  BY Zenon DEF MissingInv
<1>0. At(q)' \notin {"Terminal", "idle", "done", "gone"}  BY Zenon DEF Past, Filtering
<1>1. ~Ends(q)  BY Zenon, <1>0, EndsLeave
<1>2. AllScanners(q)' = AllScanners(q)  BY Zenon, <1>0, ScannersKept
<1>3. ~Lost(mf[q])  BY Zenon, LostGrows DEF Lost
<1>4. ASSUME At(q) \notin Out, ~ManifestScanned(mf[q], AllScanners(q))
      PROVE  ~ManifestScanned(mf[q], AllScanners(q))'
  <2>1. PICK s \in AllScanners(q) : <<mf[q], s>> \notin scanned_manifest  BY Zenon, <1>4 DEF ManifestScanned
  <2>2. <<mf[q], s>> \notin scanned_manifest'  BY Zenon, <1>1, <1>4, <2>1, MissingKept
  <2> QED  BY Zenon, <1>2, <2>1, <2>2 DEF ManifestScanned
<1>5. CASE Checks(q)
  <2>1. At(q) = "CheckManifest" /\ ~ManifestScanned(mf[q], Vscnrs(q))
    BY Zenon, <1>5 DEF Checks, Goes, Past, Filtering
  <2>2. ~ManifestScanned(mf[q], AllScanners(q))  BY Zenon, <2>1, VscnrsWithin DEF ManifestScanned
  <2> QED  BY Zenon, <1>4, <2>1, <2>2 DEF Out
<1>6. CASE ~Checks(q)
  <2>1. At(q) \in Past \union Filtering  BY Zenon, <1>6, PastMoves
  <2>2. At(q) \notin Out  BY Zenon, <2>1 DEF Past, Filtering, Out
  <2> QED  BY Zenon, <1>3, <1>4, <2>1, <2>2 DEF MissingInv
<1> QED  BY Zenon, <1>5, <1>6

(* The state ReportKept speaks of.                                         *)
Careful == Base /\ OptsInv /\ HoldersInv /\ MissingInv

(* A report that replaces a finished one.                                  *)
LEMMA ReplacedReport ==
  ASSUME Careful, [Next]_vars, NEW m \in Manifests, FinishedStored(m), indexreport'[m] # NoReport,
         ~FinishedStored(m)'
  PROVE  \E r \in Reqs : /\ mf[r] = m /\ pc[r] = "save"
                         /\ next[r] = "Terminal" \/ ~ManifestScanned(m, AllScanners(r)) \/ Lost(m)
<1>0. Types /\ RowInv'  BY Zenon, BaseStep DEF Careful, Base
<1>1. indexreport'[m] # indexreport[m]  BY Zenon DEF FinishedStored
<1>2. \A r \in Reqs : Finished(r).success  BY Zenon, <1>0, FinishedReports
<1>3. PICK r \in Reqs : pc[r] = "save" /\ mf[r] = m
  BY Zenon, <1>0, <1>1, <1>2, ReportCases DEF FinishedStored
<1>4. next[r] \in Nexts /\ At(r) = next[r]  BY Zenon, <1>0, <1>3 DEF Types, RunTypes, Placed, At
<1>5. next[r] # "Terminal" => At(r) \in Past \union Filtering  BY Zenon, <1>4 DEF Nexts, Past
<1> QED  BY Zenon, <1>3, <1>5 DEF Careful, MissingInv

(* A finished report is replaced by an unfinished one only by a request    *)
(* that failed, one with a scanner the manifest is not recorded for, or    *)
(* after a lock of the manifest was lost: for any processes, scanner       *)
(* lists, requests and restarts, any faults, lost answers of commits among *)
(* them, and any deletions.                                                *)
THEOREM FinishedReportKept == Spec => ReportKept
<1>1. Init => Careful
  <2> SUFFICES ASSUME Init PROVE Careful  BY Zenon
  <2>1. \A r \in Reqs : At(r) = "idle"  BY Zenon DEF Init, At
  <2>2. HoldersInv  BY Zenon, <2>1 DEF HoldersInv, HeldOrLost, Out
  <2>3. MissingInv  BY Zenon, <2>1 DEF MissingInv, Past, Filtering
  <2> QED  BY Zenon, <2>2, <2>3, RecordsInit DEF Careful, Records
<1>2. Careful /\ [Next]_vars => Careful'
  <2> SUFFICES ASSUME Careful, [Next]_vars PROVE Careful'  BY Zenon
  <2>1. Types /\ TaskInv  BY Zenon DEF Careful, Base
  <2> QED  BY Zenon, <2>1, BaseStep, OptsStep, HoldersStep, MissingStep DEF Careful
<1>3. Careful /\ [Next]_vars =>
        [\A m \in Manifests : FinishedStored(m) /\ indexreport'[m] # NoReport /\ ~FinishedStored(m)' =>
           \E r \in Reqs :
             /\ mf[r] = m /\ pc[r] = "save"
             /\ \/ next[r] = "Terminal"
                \/ ~ManifestScanned(m, AllScanners(r))
                \/ \E o \in lost : mf[o] = m]_vars
  BY Zenon, ReplacedReport DEF Lost
<1> QED  BY <1>1, <1>2, <1>3, PTL DEF Spec, ReportKept
=============================================================================
