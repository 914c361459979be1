--------------------------- MODULE IndexerSteps -----------------------------
(***************************************************************************)
(* Libindex.Index for any manifests, layers, scanners, processes and       *)
(* requests, and any faults.                                               *)
(***************************************************************************)
EXTENDS Indexer, TLAPS

Filters == [n : Nat, i : Nat, out : Seq(Scanners)]

Ctxs == {"live", "canceled", "deadline"}
Errs == {"nil", "error", "canceled", "deadline", "panic"}
GErrs == {"nil", "error", "canceled", "deadline"}

(* The states a stateFunc that was persisted goes on to.                   *)
Nexts == {"FetchLayers", "ScanLayers", "Coalesce", "IndexManifest", "IndexFinished", "Terminal"}

(* What a request has where it is.                                         *)
Placed(r) == (pc[r] = "save" => next[r] \in Nexts) /\ (pc[r] = "filter" => filter[r].i > 0)

(* The types of what a request works with.                                 *)
RunTypes ==
  /\ lock \in [Manifests -> Reqs \union {None}]
  /\ pc \in [Reqs -> PCs]
  /\ next \in [Reqs -> States \union {"Terminal"}]
  /\ err \in [Reqs -> Errs]
  /\ filter \in [Reqs -> Filters]
  /\ fetched \in [Reqs -> SUBSET Layers]
  /\ task \in [Reqs -> [Pairs -> TaskStates]]
  /\ gerr \in [Reqs -> GErrs]
  /\ \A r \in Reqs : Placed(r)

OptTypes ==
  /\ vscnrs \in [Procs -> Seq(Scanners)]
  /\ vlen \in [Procs -> Nat]
  /\ version \in [Procs -> Nat] /\ \A p \in Procs : version[p] \in 1..Len(Config[p])

EnvTypes ==
  /\ ctx \in [Reqs -> Ctxs] /\ lost \subseteq Reqs
  /\ deleter \in {"idle", "cleanup"}
  /\ faults \in 0..MaxFault /\ crashes \in 0..MaxCrash /\ deletes \in 0..MaxDelete

Types == StoreTypeOK /\ RunTypes /\ report \in [Reqs -> Reports] /\ OptTypes /\ EnvTypes

(* The state function a request is in, or goes to when its report is       *)
(* persisted.                                                              *)
At(r) == IF pc[r] = "save" THEN next[r] ELSE pc[r]

Past == {"FetchLayers", "realize", "ScanLayers", "scanning", "Coalesce", "IndexManifest", "IndexFinished"}

Filtering == {"range", "filter", "setlen", "setarray", "persist"}

(* A report that claims success is only persisted.                         *)
SuccessInv == \A r \in Reqs : report[r].success => At(r) \in {"Terminal", "done", "gone"}

TaskInv == \A r \in Reqs : At(r) # "scanning" => task[r] = NoTasks

(* Rows refer to rows that exist.                                          *)
RowInv ==
  /\ \A m \in Manifests : indexreport[m] # NoReport => m \in manifest
  /\ \A x \in scanned_manifest : x[1] \in manifest
  /\ \A m \in manifest : LayerSet(m) \subseteq layer

HoldInv == \A r \in Reqs : At(r) \notin {"idle", "lock", "done", "gone"} => lock[mf[r]] = r

Persisted(r) == At(r) \in Past \/ (At(r) = "Terminal" /\ report[r].success)

KeptInv == \A r \in Reqs : Persisted(r) => mf[r] \in manifest

IndexedInv ==
  \A r \in Reqs : /\ mf[r] \in manifest
                  /\ At(r) = "IndexFinished" \/ (At(r) = "Terminal" /\ report[r].success)
                  => {mf[r]} \X report[r].content \subseteq manifest_index

ScanInv ==
  \A r \in Reqs : At(r) = "scanning" =>
    \A t \in Pairs :
      /\ task[r][t] = "none" <=> t \notin LayerSet(mf[r]) \X LayerScanners(r)
      /\ task[r][t] = "err" => gerr[r] # "nil"
      /\ mf[r] \in manifest /\ task[r][t] \in {"marked", "ok"} => t \in scanned_layer

ScannedInv ==
  \A r \in Reqs : mf[r] \in manifest /\ At(r) \in {"Coalesce", "IndexManifest", "IndexFinished"} =>
    LayerSet(mf[r]) \X LayerScanners(r) \subseteq scanned_layer

OptsInv ==
  /\ \A p \in Procs : SeqSet(vscnrs[p]) \subseteq SeqSet(Config[p][version[p]])
  /\ \A r \in Reqs : At(r) \in {"filter", "setlen", "setarray"} =>
       SeqSet(filter[r].out) \subseteq AllScanners(r)

ScannedBut == \A x \in scanned_manifest : x[2] \notin Broken =>
   \A l \in LayerSet(x[1]) : <<l, x[2]>> \in scanned_layer

Unscanned(m) == \A s \in Scanners : <<m, s>> \notin scanned_manifest
Scanned(m) == \A s \in Scanners : <<m, s>> \in scanned_manifest

Uniform == \A p \in Procs : \A v \in 1..Len(Config[p]) : SeqSet(Config[p][v]) = Scanners

(* With one set of scanners everywhere nothing is filtered out: the list a *)
(* request stores is the one it read.                                      *)
LoopOK(q) ==
  LET f == filter[q]
      v == vscnrs[proc[q]]
  IN /\ At(q) = "filter" => /\ f.n = Len(v) /\ f.i \in 1..(Len(v) + 1) /\ Len(f.out) = f.i - 1
                            /\ \A k \in 1..(f.i - 1) : f.out[k] = v[k]
     /\ At(q) \in {"setlen", "setarray"} => f.out = v

FullInv ==
  /\ \A p \in Procs : vscnrs[p] = Config[p][version[p]] /\ vlen[p] = Len(vscnrs[p])
  /\ \A r \in Reqs : LoopOK(r)

AllOrNone == \A m \in Manifests : Scanned(m) \/ Unscanned(m)

FreshInv == \A r \in Reqs : At(r) \in Past \union Filtering => Unscanned(mf[r])

FetchInv ==
  \A r \in Reqs :
    /\ At(r) \in {"realize", "ScanLayers", "scanning"} =>
         \A t \in LayerSet(mf[r]) \X Scanners : t \in scanned_layer \/ t[1] \in fetched[r]
    /\ \A t \in Pairs : task[r][t] = "scan" => t[1] \in fetched[r]

-----------------------------------------------------------------------------
(* A step of another request leaves all but the report of q alone, or all. *)
SameRun(q) ==
  /\ pc'[q] = pc[q] /\ next'[q] = next[q] /\ filter'[q] = filter[q]
  /\ fetched'[q] = fetched[q] /\ task'[q] = task[q] /\ gerr'[q] = gerr[q]

Same(q) == SameRun(q) /\ report'[q] = report[q]

(* The request is over.                                                    *)
Ended(q) == pc'[q] \in {"done", "gone"} /\ task'[q] = NoTasks

(* The report is to be persisted, and state a comes next.                  *)
OnTo(q, a) ==
  pc'[q] = "save" /\ next'[q] = a /\ task'[q] = NoTasks /\ fetched'[q] = fetched[q]

(* The fields of the filter loop of checkManifest.                         *)
LEMMA FilterFields ==
  ASSUME NEW f \in Filters
  PROVE  f.out \in Seq(Scanners) /\ f.i \in Nat
BY Zenon DEF Filters

(* What a list of scanners has in it is a scanner.                         *)
LEMMA Element ==
  ASSUME NEW s \in Seq(Scanners), NEW i \in 1..Len(s)
  PROVE  s[i] \in Scanners /\ Len(s) \in Nat
OBVIOUS

(* The values a request starts from are of their types.                    *)
LEMMA Empty == NoFilter \in Filters /\ NoTasks \in [Pairs -> TaskStates] /\ NewReport \in Reports
<1>1. <<>> \in Seq(Scanners)  OBVIOUS
<1>2. NoFilter \in Filters  BY Zenon, <1>1 DEF NoFilter, Filters
<1>3. NoTasks \in [Pairs -> TaskStates]  BY Zenon DEF NoTasks, TaskStates
<1>4. NewReport \in Reports  BY Zenon DEF NewReport, Reports, States, Contents
<1> QED  BY Zenon, <1>2, <1>3, <1>4

(* Index returns.                                                          *)
LEMMA LeaveStep ==
  ASSUME RunTypes, NEW r \in Reqs, NEW e \in Errs, Leave(r, e)
  PROVE  RunTypes' /\ Ended(r) /\ \A q \in Reqs \ {r} : SameRun(q)
<1>1. /\ pc' = [pc EXCEPT ![r] = "done"]
      /\ err' = [err EXCEPT ![r] = e]
      /\ lock' = [lock EXCEPT ![mf[r]] = IF lock[mf[r]] = r THEN None ELSE lock[mf[r]]]
      /\ next' = [next EXCEPT ![r] = ""]
      /\ filter' = [filter EXCEPT ![r] = NoFilter]
      /\ fetched' = [fetched EXCEPT ![r] = {}]
      /\ task' = [task EXCEPT ![r] = NoTasks]
      /\ gerr' = [gerr EXCEPT ![r] = "nil"]
  BY Zenon DEF Leave
<1>2. mf[r] \in Manifests  BY Zenon, IndexerAssumption
<1>3. lock' \in [Manifests -> Reqs \union {None}]  BY Zenon, <1>1, <1>2 DEF RunTypes
<1>4. pc' \in [Reqs -> PCs] /\ next' \in [Reqs -> States \union {"Terminal"}] /\ err' \in [Reqs -> Errs]
  BY Zenon, <1>1 DEF RunTypes, PCs, States
<1>5. filter' \in [Reqs -> Filters] /\ task' \in [Reqs -> [Pairs -> TaskStates]]
  BY Zenon, <1>1, Empty DEF RunTypes
<1>6. fetched' \in [Reqs -> SUBSET Layers] /\ gerr' \in [Reqs -> GErrs]
  BY Zenon, <1>1 DEF RunTypes, GErrs
<1>7. Ended(r) /\ pc'[r] = "done"  BY Zenon, <1>1 DEF RunTypes, Ended
<1>8. ASSUME NEW q \in Reqs \ {r} PROVE SameRun(q)
  BY Zenon, <1>1 DEF RunTypes, SameRun
<1>9. \A q \in Reqs : Placed(q)'
  BY Zenon, <1>7, <1>8 DEF RunTypes, Placed, SameRun
<1>10. RunTypes'  BY Zenon, <1>3, <1>4, <1>5, <1>6, <1>9 DEF RunTypes
<1> QED  BY Zenon, <1>7, <1>8, <1>10

(* A state function is done.                                               *)
LEMMA ProceedStep ==
  ASSUME Types, NEW r \in Reqs, NEW a \in Nexts, Proceed(r, a)
  PROVE  RunTypes' /\ (Ended(r) \/ OnTo(r, a)) /\ \A q \in Reqs \ {r} : SameRun(q)
<1>1. CASE Dead(r) /\ Leave(r, ctx[r])
  <2>0. RunTypes /\ ctx \in [Reqs -> Ctxs]  BY Zenon DEF Types, EnvTypes
  <2>1. ctx[r] \in Errs  BY Zenon, <1>1 DEF Errs, Dead
  <2> QED  BY Zenon, <1>1, <2>0, <2>1, LeaveStep
<1>2. CASE ~Dead(r) /\ ~(Dead(r) /\ Leave(r, ctx[r]))
  <2>1. /\ pc' = [pc EXCEPT ![r] = "save"]
        /\ next' = [next EXCEPT ![r] = a]
        /\ filter' = [filter EXCEPT ![r] = NoFilter]
        /\ task' = [task EXCEPT ![r] = NoTasks]
        /\ UNCHANGED <<err, lock, fetched, gerr>>
    BY Zenon, <1>2 DEF Proceed
  <2>0. RunTypes  BY Zenon DEF Types
  <2>2. pc' \in [Reqs -> PCs] /\ next' \in [Reqs -> States \union {"Terminal"}]
    BY Zenon, <2>0, <2>1 DEF RunTypes, PCs, States, Nexts
  <2>3. filter' \in [Reqs -> Filters] /\ task' \in [Reqs -> [Pairs -> TaskStates]]
    BY Zenon, <2>0, <2>1, Empty DEF RunTypes
  <2>4. OnTo(r, a)  BY Zenon, <2>0, <2>1 DEF RunTypes, OnTo
  <2>5. ASSUME NEW q \in Reqs \ {r} PROVE SameRun(q)
    BY Zenon, <2>0, <2>1 DEF RunTypes, SameRun
  <2>6. \A q \in Reqs : Placed(q)'
    BY Zenon, <2>0, <2>4, <2>5 DEF RunTypes, Placed, SameRun, OnTo
  <2> QED  BY Zenon, <2>0, <2>1, <2>2, <2>3, <2>4, <2>5, <2>6 DEF RunTypes
<1> QED  BY Zenon, <1>1, <1>2 DEF Proceed

(* A state function gives up: the report is not a success, but for the one *)
(* indexFinished has already changed when its deadline passes.             *)
LEMMA GiveStep ==
  ASSUME Types, NEW r \in Reqs, NEW e \in {"error", "canceled", "deadline"}, NEW rep \in Reports,
         Give(r, e, rep)
  PROVE  /\ RunTypes' /\ report' \in [Reqs -> Reports]
         /\ \/ Ended(r)
            \/ OnTo(r, "Terminal") /\ (~report'[r].success \/ report'[r] = rep)
         /\ \A q \in Reqs \ {r} : Same(q)
<1>0. RunTypes /\ report \in [Reqs -> Reports]  BY Zenon DEF Types
<1>1. CASE e = "canceled" /\ Leave(r, e) /\ report' = [report EXCEPT ![r] = rep]
  <2>1. RunTypes' /\ Ended(r) /\ \A q \in Reqs \ {r} : SameRun(q)
    <3>1. e \in Errs  BY Zenon DEF Errs
    <3> QED  BY Zenon, <1>0, <1>1, <3>1, LeaveStep
  <2>2. report' \in [Reqs -> Reports] /\ \A q \in Reqs \ {r} : report'[q] = report[q]
    BY Zenon, <1>0, <1>1
  <2> QED  BY Zenon, <2>1, <2>2 DEF Same
<1>2. CASE e # "canceled"
  <2> DEFINE new == IF e = "deadline" THEN rep
                    ELSE [rep EXCEPT !.state = "IndexError", !.success = FALSE, !.err = TRUE]
             e2 == IF e = "deadline" THEN "nil" ELSE e
  <2>1. /\ pc' = [pc EXCEPT ![r] = "save"]
        /\ next' = [next EXCEPT ![r] = "Terminal"]
        /\ err' = [err EXCEPT ![r] = e2]
        /\ report' = [report EXCEPT ![r] = new]
        /\ filter' = [filter EXCEPT ![r] = NoFilter]
        /\ task' = [task EXCEPT ![r] = NoTasks]
        /\ gerr' = [gerr EXCEPT ![r] = "nil"]
        /\ UNCHANGED <<lock, fetched>>
    BY Zenon, <1>2 DEF Give
  <2>2. new \in Reports /\ (~new.success \/ new = rep)  BY Zenon DEF Reports, States
  <2>3. e2 \in Errs  BY Zenon DEF Errs
  <2> HIDE DEF new, e2
  <2>4. pc' \in [Reqs -> PCs] /\ next' \in [Reqs -> States \union {"Terminal"}] /\ err' \in [Reqs -> Errs]
    BY Zenon, <1>0, <2>1, <2>3 DEF RunTypes, PCs
  <2>5. filter' \in [Reqs -> Filters] /\ task' \in [Reqs -> [Pairs -> TaskStates]]
        /\ gerr' \in [Reqs -> GErrs]
    BY Zenon, <1>0, <2>1, Empty DEF RunTypes, GErrs
  <2>6. report' \in [Reqs -> Reports] /\ report'[r] = new  BY Zenon, <1>0, <2>1, <2>2
  <2>7. OnTo(r, "Terminal")  BY Zenon, <1>0, <2>1 DEF RunTypes, OnTo
  <2>8. ASSUME NEW q \in Reqs \ {r} PROVE Same(q)
    BY Zenon, <1>0, <2>1 DEF RunTypes, Same, SameRun
  <2>9. \A q \in Reqs : Placed(q)'
    BY Zenon, <1>0, <2>7, <2>8 DEF RunTypes, Placed, Same, SameRun, OnTo, Nexts
  <2>10. RunTypes'  BY Zenon, <1>0, <2>1, <2>4, <2>5, <2>9 DEF RunTypes
  <2> QED  BY Zenon, <2>2, <2>6, <2>7, <2>8, <2>10
<1> QED  BY Zenon, <1>1, <1>2 DEF Give

(* A step within a state function.                                         *)
LEMMA GoesStep ==
  ASSUME Types, NEW r \in Reqs,
         pc' \in [Reqs -> PCs], filter' \in [Reqs -> Filters], fetched' \in [Reqs -> SUBSET Layers],
         task' \in [Reqs -> [Pairs -> TaskStates]], gerr' \in [Reqs -> GErrs],
         lock' \in [Manifests -> Reqs \union {None}], UNCHANGED <<next, err, report>>,
         pc'[r] # "save", pc'[r] = "filter" => filter'[r].i > 0,
         \A q \in Reqs \ {r} : /\ pc'[q] = pc[q] /\ filter'[q] = filter[q] /\ fetched'[q] = fetched[q]
                               /\ task'[q] = task[q] /\ gerr'[q] = gerr[q]
  PROVE  RunTypes' /\ report' \in [Reqs -> Reports] /\ \A q \in Reqs \ {r} : Same(q)
<1>0. RunTypes /\ report \in [Reqs -> Reports]  BY Zenon DEF Types
<1>1. ASSUME NEW q \in Reqs \ {r} PROVE Same(q)  BY Zenon DEF Same, SameRun
<1>2. \A q \in Reqs : Placed(q)'
  BY Zenon, <1>0, <1>1 DEF RunTypes, Placed, Same, SameRun
<1>3. RunTypes'  BY Zenon, <1>0, <1>2 DEF RunTypes
<1> QED  BY Zenon, <1>0, <1>1, <1>3

-----------------------------------------------------------------------------
(* What a step of the system is to request q: q takes the step itself, or  *)
(* stays where it is.                                                      *)
Stay(q) ==
  /\ At(q)' = At(q) /\ filter'[q] = filter[q] /\ fetched'[q] = fetched[q]
  /\ task'[q] = task[q] /\ gerr'[q] = gerr[q]
  /\ report'[q].success = report[q].success /\ report'[q].content = report[q].content

Goes(q, a, b) ==
  /\ At(q) = a /\ At(q)' = b /\ report'[q] = report[q] /\ task'[q] = task[q]

Turns(q, a, b) ==
  /\ At(q) = a /\ At(q)' = b /\ task'[q] = NoTasks /\ fetched'[q] = fetched[q]

Locks(q) ==
  Goes(q, "lock", "CheckManifest") /\ lock[mf[q]] = None /\ lock'[mf[q]] = q

Checks(q) ==
  /\ Goes(q, "CheckManifest", IF ManifestScanned(mf[q], Vscnrs(q)) THEN "existing" ELSE "range")
  /\ ~HasNil(q) /\ UNCHANGED db

Filtered(q) ==
  /\ UNCHANGED db
  /\ \/ Range(q) /\ Goes(q, "range", "filter")
        /\ filter'[q] = [n |-> vlen[proc[q]], i |-> 1, out |-> <<>>]
     \/ Filter(q) /\ Goes(q, "filter", "filter")
     \/ SetVscnrs(q) /\ Goes(q, "filter", "setlen") /\ filter'[q] = filter[q]
     \/ SetVscnrs(q) /\ Goes(q, "filter", "setarray") /\ filter'[q] = filter[q]
     \/ SetRest(q) /\ Goes(q, "setlen", "persist")
     \/ SetRest(q) /\ Goes(q, "setarray", "persist")

Persists(q) ==
  Turns(q, "persist", "FetchLayers") /\ report'[q] = report[q] /\ PersistManifest(mf[q])

Finds(q) ==
  /\ Turns(q, "existing", "Terminal") /\ UNCHANGED db
  /\ indexreport[mf[q]] # NoReport /\ report'[q] = indexreport[mf[q]]

Fails(q) ==
  /\ At(q) \in {"CheckManifest", "existing"} \union Filtering \union Past
  /\ Turns(q, At(q), "Terminal")
  /\ \/ ~report'[q].success \/ report'[q] = report[q]
     \/ At(q) = "IndexFinished" /\ report'[q] = Finished(q)

Reduces(q) ==
  /\ Goes(q, "FetchLayers", "realize") /\ UNCHANGED <<db, env>>
  /\ fetched'[q] = Reduce(mf[q], Vscnrs(q))

Realizes(q) == Turns(q, "realize", "ScanLayers") /\ report'[q] = report[q] /\ UNCHANGED db

Starts(q) ==
  /\ At(q) = "ScanLayers" /\ At(q)' = "scanning" /\ UNCHANGED db
  /\ report'[q] = report[q] /\ fetched'[q] = fetched[q]
  /\ task'[q] = [t \in Pairs |-> IF t \in LayerSet(mf[q]) \X LayerScanners(q) THEN "todo" ELSE "none"]

Works(q) ==
  /\ At(q) = "scanning" /\ At(q)' = "scanning"
  /\ report'[q] = report[q] /\ fetched'[q] = fetched[q]
  /\ \E t \in Pairs :
       /\ \A u \in Pairs \ {t} : task'[q][u] = task[q][u]
       /\ ScanLayer(q, t) \/ MarkOffline(q, t)

Joins(q) ==
  /\ Turns(q, "scanning", "Coalesce") /\ report'[q] = report[q] /\ UNCHANGED db
  /\ gerr[q] = "nil" /\ \A t \in Pairs : task[q][t] \in {"none", "ok", "err"}

Merges(q) ==
  /\ Turns(q, "Coalesce", "IndexManifest") /\ UNCHANGED db
  /\ report'[q].success = report[q].success

Indexes(q) ==
  /\ Turns(q, "IndexManifest", "IndexFinished") /\ report'[q] = report[q]
  /\ IndexManifest(mf[q], report[q].content)

Finishes(q) ==
  /\ Turns(q, "IndexFinished", "Terminal") /\ report'[q] = Finished(q) /\ ~HasNil(q)
  /\ SetIndexFinished(mf[q], Vscnrs(q), Finished(q))

Move(q) ==
  \/ Stay(q) \/ Ended(q) \/ Goes(q, "idle", "lock") \/ Locks(q) \/ Checks(q) \/ Filtered(q)
  \/ Persists(q) \/ Finds(q) \/ Fails(q) \/ Reduces(q) \/ Realizes(q) \/ Starts(q) \/ Works(q)
  \/ Joins(q) \/ Merges(q) \/ Indexes(q) \/ Finishes(q)

(* The request takes a step of its own.                                    *)
Moves(r) ==
  /\ RunTypes' /\ report' \in [Reqs -> Reports]
  /\ Move(r) /\ \A q \in Reqs \ {r} : Same(q)

(* A request that a step does not touch stays where it is.                 *)
LEMMA SameStays == ASSUME NEW q \in Reqs, Same(q) PROVE Stay(q)
  BY Zenon DEF Same, SameRun, Stay, At

(* The controller goes on to the next state function.                      *)
LEMMA Turning ==
  ASSUME NEW r \in Reqs, NEW b \in Nexts, OnTo(r, b), pc[r] # "save"
  PROVE  Turns(r, pc[r], b)
  BY Zenon DEF OnTo, Turns, At

(* Steps that only change where the request is and its filter, files and   *)
(* tasks.                                                                  *)
LEMMA PcStep ==
  ASSUME Types, NEW r \in Reqs, NEW a \in PCs, a \notin {"save", "filter"}, pc' = [pc EXCEPT ![r] = a],
         UNCHANGED <<next, err, report, filter, fetched, task, gerr>>,
         lock' \in [Manifests -> Reqs \union {None}]
  PROVE  RunTypes' /\ report' \in [Reqs -> Reports] /\ pc'[r] = a /\ \A q \in Reqs \ {r} : Same(q)
<1>1. pc' \in [Reqs -> PCs] /\ pc'[r] = a /\ \A q \in Reqs \ {r} : pc'[q] = pc[q]
  BY Zenon DEF Types, RunTypes
<1>2. /\ filter' \in [Reqs -> Filters] /\ fetched' \in [Reqs -> SUBSET Layers]
      /\ task' \in [Reqs -> [Pairs -> TaskStates]] /\ gerr' \in [Reqs -> GErrs]
  BY Zenon DEF Types, RunTypes
<1> QED  BY Zenon, <1>1, <1>2, GoesStep

(* Index takes a request to the manifest's lock.                           *)
LEMMA IndexMoves == ASSUME Types, NEW r \in Reqs, Index(r) PROVE Moves(r)
<1>1. /\ pc' = [pc EXCEPT ![r] = "lock"] /\ pc[r] = "idle"
      /\ UNCHANGED <<next, err, report, filter, fetched, task, gerr, lock>>
  BY Zenon DEF Index
<1>2. "lock" \in PCs /\ lock' \in [Manifests -> Reqs \union {None}]  BY Zenon, <1>1 DEF PCs, Types, RunTypes
<1>3. /\ RunTypes' /\ report' \in [Reqs -> Reports]
      /\ pc'[r] = "lock" /\ \A q \in Reqs \ {r} : Same(q)
  BY <1>1, <1>2, PcStep, Zenon
<1>4. Goes(r, "idle", "lock")  BY Zenon, <1>1, <1>3 DEF Goes, At
<1> QED  BY Zenon, <1>3, <1>4 DEF Moves, Move

(* From the lock a request goes on, or Index returns its error.            *)
LEMMA LockMoves == ASSUME Types, NEW r \in Reqs, Lock(r) PROVE Moves(r)
<1>0. mf[r] \in Manifests /\ lock \in [Manifests -> Reqs \union {None}]
  BY Zenon, IndexerAssumption DEF Types, RunTypes
<1>1. /\ pc' = [pc EXCEPT ![r] = "CheckManifest"] /\ pc[r] = "lock" /\ lock[mf[r]] = None
      /\ lock' = [lock EXCEPT ![mf[r]] = r]
      /\ UNCHANGED <<next, err, report, filter, fetched, task, gerr>>
  BY Zenon DEF Lock
<1>2. "CheckManifest" \in PCs  BY Zenon DEF PCs
<1>3. lock' \in [Manifests -> Reqs \union {None}] /\ lock'[mf[r]] = r  BY Zenon, <1>0, <1>1
<1>4. /\ RunTypes' /\ report' \in [Reqs -> Reports]
      /\ pc'[r] = "CheckManifest" /\ \A q \in Reqs \ {r} : Same(q)
  BY <1>1, <1>2, <1>3, PcStep, Zenon
<1>5. Locks(r)  BY Zenon, <1>1, <1>3, <1>4 DEF Locks, Goes, At
<1> QED  BY Zenon, <1>4, <1>5 DEF Moves, Move

(* checkManifest persists, or finds that the manifest was seen.            *)
LEMMA CheckMoves == ASSUME Types, NEW r \in Reqs, CheckManifest(r) PROVE Moves(r)
<1> DEFINE a == IF ManifestScanned(mf[r], Vscnrs(r)) THEN "existing" ELSE "range"
<1>1. /\ pc' = [pc EXCEPT ![r] = a] /\ pc[r] = "CheckManifest" /\ ~HasNil(r)
      /\ UNCHANGED <<next, err, report, filter, fetched, task, gerr, lock>> /\ UNCHANGED db
  BY Zenon DEF CheckManifest
<1>2. a \in PCs /\ a \notin {"save", "filter"}  BY Zenon DEF PCs
<1>3. lock' \in [Manifests -> Reqs \union {None}]  BY Zenon, <1>1 DEF Types, RunTypes
<1>4. /\ RunTypes' /\ report' \in [Reqs -> Reports]
      /\ pc'[r] = a /\ \A q \in Reqs \ {r} : Same(q)
  <2> HIDE DEF a
  <2> QED  BY <1>1, <1>2, <1>3, PcStep, Zenon
<1>5. Checks(r)  BY Zenon, <1>1, <1>2, <1>4 DEF Checks, Goes, At
<1> QED  BY Zenon, <1>4, <1>5 DEF Moves, Move

(* The loop over vscnrs starts with the length it has then.                *)
LEMMA RangeMoves == ASSUME Types, NEW r \in Reqs, Range(r) PROVE Moves(r)
<1> DEFINE f == [n |-> vlen[proc[r]], i |-> 1, out |-> <<>>]
<1>1. /\ pc' = [pc EXCEPT ![r] = "filter"] /\ pc[r] = "range"
      /\ filter' = [filter EXCEPT ![r] = f]
      /\ UNCHANGED <<next, err, report, fetched, task, gerr, lock>> /\ UNCHANGED db
  BY Zenon DEF Range
<1>2. f \in Filters /\ f.i > 0
  <2>1. vlen[proc[r]] \in Nat  BY Zenon, IndexerAssumption DEF Types, OptTypes
  <2>2. <<>> \in Seq(Scanners)  OBVIOUS
  <2> QED  BY <2>1, <2>2 DEF Filters
<1> HIDE DEF f
<1>3. pc' \in [Reqs -> PCs] /\ pc'[r] = "filter" /\ \A q \in Reqs \ {r} : pc'[q] = pc[q]
  BY Zenon, <1>1 DEF Types, RunTypes, PCs
<1>4. filter' \in [Reqs -> Filters] /\ filter'[r] = f /\ \A q \in Reqs \ {r} : filter'[q] = filter[q]
  BY Zenon, <1>1, <1>2 DEF Types, RunTypes
<1>5. /\ fetched' \in [Reqs -> SUBSET Layers] /\ lock' \in [Manifests -> Reqs \union {None}]
      /\ task' \in [Reqs -> [Pairs -> TaskStates]] /\ gerr' \in [Reqs -> GErrs]
  BY Zenon, <1>1 DEF Types, RunTypes
<1>6. RunTypes' /\ report' \in [Reqs -> Reports] /\ \A q \in Reqs \ {r} : Same(q)
  BY Zenon, <1>1, <1>2, <1>3, <1>4, <1>5, GoesStep
<1>7. Filtered(r)  BY Zenon, <1>1, <1>3, <1>4 DEF Filtered, Goes, At, f
<1> QED  BY Zenon, <1>6, <1>7 DEF Moves, Move

(* One iteration of the loop, or its end.                                  *)
LEMMA FilterMoves == ASSUME Types, NEW r \in Reqs, Filter(r) PROVE Moves(r)
<1> DEFINE f == filter[r]
           v == vscnrs[proc[r]]
           o == IF ManifestScanned(mf[r], {v[f.i]}) THEN f.out ELSE Append(f.out, v[f.i])
           k == f.i + 1
           g == [f EXCEPT !.i = k, !.out = o]
<1>1. /\ pc[r] = "filter" /\ f.i <= f.n /\ f.i <= Len(v)
      /\ filter' = [filter EXCEPT ![r] = g]
      /\ UNCHANGED <<pc, next, err, report, fetched, task, gerr, lock>> /\ UNCHANGED db
  BY Zenon DEF Filter
<1>2. g \in Filters /\ g.i > 0
  <2>1. f \in Filters /\ v \in Seq(Scanners) /\ f.i > 0
    <3>1. filter \in [Reqs -> Filters] /\ vscnrs \in [Procs -> Seq(Scanners)]
      BY Zenon DEF Types, RunTypes, OptTypes
    <3>2. f.i > 0  BY Zenon, <1>1 DEF Types, RunTypes, Placed
    <3> QED  BY Zenon, <3>1, <3>2, IndexerAssumption
  <2>2. f.i \in Nat /\ f.n \in Nat /\ f.out \in Seq(Scanners)  BY Zenon, <2>1 DEF Filters
  <2>3. v[f.i] \in Scanners  BY <1>1, <2>1, <2>2
  <2>4. o \in Seq(Scanners)  BY <2>2, <2>3
  <2> HIDE DEF o, f
  <2>5. k \in Nat /\ k > 0  BY <2>2
  <2> HIDE DEF k
  <2>6. g \in Filters /\ g.i = k  BY <2>1, <2>4, <2>5, Zenon DEF Filters
  <2> QED  BY Zenon, <2>5, <2>6
<1> HIDE DEF g
<1>3. pc' \in [Reqs -> PCs] /\ pc'[r] = "filter" /\ \A q \in Reqs \ {r} : pc'[q] = pc[q]
  BY Zenon, <1>1 DEF Types, RunTypes
<1>4. filter' \in [Reqs -> Filters] /\ filter'[r] = g /\ \A q \in Reqs \ {r} : filter'[q] = filter[q]
  BY Zenon, <1>1, <1>2 DEF Types, RunTypes
<1>5. /\ fetched' \in [Reqs -> SUBSET Layers] /\ lock' \in [Manifests -> Reqs \union {None}]
      /\ task' \in [Reqs -> [Pairs -> TaskStates]] /\ gerr' \in [Reqs -> GErrs]
  BY Zenon, <1>1 DEF Types, RunTypes
<1>6. RunTypes' /\ report' \in [Reqs -> Reports] /\ \A q \in Reqs \ {r} : Same(q)
  BY Zenon, <1>1, <1>2, <1>3, <1>4, <1>5, GoesStep
<1>7. Filtered(r)  BY Zenon, <1>1, <1>3 DEF Filtered, Goes, At
<1> QED  BY Zenon, <1>6, <1>7 DEF Moves, Move

(* The assignment to the shared Vscnrs is one step of its request.         *)
LEMMA SetVscnrsMoves == ASSUME Types, NEW r \in Reqs, SetVscnrs(r) PROVE Moves(r)
<1>1. PICK a \in {"setlen", "setarray"} :
         /\ pc' = [pc EXCEPT ![r] = a] /\ pc[r] = "filter"
         /\ UNCHANGED <<next, err, report, filter, fetched, task, gerr, lock>> /\ UNCHANGED db
  BY Zenon DEF SetVscnrs
<1>2. a \in PCs /\ a \notin {"save", "filter"}  BY Zenon DEF PCs
<1>3. lock' \in [Manifests -> Reqs \union {None}]  BY Zenon, <1>1 DEF Types, RunTypes
<1>4. /\ RunTypes' /\ report' \in [Reqs -> Reports]
      /\ pc'[r] = a /\ \A q \in Reqs \ {r} : Same(q)
  BY <1>1, <1>2, <1>3, PcStep, Zenon
<1>5. Goes(r, "filter", a)  BY Zenon, <1>1, <1>2, <1>4 DEF Goes, At
<1>6. Filtered(r)  BY <1>1, <1>5, Zenon DEF Filtered
<1> QED  BY Zenon, <1>4, <1>6 DEF Moves, Move

(* The assignments after it, up to the rows that are persisted.            *)
LEMMA SetRestMoves == ASSUME Types, NEW r \in Reqs, SetRest(r) PROVE Moves(r)
<1>1. PICK a \in {"setlen", "setarray"} :
         /\ pc' = [pc EXCEPT ![r] = "persist"] /\ pc[r] = a
         /\ UNCHANGED <<next, err, report, filter, fetched, task, gerr, lock>> /\ UNCHANGED db
  BY Zenon DEF SetRest
<1>2. "persist" \in PCs  BY Zenon DEF PCs
<1>3. lock' \in [Manifests -> Reqs \union {None}]  BY Zenon, <1>1 DEF Types, RunTypes
<1>4. /\ RunTypes' /\ report' \in [Reqs -> Reports]
      /\ pc'[r] = "persist" /\ \A q \in Reqs \ {r} : Same(q)
  BY <1>1, <1>2, <1>3, PcStep, Zenon
<1>5. Goes(r, a, "persist")  BY Zenon, <1>1, <1>4 DEF Goes, At
<1>6. Filtered(r)  BY <1>1, <1>5, Zenon DEF Filtered
<1> QED  BY Zenon, <1>4, <1>6 DEF Moves, Move

(* fetchLayers realizes the layers, or fails.                              *)
LEMMA FetchMoves == ASSUME Types, NEW r \in Reqs, FetchLayers(r) PROVE Moves(r)
<1> DEFINE g == Reduce(mf[r], Vscnrs(r))
<1>1. /\ pc' = [pc EXCEPT ![r] = "realize"] /\ pc[r] = "FetchLayers"
      /\ fetched' = [fetched EXCEPT ![r] = g]
      /\ UNCHANGED <<next, err, report, filter, task, gerr, lock>> /\ UNCHANGED <<db, env>>
  BY Zenon DEF FetchLayers
<1>2. g \in SUBSET Layers
  <2>1. layersOf[mf[r]] \in Seq(Layers)  BY Zenon, IndexerAssumption, IndexerStoreAssumption
  <2>2. LayerSet(mf[r]) \subseteq Layers  BY <2>1 DEF LayerSet
  <2> QED  BY Zenon, <2>2 DEF Reduce
<1> HIDE DEF g
<1>3. pc' \in [Reqs -> PCs] /\ pc'[r] = "realize" /\ \A q \in Reqs \ {r} : pc'[q] = pc[q]
  BY Zenon, <1>1 DEF Types, RunTypes, PCs
<1>4. /\ fetched' \in [Reqs -> SUBSET Layers] /\ fetched'[r] = g
      /\ \A q \in Reqs \ {r} : fetched'[q] = fetched[q]
  BY Zenon, <1>1, <1>2 DEF Types, RunTypes
<1>5. /\ filter' \in [Reqs -> Filters] /\ lock' \in [Manifests -> Reqs \union {None}]
      /\ task' \in [Reqs -> [Pairs -> TaskStates]] /\ gerr' \in [Reqs -> GErrs]
  BY Zenon, <1>1 DEF Types, RunTypes
<1>6. RunTypes' /\ report' \in [Reqs -> Reports] /\ \A q \in Reqs \ {r} : Same(q)
  BY Zenon, <1>1, <1>3, <1>4, <1>5, GoesStep
<1>7. Reduces(r)  BY <1>1, <1>3, <1>4, Zenon DEF Reduces, Goes, At, g
<1> QED  BY Zenon, <1>6, <1>7 DEF Moves, Move

(* scanLayers starts the scans, or has waited for them.                    *)
LEMMA ScanMoves == ASSUME Types, NEW r \in Reqs, Scan(r) PROVE Moves(r)
<1> DEFINE ts == [t \in Pairs |-> IF t \in LayerSet(mf[r]) \X LayerScanners(r) THEN "todo" ELSE "none"]
<1>1. /\ pc' = [pc EXCEPT ![r] = "scanning"] /\ pc[r] = "ScanLayers"
      /\ task' = [task EXCEPT ![r] = ts]
      /\ UNCHANGED <<next, err, report, filter, fetched, gerr, lock>> /\ UNCHANGED db
  BY Zenon DEF Scan
<1>2. ts \in [Pairs -> TaskStates]  BY Zenon DEF TaskStates
<1> HIDE DEF ts
<1>3. pc' \in [Reqs -> PCs] /\ pc'[r] = "scanning" /\ \A q \in Reqs \ {r} : pc'[q] = pc[q]
  BY Zenon, <1>1 DEF Types, RunTypes, PCs
<1>4. /\ task' \in [Reqs -> [Pairs -> TaskStates]] /\ task'[r] = ts
      /\ \A q \in Reqs \ {r} : task'[q] = task[q]
  BY Zenon, <1>1, <1>2 DEF Types, RunTypes
<1>5. /\ filter' \in [Reqs -> Filters] /\ lock' \in [Manifests -> Reqs \union {None}]
      /\ fetched' \in [Reqs -> SUBSET Layers] /\ gerr' \in [Reqs -> GErrs]
  BY Zenon, <1>1 DEF Types, RunTypes
<1>6. RunTypes' /\ report' \in [Reqs -> Reports] /\ \A q \in Reqs \ {r} : Same(q)
  BY Zenon, <1>1, <1>3, <1>4, <1>5, GoesStep
<1>7. Starts(r)  BY <1>1, <1>3, <1>4, Zenon DEF Starts, At, ts
<1> QED  BY Zenon, <1>6, <1>7 DEF Moves, Move

(* scanLayer's steps.                                                      *)
LEMMA TaskMoves ==
  ASSUME Types, TaskInv, NEW r \in Reqs, NEW t \in Pairs, NEW st \in TaskStates, SetTask(r, t, st),
         task[r][t] # "none", gerr' \in [Reqs -> GErrs], \A q \in Reqs \ {r} : gerr'[q] = gerr[q],
         ScanLayer(r, t) \/ MarkOffline(r, t)
  PROVE  Moves(r)
<1>1. /\ task' = [task EXCEPT ![r][t] = st]
      /\ UNCHANGED <<pc, next, err, report, filter, fetched, lock>>
  BY Zenon DEF SetTask
<1>2. At(r) = "scanning"  BY Zenon DEF TaskInv, NoTasks
<1>3. pc[r] = "scanning"
  <2>1. Placed(r)  BY Zenon DEF Types, RunTypes
  <2> QED  BY Zenon, <1>2, <2>1 DEF At, Placed, Nexts
<1>4. /\ task' \in [Reqs -> [Pairs -> TaskStates]]
      /\ \A u \in Pairs \ {t} : task'[r][u] = task[r][u]
      /\ \A q \in Reqs \ {r} : task'[q] = task[q]
  BY Zenon, <1>1 DEF Types, RunTypes
<1>5. /\ filter' \in [Reqs -> Filters] /\ lock' \in [Manifests -> Reqs \union {None}]
      /\ fetched' \in [Reqs -> SUBSET Layers] /\ pc' \in [Reqs -> PCs]
  BY Zenon, <1>1 DEF Types, RunTypes
<1>6. RunTypes' /\ report' \in [Reqs -> Reports] /\ \A q \in Reqs \ {r} : Same(q)
  BY Zenon, <1>1, <1>3, <1>4, <1>5, GoesStep
<1>7. Works(r)  BY <1>1, <1>2, <1>3, <1>4, Zenon DEF Works, At
<1> QED  BY Zenon, <1>6, <1>7 DEF Moves, Move

(* One layer's scan by one scanner moves on within scanLayers.             *)
LEMMA ScanLayerMoves ==
  ASSUME Types, TaskInv, NEW r \in Reqs, NEW t \in Pairs, ScanLayer(r, t) \/ MarkOffline(r, t)
  PROVE  Moves(r)
<1>0. gerr \in [Reqs -> GErrs]  BY Zenon DEF Types, RunTypes
<1>1. CASE CheckLayer(r, t)
  <2> DEFINE st == IF LayerScanned(t[1], t[2]) THEN "ok" ELSE "scan"
  <2>1. SetTask(r, t, st) /\ task[r][t] # "none" /\ gerr' = gerr  BY Zenon, <1>1 DEF CheckLayer
  <2>2. st \in TaskStates  BY Zenon DEF TaskStates
  <2> HIDE DEF st
  <2> QED  BY Zenon, <1>0, <2>1, <2>2, TaskMoves
<1>2. CASE Mark(r, t)
  <2>1. SetTask(r, t, "marked") /\ task[r][t] # "none" /\ gerr' = gerr  BY Zenon, <1>2 DEF Mark
  <2>2. "marked" \in TaskStates  BY Zenon DEF TaskStates
  <2> QED  BY Zenon, <1>0, <2>1, <2>2, TaskMoves
<1>3. CASE MarkOffline(r, t)
  <2>1. SetTask(r, t, "ok") /\ task[r][t] # "none" /\ gerr' = gerr  BY Zenon, <1>3 DEF MarkOffline
  <2>2. "ok" \in TaskStates  BY Zenon DEF TaskStates
  <2> QED  BY Zenon, <1>0, <2>1, <2>2, TaskMoves
<1>4. CASE Store(r, t)
  <2>1. SetTask(r, t, "ok") /\ task[r][t] # "none" /\ gerr' = gerr  BY Zenon, <1>4 DEF Store
  <2>2. "ok" \in TaskStates  BY Zenon DEF TaskStates
  <2> QED  BY Zenon, <1>0, <2>1, <2>2, TaskMoves
<1>5. CASE ScanLayerError(r, t)
  <2>1. PICK e \in {"error", "canceled", "deadline"} :
          gerr' = [gerr EXCEPT ![r] = IF gerr[r] = "nil" THEN e ELSE gerr[r]]
    BY Zenon, <1>5 DEF ScanLayerError
  <2>2. SetTask(r, t, "err") /\ task[r][t] # "none"  BY Zenon, <1>5 DEF ScanLayerError
  <2>3. gerr' \in [Reqs -> GErrs] /\ \A q \in Reqs \ {r} : gerr'[q] = gerr[q]
    BY Zenon, <1>0, <2>1 DEF GErrs
  <2>4. "err" \in TaskStates  BY Zenon DEF TaskStates
  <2> QED  BY Zenon, <2>2, <2>3, <2>4, TaskMoves
<1> QED  BY Zenon, <1>1, <1>2, <1>3, <1>4, <1>5 DEF ScanLayer

(* A state function returns.                                               *)
LEMMA PersistMoves == ASSUME Types, NEW r \in Reqs, Persist(r) PROVE Moves(r)
<1>1. pc[r] = "persist" /\ PersistManifest(mf[r]) /\ Proceed(r, "FetchLayers") /\ report' = report
  BY Zenon DEF Persist
<1>2. "FetchLayers" \in Nexts  BY Zenon DEF Nexts
<1>3. /\ RunTypes' /\ (Ended(r) \/ OnTo(r, "FetchLayers")) /\ \A q \in Reqs \ {r} : SameRun(q)
  BY Zenon, <1>1, <1>2, ProceedStep
<1>4. Ended(r) \/ Persists(r)  BY Zenon, <1>1, <1>2, <1>3, Turning DEF Persists
<1>5. report' \in [Reqs -> Reports] /\ \A q \in Reqs \ {r} : Same(q)  BY Zenon, <1>1, <1>3 DEF Same, Types
<1> QED  BY Zenon, <1>3, <1>4, <1>5 DEF Moves, Move

(* Realizing the files again, or its failure.                              *)
LEMMA RealizeMoves == ASSUME Types, NEW r \in Reqs, Realize(r) PROVE Moves(r)
<1>1. pc[r] = "realize" /\ Proceed(r, "ScanLayers") /\ report' = report /\ UNCHANGED db
  BY Zenon DEF Realize
<1>2. "ScanLayers" \in Nexts  BY Zenon DEF Nexts
<1>3. /\ RunTypes' /\ (Ended(r) \/ OnTo(r, "ScanLayers")) /\ \A q \in Reqs \ {r} : SameRun(q)
  BY Zenon, <1>1, <1>2, ProceedStep
<1>4. Ended(r) \/ Realizes(r)  BY Zenon, <1>1, <1>2, <1>3, Turning DEF Realizes
<1>5. report' \in [Reqs -> Reports] /\ \A q \in Reqs \ {r} : Same(q)  BY Zenon, <1>1, <1>3 DEF Same, Types
<1> QED  BY Zenon, <1>3, <1>4, <1>5 DEF Moves, Move

(* coalesce has a report or an error.                                      *)
LEMMA CoalesceMoves == ASSUME Types, NEW r \in Reqs, Coalesce(r) PROVE Moves(r)
<1> DEFINE c == report[r].content \union ArtifactsByLayer(mf[r], AllScanners(r))
           rep == [report[r] EXCEPT !.content = c]
<1>1. /\ pc[r] = "Coalesce" /\ Proceed(r, "IndexManifest") /\ UNCHANGED db
      /\ report' = [report EXCEPT ![r] = rep]
  BY Zenon DEF Coalesce
<1>2. "IndexManifest" \in Nexts  BY Zenon DEF Nexts
<1>3. /\ RunTypes' /\ (Ended(r) \/ OnTo(r, "IndexManifest")) /\ \A q \in Reqs \ {r} : SameRun(q)
  BY Zenon, <1>1, <1>2, ProceedStep
<1>4. report[r] \in Reports /\ c \in Contents
  <2>1. report[r] \in Reports /\ artifact \in Contents  BY Zenon DEF Types, StoreTypeOK
  <2> QED  BY Zenon, <2>1 DEF Reports, Contents, ArtifactsByLayer
<1> HIDE DEF c
<1>5. rep \in Reports /\ rep.success = report[r].success  BY Zenon, <1>4 DEF Reports
<1> HIDE DEF rep
<1>6. /\ report' \in [Reqs -> Reports] /\ report'[r] = rep
      /\ \A q \in Reqs \ {r} : report'[q] = report[q]
  BY Zenon, <1>1, <1>5 DEF Types
<1>7. Ended(r) \/ Merges(r)  BY Zenon, <1>1, <1>2, <1>3, <1>5, <1>6, Turning DEF Merges
<1>8. \A q \in Reqs \ {r} : Same(q)  BY Zenon, <1>3, <1>6 DEF Same
<1> QED  BY Zenon, <1>3, <1>6, <1>7, <1>8 DEF Moves, Move

(* indexManifest has stored the report's content, or failed.               *)
LEMMA IndexContentsMoves == ASSUME Types, NEW r \in Reqs, IndexContents(r) PROVE Moves(r)
<1>1. /\ pc[r] = "IndexManifest" /\ Proceed(r, "IndexFinished") /\ report' = report
      /\ IndexManifest(mf[r], report[r].content)
  BY Zenon DEF IndexContents
<1>2. "IndexFinished" \in Nexts  BY Zenon DEF Nexts
<1>3. /\ RunTypes' /\ (Ended(r) \/ OnTo(r, "IndexFinished")) /\ \A q \in Reqs \ {r} : SameRun(q)
  BY Zenon, <1>1, <1>2, ProceedStep
<1>4. Ended(r) \/ Indexes(r)  BY Zenon, <1>1, <1>2, <1>3, Turning DEF Indexes
<1>5. report' \in [Reqs -> Reports] /\ \A q \in Reqs \ {r} : Same(q)  BY Zenon, <1>1, <1>3 DEF Same, Types
<1> QED  BY Zenon, <1>3, <1>4, <1>5 DEF Moves, Move

(* The report that indexFinished stores has the coalesced content.         *)
LEMMA FinishedReports ==
  ASSUME Types, NEW r \in Reqs
  PROVE  /\ report[r] \in Reports /\ Finished(r) \in Reports
         /\ Finished(r).success /\ Finished(r).content = report[r].content
<1>1. report[r] \in Reports  BY Zenon DEF Types
<1>2. TRUE \in BOOLEAN  BY Zenon
<1> QED  BY <1>1, <1>2, Zenon DEF Finished, Reports

(* indexFinished marks the manifest and ends with success.                 *)
LEMMA FinishMoves == ASSUME Types, NEW r \in Reqs, Finish(r) PROVE Moves(r)
<1>1. /\ pc[r] = "IndexFinished" /\ ~HasNil(r) /\ Proceed(r, "Terminal")
      /\ SetIndexFinished(mf[r], Vscnrs(r), Finished(r))
      /\ report' = [report EXCEPT ![r] = Finished(r)]
  BY Zenon DEF Finish
<1>2. "Terminal" \in Nexts  BY Zenon DEF Nexts
<1>3. /\ RunTypes' /\ (Ended(r) \/ OnTo(r, "Terminal")) /\ \A q \in Reqs \ {r} : SameRun(q)
  BY Zenon, <1>1, <1>2, ProceedStep
<1>4. /\ report' \in [Reqs -> Reports] /\ report'[r] = Finished(r)
      /\ \A q \in Reqs \ {r} : report'[q] = report[q]
  BY Zenon, <1>1, FinishedReports DEF Types
<1>5. Ended(r) \/ Finishes(r)  BY Zenon, <1>1, <1>2, <1>3, <1>4, Turning DEF Finishes
<1>6. \A q \in Reqs \ {r} : Same(q)  BY Zenon, <1>3, <1>4 DEF Same
<1> QED  BY Zenon, <1>3, <1>4, <1>5, <1>6 DEF Moves, Move

(* A refused SetIndexFinished ends the request with an error.              *)
LEMMA FinishRefusedMoves == ASSUME Types, NEW r \in Reqs, FinishRefused(r) PROVE Moves(r)
<1>1. pc[r] = "IndexFinished" /\ Give(r, "error", Finished(r)) /\ UNCHANGED db
  BY Zenon DEF FinishRefused
<1>2. /\ RunTypes' /\ report' \in [Reqs -> Reports]
      /\ \/ Ended(r)
         \/ OnTo(r, "Terminal") /\ (~report'[r].success \/ report'[r] = Finished(r))
      /\ \A q \in Reqs \ {r} : Same(q)
  BY Zenon, <1>1, FinishedReports, GiveStep
<1>3. OnTo(r, "Terminal") => Turns(r, "IndexFinished", "Terminal") /\ At(r) = "IndexFinished"
  BY Zenon, <1>1, Turning DEF Nexts, Turns
<1>4. Ended(r) \/ Fails(r)  BY Zenon, <1>1, <1>2, <1>3 DEF Fails, Past
<1> QED  BY Zenon, <1>2, <1>4 DEF Moves, Move

(* manifestFinished answers with the stored report, or fails.              *)
LEMMA ExistingMoves == ASSUME Types, NEW r \in Reqs, Existing(r) PROVE Moves(r)
<1>0. pc[r] = "existing" /\ UNCHANGED db  BY Zenon DEF Existing
<1>1. CASE /\ indexreport[mf[r]] # NoReport
           /\ report' = [report EXCEPT ![r] = indexreport[mf[r]]]
           /\ Proceed(r, "Terminal")
  <2>1. "Terminal" \in Nexts  BY Zenon DEF Nexts
  <2>2. /\ RunTypes' /\ (Ended(r) \/ OnTo(r, "Terminal")) /\ \A q \in Reqs \ {r} : SameRun(q)
    BY Zenon, <1>1, <2>1, ProceedStep
  <2>3. indexreport[mf[r]] \in Reports  BY Zenon, <1>1, IndexerAssumption DEF Types, StoreTypeOK
  <2>4. /\ report' \in [Reqs -> Reports] /\ report'[r] = indexreport[mf[r]]
        /\ \A q \in Reqs \ {r} : report'[q] = report[q]
    BY Zenon, <1>1, <2>3 DEF Types
  <2>5. Ended(r) \/ Finds(r)  BY Zenon, <1>0, <1>1, <2>1, <2>2, <2>4, Turning DEF Finds
  <2>6. \A q \in Reqs \ {r} : Same(q)  BY Zenon, <2>2, <2>4 DEF Same
  <2> QED  BY Zenon, <2>2, <2>4, <2>5, <2>6 DEF Moves, Move
<1>2. CASE indexreport[mf[r]] = NoReport /\ Give(r, "error", report[r])
  <2>1. report[r] \in Reports  BY Zenon DEF Types
  <2>2. /\ RunTypes' /\ report' \in [Reqs -> Reports]
        /\ \/ Ended(r)
           \/ OnTo(r, "Terminal") /\ (~report'[r].success \/ report'[r] = report[r])
        /\ \A q \in Reqs \ {r} : Same(q)
    BY Zenon, <1>2, <2>1, GiveStep
  <2>3. OnTo(r, "Terminal") => Turns(r, "existing", "Terminal") /\ At(r) = "existing"
    BY Zenon, <1>0, Turning DEF Nexts, Turns
  <2>4. Ended(r) \/ Fails(r)  BY Zenon, <1>0, <1>2, <2>2, <2>3 DEF Fails
  <2> QED  BY Zenon, <2>2, <2>4 DEF Moves, Move
<1> QED  BY Zenon, <1>1, <1>2 DEF Existing

(* Index returns what the controller gave it.                              *)
LEMMA ScanReturnMoves == ASSUME Types, NEW r \in Reqs, ScanReturn(r) PROVE Moves(r)
<1>0. pc[r] = "scanning" /\ UNCHANGED db /\ \A t \in Pairs : task[r][t] \in {"none", "ok", "err"}
  BY Zenon DEF ScanReturn
<1>1. CASE gerr[r] = "nil" /\ Proceed(r, "Coalesce") /\ UNCHANGED report
  <2>1. "Coalesce" \in Nexts  BY Zenon DEF Nexts
  <2>2. /\ RunTypes' /\ (Ended(r) \/ OnTo(r, "Coalesce")) /\ \A q \in Reqs \ {r} : SameRun(q)
    BY Zenon, <1>1, <2>1, ProceedStep
  <2>3. Ended(r) \/ Joins(r)  BY Zenon, <1>0, <1>1, <2>1, <2>2, Turning DEF Joins
  <2>4. report' \in [Reqs -> Reports] /\ \A q \in Reqs \ {r} : Same(q)  BY Zenon, <1>1, <2>2 DEF Same, Types
  <2> QED  BY Zenon, <2>2, <2>3, <2>4 DEF Moves, Move
<1>2. CASE gerr[r] # "nil" /\ Give(r, gerr[r], report[r])
  <2>0. gerr[r] \in {"error", "canceled", "deadline"}  BY Zenon, <1>2 DEF Types, RunTypes, GErrs
  <2>1. report[r] \in Reports  BY Zenon DEF Types
  <2>2. /\ RunTypes' /\ report' \in [Reqs -> Reports]
        /\ \/ Ended(r)
           \/ OnTo(r, "Terminal") /\ (~report'[r].success \/ report'[r] = report[r])
        /\ \A q \in Reqs \ {r} : Same(q)
    BY Zenon, <1>2, <2>0, <2>1, GiveStep
  <2>3. OnTo(r, "Terminal") => Turns(r, "scanning", "Terminal") /\ At(r) = "scanning"
    BY Zenon, <1>0, Turning DEF Nexts, Turns
  <2>4. Ended(r) \/ Fails(r)  BY Zenon, <1>0, <2>2, <2>3 DEF Fails, Past
  <2> QED  BY Zenon, <2>2, <2>4 DEF Moves, Move
<1> QED  BY Zenon, <1>1, <1>2 DEF ScanReturn

(* An error of a state function is set on the report and stored.           *)
LEMMA StateErrorMoves == ASSUME Types, NEW r \in Reqs, StateError(r) PROVE Moves(r)
<1> DEFINE rep == IF pc[r] = "IndexFinished" THEN Finished(r) ELSE report[r]
<1>0. pc[r] \in {"CheckManifest", "existing"} \union Filtering \union Past /\ pc[r] # "save"
  BY Zenon DEF StateError, Filtering, Past
<1>1. PICK e \in {"error", "canceled", "deadline"} : Give(r, e, rep)  BY Zenon DEF StateError
<1>2. rep \in Reports  BY Zenon, FinishedReports
<1>3. /\ RunTypes' /\ report' \in [Reqs -> Reports]
      /\ \/ Ended(r)
         \/ OnTo(r, "Terminal") /\ (~report'[r].success \/ report'[r] = rep)
      /\ \A q \in Reqs \ {r} : Same(q)
  <2> HIDE DEF rep
  <2> QED  BY Zenon, <1>1, <1>2, GiveStep
<1>4. OnTo(r, "Terminal") => Turns(r, pc[r], "Terminal") /\ At(r) = pc[r]
  BY Zenon, <1>0, Turning DEF Nexts, Turns
<1>5. Ended(r) \/ Fails(r)  BY <1>0, <1>3, <1>4, Zenon DEF Fails
<1> QED  BY Zenon, <1>3, <1>5 DEF Moves, Move

(* Index returns without a report.                                         *)
LEMMA LeaveMoves ==
  ASSUME Types, NEW r \in Reqs, LockGivesUp(r) \/ Panic(r)
  PROVE  Moves(r)
<1>1. PICK e \in Errs : Leave(r, e) /\ report' = report
  <2>1. CASE LockGivesUp(r)
    <3>1. ctx[r] \in Errs  BY Zenon, <2>1 DEF LockGivesUp, Dead, Errs
    <3> QED  BY Zenon, <2>1, <3>1 DEF LockGivesUp
  <2>2. CASE Panic(r)
    <3>1. "panic" \in Errs  BY Zenon DEF Errs
    <3> QED  BY Zenon, <2>2, <3>1 DEF Panic
  <2> QED  BY Zenon, <2>1, <2>2
<1>2. RunTypes' /\ Ended(r) /\ \A q \in Reqs \ {r} : SameRun(q)  BY Zenon, <1>1, LeaveStep DEF Types
<1>3. report' \in [Reqs -> Reports] /\ \A q \in Reqs \ {r} : Same(q)  BY Zenon, <1>1, <1>2 DEF Same, Types
<1> QED  BY Zenon, <1>2, <1>3 DEF Moves, Move

(* The report is persisted, or that fails and is logged.                   *)
LEMMA SaveMoves ==
  ASSUME Types, NEW r \in Reqs, Save(r) \/ SaveError(r)
  PROVE  Moves(r)
<1>0. pc[r] = "save" /\ Continue(r) /\ next[r] \in Nexts /\ RunTypes /\ report \in [Reqs -> Reports]
  BY Zenon DEF Save, SaveError, Types, RunTypes, Placed
<1>1. CASE next[r] = "Terminal" /\ Leave(r, err[r]) /\ UNCHANGED report
  <2>1. err[r] \in Errs  BY Zenon, <1>0 DEF RunTypes
  <2>2. RunTypes' /\ Ended(r) /\ \A q \in Reqs \ {r} : SameRun(q)  BY Zenon, <1>0, <1>1, <2>1, LeaveStep
  <2>3. report' \in [Reqs -> Reports] /\ \A q \in Reqs \ {r} : Same(q)  BY Zenon, <1>0, <1>1, <2>2 DEF Same
  <2> QED  BY Zenon, <2>2, <2>3 DEF Moves, Move
<1>2. CASE next[r] # "Terminal"
  <2> DEFINE a == next[r]
             rep == [report[r] EXCEPT !.state = a]
  <2>1. /\ pc' = [pc EXCEPT ![r] = a]
        /\ report' = [report EXCEPT ![r] = rep]
        /\ UNCHANGED <<next, err, filter, fetched, task, gerr, lock>>
    BY Zenon, <1>0, <1>2 DEF Continue
  <2>2. a \in PCs /\ a \notin {"save", "filter"} /\ a \in States
    BY Zenon, <1>0, <1>2 DEF Nexts, PCs, States
  <2> HIDE DEF a
  <2>3. rep \in Reports /\ rep.success = report[r].success /\ rep.content = report[r].content
    BY Zenon, <1>0, <2>2 DEF Reports
  <2> HIDE DEF rep
  <2>4. pc' \in [Reqs -> PCs] /\ pc'[r] = a /\ \A q \in Reqs \ {r} : pc'[q] = pc[q]
    BY Zenon, <1>0, <2>1, <2>2 DEF RunTypes
  <2>5. report' \in [Reqs -> Reports] /\ report'[r] = rep /\ \A q \in Reqs \ {r} : report'[q] = report[q]
    BY Zenon, <1>0, <2>1, <2>3
  <2>6. \A q \in Reqs \ {r} : Same(q)  BY Zenon, <2>1, <2>4, <2>5 DEF Same, SameRun
  <2>7. \A q \in Reqs : Placed(q)'
    BY Zenon, <1>0, <2>1, <2>2, <2>4 DEF RunTypes, Placed
  <2>8. RunTypes'  BY Zenon, <1>0, <2>1, <2>4, <2>7 DEF RunTypes
  <2>9. At(r)' = At(r)  BY Zenon, <1>0, <2>2, <2>4 DEF At, a
  <2>10. Stay(r)  BY Zenon, <2>1, <2>3, <2>5, <2>9 DEF Stay
  <2> QED  BY Zenon, <2>5, <2>6, <2>8, <2>10 DEF Moves, Move
<1> QED  BY Zenon, <1>0, <1>1, <1>2 DEF Continue

(* The steps of a request.                                                 *)
ReqStep(r) == Index(r) \/ Step(r) \/ \E t \in Pairs : MarkOffline(r, t)

(* So every step of a request moves it along the controller.               *)
LEMMA ReqMoves == ASSUME Types, TaskInv, NEW r \in Reqs, ReqStep(r) PROVE Moves(r)
<1>1. CASE Index(r)  BY Zenon, <1>1, IndexMoves
<1>2. CASE \E t \in Pairs : MarkOffline(r, t)  BY Zenon, <1>2, ScanLayerMoves
<1>3. CASE Step(r)
  <2>1. CASE \E t \in Pairs : ScanLayer(r, t)  BY Zenon, <2>1, ScanLayerMoves
  <2>2. CASE Lock(r) \/ CheckManifest(r) \/ Range(r) \/ Filter(r) \/ SetVscnrs(r) \/ SetRest(r)
             \/ FetchLayers(r) \/ Scan(r)
    BY Zenon, <2>2, LockMoves, CheckMoves, RangeMoves, FilterMoves, SetVscnrsMoves, SetRestMoves, FetchMoves,
       ScanMoves, Zenon
  <2>3. CASE Persist(r) \/ Existing(r) \/ Realize(r) \/ ScanReturn(r) \/ Coalesce(r) \/ IndexContents(r)
             \/ Finish(r) \/ FinishRefused(r) \/ StateError(r)
    BY Zenon, <2>3, PersistMoves, ExistingMoves, RealizeMoves, ScanReturnMoves, CoalesceMoves,
       IndexContentsMoves, FinishMoves, FinishRefusedMoves, StateErrorMoves, Zenon
  <2>4. CASE LockGivesUp(r) \/ Panic(r)  BY Zenon, <2>4, LeaveMoves
  <2>5. CASE Save(r) \/ SaveError(r)  BY Zenon, <2>5, SaveMoves
  <2> QED  BY <1>3, <2>1, <2>2, <2>3, <2>4, <2>5, Zenon DEF Step
<1> QED  BY Zenon, <1>1, <1>2, <1>3 DEF ReqStep

(* A crash ends the requests of its process and no others.                 *)
LEMMA CrashMoves ==
  ASSUME Types, NEW p \in Procs, Crash(p)
  PROVE  /\ RunTypes' /\ report' \in [Reqs -> Reports]
         /\ \A q \in Reqs : IF proc[q] = p /\ Active(q) THEN Ended(q) ELSE Same(q)
<1> DEFINE hit == {r \in Reqs : proc[r] = p /\ Active(r)}
<1>0. RunTypes /\ report \in [Reqs -> Reports]  BY Zenon DEF Types
<1>1. /\ pc' = [r \in Reqs |-> IF r \in hit THEN "gone" ELSE pc[r]]
      /\ lock' = [m \in Manifests |-> IF lock[m] \in hit THEN None ELSE lock[m]]
      /\ next' = [r \in Reqs |-> IF r \in hit THEN "" ELSE next[r]]
      /\ filter' = [r \in Reqs |-> IF r \in hit THEN NoFilter ELSE filter[r]]
      /\ fetched' = [r \in Reqs |-> IF r \in hit THEN {} ELSE fetched[r]]
      /\ task' = [r \in Reqs |-> IF r \in hit THEN NoTasks ELSE task[r]]
      /\ gerr' = [r \in Reqs |-> IF r \in hit THEN "nil" ELSE gerr[r]]
      /\ report' = [r \in Reqs |-> IF r \in hit THEN NewReport ELSE report[r]]
      /\ err' = err
  BY Zenon DEF Crash
<1>2. \A q \in Reqs : q \in hit <=> proc[q] = p /\ Active(q)  BY Zenon
<1> HIDE DEF hit
<1>3. pc' \in [Reqs -> PCs] /\ next' \in [Reqs -> States \union {"Terminal"}]
      /\ lock' \in [Manifests -> Reqs \union {None}]
  BY Zenon, <1>0, <1>1 DEF RunTypes, PCs, States
<1>4. filter' \in [Reqs -> Filters] /\ task' \in [Reqs -> [Pairs -> TaskStates]] /\ report' \in [Reqs -> Reports]
  BY Zenon, <1>0, <1>1, Empty DEF RunTypes
<1>5. fetched' \in [Reqs -> SUBSET Layers] /\ gerr' \in [Reqs -> GErrs] /\ err' \in [Reqs -> Errs]
  BY Zenon, <1>0, <1>1 DEF RunTypes, GErrs
<1>6. ASSUME NEW q \in Reqs, q \in hit PROVE Ended(q) /\ pc'[q] = "gone"  BY Zenon, <1>1, <1>6 DEF Ended
<1>7. ASSUME NEW q \in Reqs, q \notin hit PROVE Same(q)  BY Zenon, <1>1, <1>7 DEF Same, SameRun
<1>8. ASSUME NEW q \in Reqs PROVE Placed(q)'
  <2>1. Placed(q)  BY Zenon, <1>0 DEF RunTypes
  <2> QED  BY Zenon, <1>6, <1>7, <2>1 DEF Placed, Same, SameRun
<1>9. RunTypes'  BY Zenon, <1>3, <1>4, <1>5, <1>8 DEF RunTypes
<1> QED  BY Zenon, <1>2, <1>4, <1>6, <1>7, <1>9

(* Everything else.                                                        *)
Idles == UNCHANGED run /\ lock' \in [Manifests -> Reqs \union {None}]

(* A step that leaves the requests alone keeps their types.                *)
LEMMA IdleMoves ==
  ASSUME Types, Idles
  PROVE  RunTypes' /\ report' \in [Reqs -> Reports] /\ \A q \in Reqs : Same(q)
<1>1. UNCHANGED <<pc, next, err, report, filter, fetched, task, gerr>>
      /\ lock' \in [Manifests -> Reqs \union {None}]
  BY Zenon DEF Idles, run
<1>2. \A q \in Reqs : Same(q)  BY Zenon, <1>1 DEF Same, SameRun
<1>3. \A q \in Reqs : Placed(q)'  BY Zenon, <1>1 DEF Types, RunTypes, Placed
<1>4. RunTypes'  BY Zenon, <1>1, <1>3 DEF Types, RunTypes
<1> QED  BY Zenon, <1>1, <1>2, <1>4 DEF Types

(* The environment's steps leave every request where it is.                *)
LEMMA EnvIdles ==
  ASSUME Types,
         \/ \E r \in Reqs : ContextEnds(r) \/ LockLost(r) \/ LostNoticed(r)
         \/ \E m \in Manifests : Delete(m)
         \/ Cleanup \/ CleanupError \/ UNCHANGED vars
  PROVE  Idles
<1>0. lock \in [Manifests -> Reqs \union {None}]  BY Zenon DEF Types, RunTypes
<1>1. ASSUME NEW r \in Reqs, ContextEnds(r) \/ LostNoticed(r) PROVE Idles
  BY Zenon, <1>0, <1>1 DEF Idles, ContextEnds, LostNoticed
<1>2. ASSUME NEW r \in Reqs, LockLost(r) PROVE Idles
  <2>1. lock' = [lock EXCEPT ![mf[r]] = None] /\ UNCHANGED run  BY Zenon, <1>2 DEF LockLost
  <2> QED  BY Zenon, <1>0, <2>1 DEF Idles
<1>3. ASSUME NEW m \in Manifests, Delete(m) PROVE Idles  BY Zenon, <1>0, <1>3 DEF Idles, Delete
<1>4. CASE Cleanup \/ CleanupError  BY Zenon, <1>0, <1>4 DEF Idles, Cleanup, CleanupError
<1>5. CASE UNCHANGED vars  BY Zenon, <1>0, <1>5 DEF Idles, vars
<1> QED  BY Zenon, <1>1, <1>2, <1>3, <1>4, <1>5

(* Whatever happens is one of the moves to every request.                  *)
LEMMA NextMoves ==
  ASSUME Types, TaskInv, [Next]_vars
  PROVE  RunTypes' /\ report' \in [Reqs -> Reports] /\ \A q \in Reqs : Move(q)
<1>1. CASE \E r \in Reqs : ReqStep(r)
  <2>1. PICK r \in Reqs : ReqStep(r)  BY Zenon, <1>1
  <2>2. Moves(r)  BY Zenon, <2>1, ReqMoves
  <2> QED  BY Zenon, <2>2, SameStays DEF Moves, Move
<1>2. CASE \E p \in Procs : Crash(p)
  <2>1. PICK p \in Procs : Crash(p)  BY Zenon, <1>2
  <2> QED  BY Zenon, <2>1, CrashMoves, SameStays DEF Move
<1>3. CASE Idles  BY Zenon, <1>3, IdleMoves, SameStays DEF Move
<1>4. \/ \E r \in Reqs : ReqStep(r)
      \/ \E p \in Procs : Crash(p)
      \/ \E r \in Reqs : ContextEnds(r) \/ LockLost(r) \/ LostNoticed(r)
      \/ \E m \in Manifests : Delete(m)
      \/ Cleanup \/ CleanupError \/ UNCHANGED vars
  BY Zenon DEF Next, ReqStep
<1> QED  BY Zenon, <1>1, <1>2, <1>3, <1>4, EnvIdles

-----------------------------------------------------------------------------
(* What the steps do to what requests share.                               *)
EnvKept ==
  /\ UNCHANGED <<version, ctx, lost, crashes, deleter, deletes>>
  /\ faults' = faults \/ (faults < MaxFault /\ faults' = faults + 1)

(* indexFinished returns, with success or with an error of its commit.     *)
Ends(r) == Finish(r) \/ StateError(r)

(* One store call of request r.                                            *)
ReqDb(r) ==
  \/ UNCHANGED db
  \/ pc[r] = "persist" /\ PersistManifest(mf[r])
  \/ \E t \in Pairs : task[r][t] = "scan" /\ SetLayerScanned(t[1], t[2])
  \/ \E t \in Pairs : task[r][t] = "marked" /\ IndexArtifacts(t[1], t[2])
  \/ pc[r] = "IndexManifest" /\ IndexManifest(mf[r], report[r].content)
  \/ pc[r] = "save" /\ SetIndexReport(mf[r], report[r])
  \/ /\ Ends(r) /\ pc[r] = "IndexFinished" /\ ~HasNil(r)
     /\ SetIndexFinished(mf[r], Vscnrs(r), Finished(r))

Effects(r) == EnvKept /\ ReqDb(r) /\ (UNCHANGED opts \/ SetVscnrs(r) \/ SetRest(r))

(* A step with no fault and no change of options.                          *)
LEMMA QuietEffects ==
  ASSUME NEW r \in Reqs, UNCHANGED env, ReqDb(r)
  PROVE  Effects(r)
<1>1. UNCHANGED <<opts, version, ctx, lost, faults, crashes, deleter, deletes>>  BY Zenon DEF env
<1> QED  BY Zenon, <1>1 DEF Effects, EnvKept

(* A step that may use up one of the bounded faults.                       *)
LEMMA FaultEffects ==
  ASSUME NEW r \in Reqs, NEW e, MayFail(r, e) \/ UNCHANGED faults,
         UNCHANGED <<opts, version, ctx, lost, crashes, deleter, deletes>>, ReqDb(r)
  PROVE  Effects(r)
  BY Zenon DEF Effects, EnvKept, MayFail

(* What one step of a request does outside the request.                    *)
LEMMA ReqEffects == ASSUME NEW r \in Reqs, ReqStep(r) PROVE Effects(r)
<1>1. CASE Index(r)  BY Zenon, <1>1, QuietEffects DEF Index, ReqDb
<1>2. ASSUME NEW t \in Pairs, MarkOffline(r, t) PROVE Effects(r)
  <2>1. /\ task[r][t] = "scan" /\ SetLayerScanned(t[1], t[2]) /\ faults < MaxFault /\ faults' = faults + 1
        /\ UNCHANGED <<opts, version, ctx, lost, crashes, deleter, deletes>>
    BY Zenon, <1>2 DEF MarkOffline
  <2> QED  BY Zenon, <2>1 DEF Effects, EnvKept, ReqDb
<1>3. CASE Step(r)
  <2>1. ASSUME NEW t \in Pairs, ScanLayer(r, t) PROVE Effects(r)
    <3>1. CASE CheckLayer(r, t)  BY Zenon, <3>1, QuietEffects DEF CheckLayer, ReqDb
    <3>2. CASE Mark(r, t)
      <4>1. ReqDb(r) /\ UNCHANGED env  BY Zenon, <3>2 DEF Mark, ReqDb
      <4> QED  BY Zenon, <4>1, QuietEffects
    <3>3. CASE Store(r, t)
      <4>1. ReqDb(r) /\ UNCHANGED env  BY Zenon, <3>3 DEF Store, ReqDb
      <4> QED  BY Zenon, <4>1, QuietEffects
    <3>4. CASE ScanLayerError(r, t)
      <4>1. /\ \E e \in {"error", "canceled", "deadline"} : MayFail(r, e) \/ UNCHANGED faults
            /\ UNCHANGED <<opts, version, ctx, lost, crashes, deleter, deletes>>
        BY Zenon, <3>4 DEF ScanLayerError
      <4>2. UNCHANGED db \/ TaskWrites(r, t)  BY Zenon, <3>4 DEF ScanLayerError
      <4>3. ReqDb(r)  BY <4>2, Zenon DEF TaskWrites, ReqDb
      <4> QED  BY Zenon, <4>1, <4>3, FaultEffects
    <3> QED  BY Zenon, <2>1, <3>1, <3>2, <3>3, <3>4 DEF ScanLayer
  <2>2. CASE Lock(r) \/ LockGivesUp(r) \/ CheckManifest(r) \/ Range(r) \/ Filter(r) \/ Panic(r) \/ Existing(r)
    <3>1. UNCHANGED db /\ UNCHANGED env
      BY Zenon, <2>2 DEF Lock, LockGivesUp, CheckManifest, Range, Filter, Panic, Existing
    <3> QED  BY Zenon, <3>1, QuietEffects DEF ReqDb
  <2>3. CASE FetchLayers(r) \/ Realize(r) \/ Scan(r) \/ ScanReturn(r) \/ Coalesce(r) \/ FinishRefused(r)
    <3>1. UNCHANGED db /\ UNCHANGED env
      BY Zenon, <2>3 DEF FetchLayers, Realize, Scan, ScanReturn, Coalesce, FinishRefused
    <3> QED  BY Zenon, <3>1, QuietEffects DEF ReqDb
  <2>4. CASE SetVscnrs(r) \/ SetRest(r)
    <3>1. UNCHANGED db /\ UNCHANGED <<version, ctx, lost, faults, crashes, deleter, deletes>>
      BY Zenon, <2>4 DEF SetVscnrs, SetRest
    <3> QED  BY Zenon, <2>4, <3>1 DEF Effects, EnvKept, ReqDb
  <2>5. CASE Persist(r) \/ IndexContents(r) \/ Finish(r) \/ Save(r)
    <3>1. ReqDb(r) /\ UNCHANGED env
      BY Zenon, <2>5 DEF Persist, IndexContents, Finish, Save, ReqDb, Ends
    <3> QED  BY Zenon, <3>1, QuietEffects
  <2>6. CASE StateError(r) \/ SaveError(r)
    <3>1. /\ \E e \in {"error", "canceled", "deadline"} : MayFail(r, e) \/ UNCHANGED faults
          /\ UNCHANGED <<opts, version, ctx, lost, crashes, deleter, deletes>>
      BY Zenon, <2>6 DEF StateError, SaveError
    <3>2. ReqDb(r)
      <4>1. CASE SaveError(r)
        <5>1. pc[r] = "save" /\ (UNCHANGED db \/ SetIndexReport(mf[r], report[r]))
          BY <4>1, Zenon DEF SaveError
        <5> QED  BY <5>1, Zenon DEF ReqDb
      <4>2. CASE StateError(r)
        <5>1. StateWrites(r) /\ Ends(r)  BY Zenon, <4>2 DEF StateError, Ends
        <5> QED  BY <5>1, Zenon DEF StateWrites, ReqDb
      <4> QED  BY Zenon, <2>6, <4>1, <4>2
    <3> QED  BY Zenon, <3>1, <3>2, FaultEffects
  <2> QED  BY <1>3, <2>1, <2>2, <2>3, <2>4, <2>5, <2>6, Zenon DEF Step
<1> QED  BY Zenon, <1>1, <1>2, <1>3 DEF ReqStep

(* A step of the system is one of these.                                   *)
LEMMA NextCases ==
  ASSUME [Next]_vars
  PROVE  \/ \E r \in Reqs : ReqStep(r)
         \/ \E r \in Reqs : ContextEnds(r) \/ LockLost(r) \/ LostNoticed(r)
         \/ \E p \in Procs : Crash(p)
         \/ \E m \in Manifests : Delete(m)
         \/ Cleanup \/ CleanupError \/ UNCHANGED vars
  BY Zenon DEF Next, ReqStep

(* Every step keeps the contexts and the bounds in their types.            *)
LEMMA EnvStep == ASSUME Types, [Next]_vars PROVE EnvTypes'
<1>0. /\ ctx \in [Reqs -> Ctxs] /\ lost \subseteq Reqs /\ deleter \in {"idle", "cleanup"}
      /\ faults \in 0..MaxFault /\ crashes \in 0..MaxCrash /\ deletes \in 0..MaxDelete
      /\ MaxFault \in Nat /\ MaxCrash \in Nat /\ MaxDelete \in Nat
  BY Zenon, IndexerAssumption DEF Types, EnvTypes
<1>1. ASSUME NEW r \in Reqs, ReqStep(r) PROVE EnvTypes'
  <2>1. EnvKept  BY Zenon, <1>1, ReqEffects DEF Effects
  <2> QED  BY <1>0, <2>1 DEF EnvKept, EnvTypes
<1>2. ASSUME NEW r \in Reqs, ContextEnds(r) \/ LockLost(r) \/ LostNoticed(r) PROVE EnvTypes'
  <2>1. /\ ctx' = ctx \/ \E k \in {"canceled", "deadline"} : ctx' = [ctx EXCEPT ![r] = k]
        /\ lost' = lost \/ lost' = lost \union {r}
        /\ UNCHANGED <<faults, crashes, deleter, deletes>>
    BY Zenon, <1>2 DEF ContextEnds, LockLost, LostNoticed
  <2>2. ctx' \in [Reqs -> Ctxs] /\ lost' \subseteq Reqs  BY Zenon, <1>0, <2>1 DEF Ctxs
  <2> QED  BY Zenon, <1>0, <2>1, <2>2 DEF EnvTypes
<1>3. ASSUME NEW p \in Procs, Crash(p) PROVE EnvTypes'
  <2>1. crashes < MaxCrash /\ crashes' = crashes + 1 /\ UNCHANGED <<ctx, lost, faults, deleter, deletes>>
    BY Zenon, <1>3 DEF Crash
  <2> QED  BY <1>0, <2>1 DEF EnvTypes
<1>4. ASSUME NEW m \in Manifests, Delete(m) PROVE EnvTypes'
  <2>1. /\ deletes < MaxDelete /\ deletes' = deletes + 1 /\ deleter' = "cleanup"
        /\ UNCHANGED <<ctx, lost, faults, crashes>>
    BY Zenon, <1>4 DEF Delete
  <2> QED  BY <1>0, <2>1 DEF EnvTypes
<1>5. CASE Cleanup \/ CleanupError
  <2>1. deleter' = "idle" /\ UNCHANGED <<ctx, lost, faults, crashes, deletes>>
    BY Zenon, <1>5 DEF Cleanup, CleanupError
  <2> QED  BY Zenon, <1>0, <2>1 DEF EnvTypes
<1>6. CASE UNCHANGED vars
  <2>1. UNCHANGED <<ctx, lost, faults, crashes, deleter, deletes>>  BY Zenon, <1>6 DEF vars, env
  <2> QED  BY Zenon, <1>0, <2>1 DEF EnvTypes
<1> QED  BY Zenon, <1>1, <1>2, <1>3, <1>4, <1>5, <1>6, NextCases

(* The options of a process change when a request stores its filtered      *)
(* list and when the process starts again.                                 *)
LEMMA OptCases ==
  ASSUME [Next]_vars
  PROVE  \/ UNCHANGED <<opts, version>>
         \/ \E r \in Reqs : (SetVscnrs(r) \/ SetRest(r)) /\ version' = version
         \/ \E p \in Procs : Crash(p)
<1>1. ASSUME NEW r \in Reqs, ReqStep(r)
      PROVE UNCHANGED <<opts, version>> \/ ((SetVscnrs(r) \/ SetRest(r)) /\ version' = version)
  BY Zenon, <1>1, ReqEffects DEF Effects, EnvKept
<1>2. ASSUME NEW r \in Reqs, ContextEnds(r) \/ LockLost(r) \/ LostNoticed(r) PROVE UNCHANGED <<opts, version>>
  BY Zenon, <1>2 DEF ContextEnds, LockLost, LostNoticed
<1>3. ASSUME NEW m \in Manifests, Delete(m) PROVE UNCHANGED <<opts, version>>  BY Zenon, <1>3 DEF Delete
<1>4. CASE Cleanup \/ CleanupError  BY Zenon, <1>4 DEF Cleanup, CleanupError
<1>5. CASE UNCHANGED vars  BY Zenon, <1>5 DEF vars, env
<1> QED  BY Zenon, <1>1, <1>2, <1>3, <1>4, <1>5, NextCases

(* Every step keeps the shared options in their types.                     *)
LEMMA OptStep == ASSUME Types, [Next]_vars PROVE OptTypes'
<1>0. OptTypes /\ vscnrs \in [Procs -> Seq(Scanners)] /\ vlen \in [Procs -> Nat] /\ version \in [Procs -> Nat]
  BY Zenon DEF Types, OptTypes
<1>1. CASE UNCHANGED <<opts, version>>
  <2>1. UNCHANGED <<vscnrs, vlen, version>>  BY Zenon, <1>1 DEF opts
  <2> QED  BY Zenon, <1>0, <2>1 DEF OptTypes
<1>2. ASSUME NEW r \in Reqs, SetVscnrs(r) \/ SetRest(r), version' = version PROVE OptTypes'
  <2>1. filter[r].out \in Seq(Scanners) /\ Len(filter[r].out) \in Nat
    <3>1. filter[r] \in Filters  BY Zenon DEF Types, RunTypes
    <3>2. filter[r].out \in Seq(Scanners)  BY Zenon, <3>1 DEF Filters
    <3> QED  BY <3>2
  <2>2. /\ vscnrs' = vscnrs \/ vscnrs' = [vscnrs EXCEPT ![proc[r]] = filter[r].out]
        /\ vlen' = vlen \/ vlen' = [vlen EXCEPT ![proc[r]] = Len(filter[r].out)]
    BY Zenon, <1>2 DEF SetVscnrs, SetRest
  <2>3. vscnrs' \in [Procs -> Seq(Scanners)]  BY Zenon, <1>0, <2>1, <2>2
  <2>4. vlen' \in [Procs -> Nat]  BY Zenon, <1>0, <2>1, <2>2
  <2> QED  BY Zenon, <1>0, <1>2, <2>3, <2>4 DEF OptTypes
<1>3. ASSUME NEW p \in Procs, Crash(p) PROVE OptTypes'
  <2> DEFINE v == IF version[p] < Len(Config[p]) THEN version[p] + 1 ELSE version[p]
  <2>1. /\ version' = [version EXCEPT ![p] = v]
        /\ vscnrs' = [vscnrs EXCEPT ![p] = Config[p][v]]
        /\ vlen' = [vlen EXCEPT ![p] = Len(Config[p][v])]
    BY Zenon, <1>3 DEF Crash
  <2>2. Config[p] \in Seq(Seq(Scanners))  BY Zenon, IndexerAssumption
  <2>3. version[p] \in 1..Len(Config[p]) /\ Len(Config[p]) \in Nat  BY <1>0, <2>2 DEF OptTypes
  <2>4. v \in 1..Len(Config[p]) /\ v \in Nat  BY <2>3
  <2> HIDE DEF v
  <2>5. Config[p][v] \in Seq(Scanners)  BY <2>2, <2>4
  <2>6. Len(Config[p][v]) \in Nat  BY <2>5
  <2>7. vscnrs' \in [Procs -> Seq(Scanners)] /\ vlen' \in [Procs -> Nat] /\ version' \in [Procs -> Nat]
    BY Zenon, <1>0, <2>1, <2>4, <2>5, <2>6
  <2>8. \A q \in Procs : version'[q] \in 1..Len(Config[q])  BY Zenon, <1>0, <2>1, <2>4 DEF OptTypes
  <2> QED  BY Zenon, <2>7, <2>8 DEF OptTypes
<1> QED  BY Zenon, <1>1, <1>2, <1>3, OptCases

(* The tables change by a request's call, DeleteManifests or the cleanup.  *)
LEMMA DbCases ==
  ASSUME [Next]_vars
  PROVE  \/ \E r \in Reqs : ReqStep(r) /\ ReqDb(r)
         \/ \E m \in Manifests : Delete(m) /\ DeleteManifestRow(m)
         \/ LayerCleanup
         \/ UNCHANGED db
<1>1. ASSUME NEW r \in Reqs, ReqStep(r) PROVE ReqStep(r) /\ ReqDb(r)  BY Zenon, <1>1, ReqEffects DEF Effects
<1>2. ASSUME NEW r \in Reqs, ContextEnds(r) \/ LockLost(r) \/ LostNoticed(r) PROVE UNCHANGED db
  BY Zenon, <1>2 DEF ContextEnds, LockLost, LostNoticed
<1>3. ASSUME NEW p \in Procs, Crash(p) PROVE UNCHANGED db  BY Zenon, <1>3 DEF Crash
<1>4. ASSUME NEW m \in Manifests, Delete(m) PROVE DeleteManifestRow(m)  BY Zenon, <1>4 DEF Delete
<1>5. CASE Cleanup  BY Zenon, <1>5 DEF Cleanup
<1>6. CASE CleanupError  BY Zenon, <1>6 DEF CleanupError
<1>7. CASE UNCHANGED vars  BY Zenon, <1>7 DEF vars
<1> QED  BY Zenon, <1>1, <1>2, <1>3, <1>4, <1>5, <1>6, <1>7, NextCases

(* The layers of a manifest are layers.                                    *)
LEMMA LayersTyped == \A m \in Manifests : LayerSet(m) \subseteq Layers
<1> SUFFICES ASSUME NEW m \in Manifests PROVE LayerSet(m) \subseteq Layers  BY Zenon
<1>1. layersOf[m] \in Seq(Layers)  BY Zenon, IndexerStoreAssumption
<1> QED  BY <1>1 DEF LayerSet

(* What a process scans with are scanners.                                 *)
LEMMA VscnrsTyped == ASSUME Types, NEW r \in Reqs PROVE Vscnrs(r) \subseteq Scanners
<1>1. vscnrs[proc[r]] \in Seq(Scanners)  BY Zenon, IndexerAssumption DEF Types, OptTypes
<1> QED  BY <1>1 DEF Vscnrs

(* The store's calls of a request keep its types.                          *)
LEMMA ReqStoreTypes == ASSUME Types, NEW r \in Reqs, ReqDb(r) PROVE StoreTypeOK'
<1>0. /\ manifest \subseteq Manifests /\ layer \subseteq Layers
      /\ scanned_manifest \subseteq Manifests \X Scanners
      /\ scanned_layer \subseteq Layers \X Scanners
      /\ artifact \in Contents
      /\ manifest_index \subseteq Manifests \X (Layers \X Scanners)
      /\ indexreport \in [Manifests -> Reports \union {NoReport}]
      /\ mf[r] \in Manifests /\ report[r] \in Reports
  BY Zenon, IndexerAssumption DEF Types, StoreTypeOK
<1>1. CASE UNCHANGED db  BY Zenon, <1>0, <1>1 DEF db, StoreTypeOK
<1>2. CASE PersistManifest(mf[r])
  BY Zenon, <1>0, <1>2, LayersTyped DEF PersistManifest, StoreTypeOK
<1>3. ASSUME NEW t \in Pairs, SetLayerScanned(t[1], t[2]) PROVE StoreTypeOK'
  <2>1. <<t[1], t[2]>> \in Layers \X Scanners  BY Zenon DEF Pairs
  <2> QED  BY Zenon, <1>0, <1>3, <2>1 DEF SetLayerScanned, StoreTypeOK
<1>4. ASSUME NEW t \in Pairs, IndexArtifacts(t[1], t[2]) PROVE StoreTypeOK'
  <2>1. <<t[1], t[2]>> \in Layers \X Scanners  BY Zenon DEF Pairs
  <2>2. artifact' \in Contents  BY Zenon, <1>0, <1>4, <2>1 DEF IndexArtifacts, Contents
  <2> QED  BY Zenon, <1>0, <1>4, <2>2 DEF IndexArtifacts, StoreTypeOK
<1>5. CASE IndexManifest(mf[r], report[r].content)
  <2>1. report[r].content \subseteq Layers \X Scanners  BY Zenon, <1>0 DEF Reports, Contents
  <2>2. manifest_index' \subseteq Manifests \X (Layers \X Scanners)  BY Zenon, <1>0, <1>5, <2>1 DEF IndexManifest
  <2> QED  BY Zenon, <1>0, <1>5, <2>2 DEF IndexManifest, StoreTypeOK
<1>6. CASE SetIndexReport(mf[r], report[r])
  BY Zenon, <1>0, <1>6 DEF SetIndexReport, StoreTypeOK
<1>7. CASE SetIndexFinished(mf[r], Vscnrs(r), Finished(r))
  <2>1. Vscnrs(r) \subseteq Scanners /\ Finished(r) \in Reports  BY Zenon, VscnrsTyped, FinishedReports
  <2>2. scanned_manifest' \subseteq Manifests \X Scanners  BY Zenon, <1>0, <1>7, <2>1 DEF SetIndexFinished
  <2>3. indexreport' \in [Manifests -> Reports \union {NoReport}]  BY Zenon, <1>0, <1>7, <2>1 DEF SetIndexFinished
  <2> QED  BY Zenon, <1>0, <1>7, <2>2, <2>3 DEF SetIndexFinished, StoreTypeOK
<1> QED  BY <1>1, <1>2, <1>3, <1>4, <1>5, <1>6, <1>7, Zenon DEF ReqDb

(* Every step keeps the tables in their types.                             *)
LEMMA StoreTypes == ASSUME Types, [Next]_vars PROVE StoreTypeOK'
<1>0. StoreTypeOK  BY Zenon DEF Types
<1>1. ASSUME NEW r \in Reqs, ReqDb(r) PROVE StoreTypeOK'  BY Zenon, <1>1, ReqStoreTypes
<1>2. ASSUME NEW m \in Manifests, DeleteManifestRow(m) PROVE StoreTypeOK'
  BY Zenon, <1>0, <1>2 DEF DeleteManifestRow, StoreTypeOK
<1>3. CASE LayerCleanup
  <2>1. /\ layer' \subseteq layer /\ scanned_layer' \subseteq scanned_layer /\ artifact' \subseteq artifact
        /\ UNCHANGED <<manifest, scanned_manifest, manifest_index, indexreport>>
    BY Zenon, <1>3 DEF LayerCleanup
  <2> QED  BY Zenon, <1>0, <2>1 DEF StoreTypeOK, Contents
<1>4. CASE UNCHANGED db  BY Zenon, <1>0, <1>4 DEF db, StoreTypeOK
<1> QED  BY Zenon, <1>1, <1>2, <1>3, <1>4, DbCases

(* Every step keeps every variable in its type.                            *)
LEMMA TypesStep == ASSUME Types, TaskInv, [Next]_vars PROVE Types'
  BY Zenon, NextMoves, StoreTypes, OptStep, EnvStep DEF Types

(* scanLayer runs only while its request is in scanLayers.                 *)
LEMMA TaskStep == ASSUME Types, TaskInv, [Next]_vars PROVE TaskInv'
<1> SUFFICES ASSUME NEW q \in Reqs, At(q)' # "scanning" PROVE task'[q] = NoTasks
  BY Zenon DEF TaskInv
<1>1. Move(q)  BY Zenon, NextMoves
<1>2. At(q) # "scanning" => task[q] = NoTasks  BY Zenon DEF TaskInv
<1>3. CASE Stay(q) \/ Ended(q) \/ Goes(q, "idle", "lock") \/ Locks(q)
  BY Zenon, <1>2, <1>3 DEF Stay, Ended, Goes, Locks
<1>4. CASE Checks(q) \/ Filtered(q) \/ Reduces(q)
  <2>1. task'[q] = task[q] /\ At(q) # "scanning"  BY Zenon, <1>4 DEF Goes, Checks, Filtered, Reduces
  <2> QED  BY Zenon, <1>2, <2>1
<1>5. CASE \/ Persists(q) \/ Finds(q) \/ Fails(q) \/ Realizes(q) \/ Joins(q) \/ Merges(q) \/ Indexes(q)
           \/ Finishes(q)
  BY Zenon, <1>5 DEF Persists, Finds, Fails, Realizes, Joins, Merges, Indexes, Finishes, Turns
<1>6. CASE Starts(q) \/ Works(q)  BY Zenon, <1>6 DEF Starts, Works
<1> QED  BY Zenon, <1>1, <1>3, <1>4, <1>5, <1>6 DEF Move

(* Only a report that is persisted for the last time claims success.       *)
LEMMA SuccessStep == ASSUME Types, TaskInv, SuccessInv, [Next]_vars PROVE SuccessInv'
<1> SUFFICES ASSUME NEW q \in Reqs, report'[q].success PROVE At(q)' \in {"Terminal", "done", "gone"}
  BY Zenon DEF SuccessInv
<1>1. Move(q)  BY Zenon, NextMoves
<1>2. report[q].success => At(q) \in {"Terminal", "done", "gone"}  BY Zenon DEF SuccessInv
<1>3. CASE Stay(q) \/ Goes(q, "idle", "lock") \/ Locks(q)
  BY Zenon, <1>2, <1>3 DEF Stay, Goes, Locks
<1>4. CASE Ended(q)  BY Zenon, <1>4 DEF Ended, At
<1>5. CASE Checks(q) \/ Filtered(q) \/ Reduces(q)
  <2>1. report'[q] = report[q] /\ At(q) \notin {"Terminal", "done", "gone"}
    <3>1. CASE Checks(q)  BY Zenon, <3>1 DEF Goes, Checks
    <3>2. CASE Filtered(q)  BY Zenon, <3>2 DEF Goes, Filtered
    <3>3. CASE Reduces(q)  BY Zenon, <3>3 DEF Goes, Reduces
    <3> QED  BY Zenon, <1>5, <3>1, <3>2, <3>3
  <2> QED  BY Zenon, <1>2, <2>1
<1>6. CASE Finds(q) \/ Fails(q) \/ Finishes(q)  BY Zenon, <1>6 DEF Finds, Fails, Finishes, Turns
<1>7. CASE Persists(q) \/ Realizes(q) \/ Joins(q) \/ Merges(q) \/ Indexes(q)
  BY Zenon, <1>2, <1>7 DEF Persists, Realizes, Joins, Merges, Indexes, Turns
<1>8. CASE Starts(q) \/ Works(q)  BY Zenon, <1>2, <1>8 DEF Starts, Works
<1> QED  BY Zenon, <1>1, <1>3, <1>4, <1>5, <1>6, <1>7, <1>8 DEF Move

(* Rows refer to rows.                                                     *)
LEMMA RowStep == ASSUME Types, RowInv, [Next]_vars PROVE RowInv'
<1>0. /\ indexreport \in [Manifests -> Reports \union {NoReport}]
      /\ \A m \in Manifests : indexreport[m] # NoReport => m \in manifest
      /\ \A x \in scanned_manifest : x[1] \in manifest
      /\ \A m \in manifest : LayerSet(m) \subseteq layer
  BY Zenon DEF Types, StoreTypeOK, RowInv
<1>1. ASSUME NEW r \in Reqs, ReqDb(r) PROVE RowInv'
  <2>0. mf[r] \in Manifests  BY Zenon, IndexerAssumption
  <2>1. CASE UNCHANGED db  BY Zenon, <1>0, <2>1 DEF db, RowInv
  <2>2. CASE PersistManifest(mf[r])  BY Zenon, <1>0, <2>2 DEF PersistManifest, RowInv
  <2>3. ASSUME NEW t \in Pairs, SetLayerScanned(t[1], t[2]) \/ IndexArtifacts(t[1], t[2]) PROVE RowInv'
    BY Zenon, <1>0, <2>3 DEF SetLayerScanned, IndexArtifacts, RowInv
  <2>4. CASE IndexManifest(mf[r], report[r].content)  BY Zenon, <1>0, <2>4 DEF IndexManifest, RowInv
  <2>5. CASE SetIndexReport(mf[r], report[r])  BY Zenon, <1>0, <2>0, <2>5 DEF SetIndexReport, RowInv
  <2>6. CASE SetIndexFinished(mf[r], Vscnrs(r), Finished(r))
    <3>1. \A m \in Manifests : indexreport'[m] # NoReport => m \in manifest'
      BY Zenon, <1>0, <2>0, <2>6 DEF SetIndexFinished
    <3>2. \A x \in scanned_manifest' : x[1] \in manifest'  BY Zenon, <1>0, <2>6 DEF SetIndexFinished
    <3> QED  BY Zenon, <1>0, <2>6, <3>1, <3>2 DEF SetIndexFinished, RowInv
  <2> QED  BY <1>1, <2>1, <2>2, <2>3, <2>4, <2>5, <2>6, Zenon DEF ReqDb
<1>2. ASSUME NEW m \in Manifests, DeleteManifestRow(m) PROVE RowInv'
  BY Zenon, <1>0, <1>2 DEF DeleteManifestRow, RowInv
<1>3. CASE LayerCleanup  BY Zenon, <1>0, <1>3 DEF LayerCleanup, RowInv
<1>4. CASE UNCHANGED db  BY Zenon, <1>0, <1>4 DEF db, RowInv
<1> QED  BY Zenon, <1>1, <1>2, <1>3, <1>4, DbCases

-----------------------------------------------------------------------------
(* What holds whatever fails, crashes, is deleted and is lost.             *)
Base == Types /\ TaskInv /\ SuccessInv /\ RowInv

(* The initial states are among those of Base.                             *)
LEMMA BaseInit == Init => Base
<1> SUFFICES ASSUME Init PROVE Base  BY Zenon
<1>1. StoreTypeOK /\ RowInv
  BY Zenon DEF Init, StoreInit, StoreTypeOK, RowInv, Contents
<1>2. RunTypes
  <2>1. /\ pc = [r \in Reqs |-> "idle"] /\ next = [r \in Reqs |-> ""] /\ err = [r \in Reqs |-> "nil"]
        /\ filter = [r \in Reqs |-> NoFilter] /\ fetched = [r \in Reqs |-> {}]
        /\ task = [r \in Reqs |-> NoTasks] /\ gerr = [r \in Reqs |-> "nil"]
        /\ lock = [m \in Manifests |-> None]
    BY Zenon DEF Init
  <2>2. \A r \in Reqs : Placed(r)  BY Zenon, <2>1 DEF Placed
  <2>3. pc \in [Reqs -> PCs] /\ next \in [Reqs -> States \union {"Terminal"}] /\ err \in [Reqs -> Errs]
    BY Zenon, <2>1 DEF PCs, States, Errs
  <2>4. filter \in [Reqs -> Filters] /\ task \in [Reqs -> [Pairs -> TaskStates]]  BY Zenon, <2>1, Empty
  <2>5. /\ fetched \in [Reqs -> SUBSET Layers] /\ gerr \in [Reqs -> GErrs]
        /\ lock \in [Manifests -> Reqs \union {None}]
    BY Zenon, <2>1 DEF GErrs
  <2> QED  BY Zenon, <2>2, <2>3, <2>4, <2>5 DEF RunTypes
<1>3. OptTypes
  <2>1. \A p \in Procs : Config[p] \in Seq(Seq(Scanners)) /\ Len(Config[p]) \in Nat /\ Len(Config[p]) > 0
    BY IndexerAssumption
  <2>2. \A p \in Procs : 1 \in 1..Len(Config[p])  BY <2>1
  <2>3. \A p \in Procs : Config[p][1] \in Seq(Scanners)  BY <2>1, <2>2
  <2>4. \A p \in Procs : Len(Config[p][1]) \in Nat  BY <2>3
  <2> QED  BY Zenon, <2>2, <2>3, <2>4 DEF Init, OptTypes
<1>4. EnvTypes
  <2>1. ctx = [r \in Reqs |-> "live"] /\ lost = {} /\ deleter = "idle" /\ faults = 0 /\ crashes = 0 /\ deletes = 0
    BY Zenon DEF Init
  <2>2. ctx \in [Reqs -> Ctxs]  BY Zenon, <2>1 DEF Ctxs
  <2>3. faults \in 0..MaxFault /\ crashes \in 0..MaxCrash /\ deletes \in 0..MaxDelete
    BY <2>1, IndexerAssumption
  <2> QED  BY Zenon, <2>1, <2>2, <2>3 DEF EnvTypes
<1>5. report = [r \in Reqs |-> NewReport]  BY Zenon DEF Init
<1>6. report \in [Reqs -> Reports] /\ \A r \in Reqs : ~report[r].success
  BY Zenon, <1>5, Empty DEF NewReport
<1>7. TaskInv /\ SuccessInv  BY Zenon, <1>6 DEF Init, TaskInv, SuccessInv
<1> QED  BY Zenon, <1>1, <1>2, <1>3, <1>4, <1>6, <1>7 DEF Base, Types

(* Every step keeps Base.                                                  *)
LEMMA BaseStep == ASSUME Base, [Next]_vars PROVE Base'
  BY Zenon, TypesStep, TaskStep, SuccessStep, RowStep DEF Base
=============================================================================
