------------------------------ MODULE UpdaterRun ------------------------------
(***************************************************************************)
(* package updater: Run fetches, parses and stores with a pool of workers, *)
(* Fetch writes what updaters fetch to an archive, and Parse stores an     *)
(* archive's contents.  Calls share the process, its locker and the store. *)
(* A name is a sequence of numbers, Slash among them, ordered by its       *)
(* first.  A version of what an updater's source publishes is a positive   *)
(* number; it is also its fingerprint, and 0 is the empty one.             *)
(***************************************************************************)
EXTENDS LocalLock, Sequences, SequencesExt

CONSTANTS
  Runs, Fetches, Parses,   \* calls of Run, Fetch and Parse
  Workers,           \* of each call of Run and Fetch: its worker goroutines
  Strict,            \* the calls of Run that are strict
  Factories,         \* a sequence of [err, set]: what each factory creates
  ImportFactories,   \* those of the process that imports
  Content,           \* of each name and version: the kinds it has records of
  Size,              \* of each name and version: the length of what Fetch writes
  Implements,        \* functions from the names: the kinds of parser an updater implements
  OldArchives,       \* what earlier processes' calls of Fetch wrote
  MaxFaults          \* bound on errors and ended contexts

Calls == Runs \union Fetches
Slash == 0
Kinds == <<"vulnerability", "enrichment">>
Nothing == <<>>            \* an empty spool
Data(n, v) == <<n, v>>

ASSUME UpdaterRunAssumption ==
  /\ \A c \in Calls : Workers[c] \subseteq Threads
  /\ \A c, d \in Calls : c # d => Workers[c] \intersect Workers[d] = {}
  /\ Strict \subseteq Runs /\ MaxFaults \in Nat
  /\ \A n \in DOMAIN Content : \A v \in DOMAIN Content[n] : Content[n][v] # {}
  /\ \A a \in OldArchives : \A e \in a : e.fp = 1 /\ e.data = Data(e.name, e.fp)

VARIABLES
  impl,      \* one of Implements, which does not change
  up,        \* of each name: the version its source publishes
  ops,       \* the update operations in the store
  latest,    \* of each updater that has one: the fingerprint of its last operation
  call,      \* of each call of Run and Fetch: its goroutines but the workers
  work,      \* the worker goroutines
  parse,     \* the calls of Parse
  faults,
  panicked   \* the process has ended

runVars == <<m, lk, impl, up, ops, latest, call, work, parse, faults, panicked>>

CallOf(w) == CHOOSE c \in Calls : w \in Workers[c]
AllWorkers == UNION {Workers[c] : c \in Calls}

Worker0 == [pc |-> "new", name |-> <<>>, fp |-> 0, sz |-> 0, file |-> <<0, Nothing>>, todo |-> <<>>, data |-> Nothing]
Call0 == [pc |-> "new", us |-> <<>>, pfps |-> <<>>, errs |-> {}, failed |-> FALSE, ended |-> FALSE,
          entries |-> {}, collector |-> "up", began |-> <<>>, prev |-> {}, dropped |-> {}]
Parse0 == [pc |-> "new", us |-> <<>>, archive |-> {}, todo |-> <<>>, e |-> Nothing, dropped |-> {}]

RunInit ==
  /\ LockInit /\ impl \in Implements
  /\ up = [n \in DOMAIN Content |-> 1] /\ ops = {} /\ latest = <<>>
  /\ call = [c \in Calls |-> Call0] /\ work = [w \in AllWorkers |-> Worker0]
  /\ parse = [p \in Parses |-> Parse0] /\ faults = 0 /\ panicked = FALSE

Fault == faults < MaxFaults /\ faults' = faults + 1
(* A worker that is ready for the next updater has its spool, and no more. *)
Ready(w) == [Worker0 EXCEPT !.pc = "recv", !.file = work[w].file]
CallSet(c, new) == call' = [call EXCEPT ![c] = new]
WorkSet(w, new) == work' = [work EXCEPT ![w] = new]
Locks == UNCHANGED lockVars
World == UNCHANGED <<up, parse, panicked>>

-----------------------------------------------------------------------------
(* updaters: a factory that errs, a name with a slash in it and a name     *)
(* that was there before are left out; the rest is sorted by name.         *)
updaters(fs) ==
  LET made == FlattenSeq([k \in DOMAIN fs |-> IF fs[k].err THEN <<>> ELSE fs[k].set])
      good == SelectSeq(made, LAMBDA n : \A j \in DOMAIN n : n[j] # Slash)
  IN  SortSeq(SetToSeq(ToSet(good)), LAMBDA x, y : x[1] < y[1])

(* The walk over a previous archive: path.Split keeps the slash. *)
prevFingerprints(prev) ==
  [d \in {Append(e.name, Slash) : e \in prev} |-> (CHOOSE e \in prev : Append(e.name, Slash) = d).fp]

pfp(c, n) == IF n \in DOMAIN call[c].pfps THEN call[c].pfps[n] ELSE 0

(* A file whose Fetch has not returned nil has no comment and no directory. *)
openZip(c) == IF call[c].pc = "nil" THEN {call[c].entries} ELSE {}
Archives == OldArchives \union UNION {openZip(c) : c \in Fetches}

BeginCall(c, pfps, prev) ==
  /\ call[c].pc = "new"
  /\ CallSet(c, [Call0 EXCEPT !.pc = "run", !.us = updaters(Factories), !.pfps = pfps, !.prev = prev, !.began = up])
  /\ work' = [w \in AllWorkers |-> IF w \in Workers[c] THEN Ready(w) ELSE work[w]]
  /\ UNCHANGED <<ops, latest, faults>> /\ Locks /\ World

(* Run asks for the latest operations, before it has any lock. *)
BeginRun(c) == BeginCall(c, latest, {})

BeginRunFails(c) ==
  /\ call[c].pc = "new" /\ Fault
  /\ CallSet(c, [Call0 EXCEPT !.pc = "error"])
  /\ UNCHANGED <<ops, latest, work>> /\ Locks /\ World

BeginFetch(c) == \E prev \in {{}} \union Archives : BeginCall(c, prevFingerprints(prev), prev)

-----------------------------------------------------------------------------
(* The context of the group has ended: with that of the call, or because   *)
(* one of the goroutines of the group has returned an error.               *)
Ended(c) == call[c].ended \/ call[c].failed

EndContext(c) ==
  /\ call[c].pc = "run" /\ ~call[c].ended /\ Fault
  /\ CallSet(c, [call[c] EXCEPT !.ended = TRUE])
  /\ UNCHANGED <<ops, latest, work>> /\ Locks /\ World

(* feeder's select takes either branch once both are ready. *)
Receive(w) ==
  /\ work[w].pc = "recv" /\ call[CallOf(w)].us # <<>>
  /\ WorkSet(w, [work[w] EXCEPT !.pc = "lock", !.name = Head(call[CallOf(w)].us)])
  /\ CallSet(CallOf(w), [call[CallOf(w)] EXCEPT !.us = Tail(@)])
  /\ UNCHANGED <<ops, latest, faults>> /\ Locks /\ World

(* Mutant: feeder does not look at its Context. *)
FeederStopsNever(c) == FALSE /\ UNCHANGED runVars

FeederStops(c) ==
  /\ call[c].us # <<>> /\ Ended(c)
  /\ CallSet(c, [call[c] EXCEPT !.us = <<>>, !.failed = TRUE])
  /\ UNCHANGED <<ops, latest, work, faults>> /\ Locks /\ World

WorkerDone(w) ==
  /\ work[w].pc = "recv" /\ call[CallOf(w)].us = <<>>
  /\ WorkSet(w, [Worker0 EXCEPT !.pc = "done"])
  /\ UNCHANGED <<ops, latest, call, faults>> /\ Locks /\ World

-----------------------------------------------------------------------------
(* fetchOne.  The lock is held until Fetch has returned, and not longer.   *)
(* What follows it differs: Run goes on to parse, Fetch to send a result.  *)
Fetched(w, fp, data, sz) ==
  WorkSet(w, [work[w] EXCEPT !.pc = IF CallOf(w) \in Runs THEN "parse" ELSE "send", !.fp = fp, !.sz = sz,
    !.file = IF CallOf(w) \in Runs /\ sz >= @[1] THEN <<sz, data>> ELSE @, !.data = data])

(* An updater's error is collected by Run and logged by Fetch. *)
UpdaterError(w) ==
  /\ WorkSet(w, Ready(w))
  /\ CallSet(CallOf(w), [call[CallOf(w)] EXCEPT !.errs = @ \union {work[w].name}])

(* A spool that cannot be made or sought ends a worker of Run; one of      *)
(* Fetch goes on to the next updater.                                      *)
SpoolFails(w) ==
  /\ work[w].pc = "lock" /\ Fault
  /\ IF CallOf(w) \in Runs
     THEN /\ WorkSet(w, [Worker0 EXCEPT !.pc = "done"])
          /\ CallSet(CallOf(w), [call[CallOf(w)] EXCEPT !.failed = TRUE])
     ELSE UpdaterError(w)
  /\ UNCHANGED <<ops, latest>> /\ Locks /\ World

GetLock(w) ==
  /\ work[w].pc = "lock" /\ TryLock(w, work[w].name)
  /\ WorkSet(w, [work[w] EXCEPT !.pc = "locked"])
  /\ UNCHANGED <<ops, latest, call, faults>> /\ World

(* Mutant: a lock that is taken is no error. *)
LockTakenIsNil(w) ==
  /\ work[w].pc = "lock" /\ TryLockFails(w, work[w].name)
  /\ WorkSet(w, Ready(w))
  /\ UNCHANGED <<ops, latest, call, faults>> /\ World

LockTaken(w) ==
  /\ work[w].pc = "lock" /\ TryLockFails(w, work[w].name)
  /\ IF Ended(CallOf(w)) THEN Fetched(w, 0, Nothing, 0) /\ UNCHANGED call ELSE UpdaterError(w)
  /\ UNCHANGED <<ops, latest, faults>> /\ World

(* The parent Context has ended: no fingerprint, no data and no error. *)
ParentEnded(w) ==
  /\ work[w].pc = "locked" /\ Ended(CallOf(w)) /\ cancelfunc(w, work[w].name)
  /\ Fetched(w, 0, Nothing, 0)
  /\ UNCHANGED <<ops, latest, call, faults>> /\ World

FetchNew(w) ==
  /\ work[w].pc = "locked" /\ cancelfunc(w, work[w].name)
  /\ LET n == work[w].name
         v == up[n]
     IN  pfp(CallOf(w), n) # v /\ Fetched(w, v, Data(n, v), Size[n][v])
  /\ UNCHANGED <<ops, latest, call, faults>> /\ World

FetchUnchanged(w) ==
  /\ work[w].pc = "locked" /\ cancelfunc(w, work[w].name)
  /\ pfp(CallOf(w), work[w].name) = up[work[w].name]
  /\ WorkSet(w, Ready(w))
  /\ UNCHANGED <<ops, latest, call, faults>> /\ World

FetchFails(w) ==
  /\ work[w].pc = "locked" /\ cancelfunc(w, work[w].name)
  /\ (Ended(CallOf(w)) /\ UNCHANGED faults) \/ Fault
  /\ UpdaterError(w)
  /\ UNCHANGED <<ops, latest>> /\ World

-----------------------------------------------------------------------------
(* fetchAndParse, after the fetch.  The spool is used for one updater      *)
(* after the other and never truncated: the zip is what ends at sz.        *)
WorkerFails(w) ==
  /\ WorkSet(w, [Worker0 EXCEPT !.pc = "done"])
  /\ CallSet(CallOf(w), [call[CallOf(w)] EXCEPT !.failed = TRUE])

NoZip(w) ==
  /\ work[w].pc = "parse" /\ work[w].sz = 0 /\ WorkerFails(w)
  /\ UNCHANGED <<ops, latest, faults>> /\ Locks /\ World

(* Mutant: the zip is what ends at the end of the spool. *)
ReadBackWhole(wk) == wk.file[2]

ReadBack(wk) == wk.data

(* parseOne's calls of the parsers an updater implements, of which that of *)
(* kind bad fails, if any.  The error is dropped with all it should have   *)
(* returned; with no Vulnerabilities there is nothing to take the length   *)
(* of, in a process that ends there.                                       *)
Failing(n) == {"none"} \union impl[n]
FailCost(bad) == IF bad = "none" THEN UNCHANGED faults ELSE Fault
NilVulnerabilities(n, bad) == "vulnerability" \notin impl[n] \ {bad}
ToStore(n, d, bad) == SelectSeq(Kinds, LAMBDA k : k \in (impl[n] \ {bad}) \intersect Content[d[1]][d[2]])
DroppedOf(n, d, bad) == IF bad \in Content[d[1]][d[2]] THEN {n} ELSE {}

AtParse(w) == work[w].pc = "parse" /\ work[w].sz > 0

parseOne(w) ==
  /\ AtParse(w)
  /\ \E bad \in Failing(work[w].name) :
       LET n == work[w].name
           d == ReadBack(work[w])
           todo == ToStore(n, d, bad)
       IN  /\ ~NilVulnerabilities(n, bad) /\ FailCost(bad)
           /\ WorkSet(w, IF todo = <<>> THEN Ready(w) ELSE [work[w] EXCEPT !.pc = "store", !.data = d, !.todo = todo])
           /\ CallSet(CallOf(w), [call[CallOf(w)] EXCEPT !.dropped = @ \union DroppedOf(n, d, bad)])
  /\ UNCHANGED <<ops, latest>> /\ Locks /\ World

(* "did nothing": an updater with no parser at all. *)
NoParser(w) ==
  /\ AtParse(w) /\ impl[work[w].name] = {} /\ UpdaterError(w)
  /\ UNCHANGED <<ops, latest, faults>> /\ Locks /\ World

ParserPanics(w) ==
  /\ AtParse(w) /\ impl[work[w].name] # {}
  /\ \E bad \in Failing(work[w].name) : NilVulnerabilities(work[w].name, bad) /\ FailCost(bad)
  /\ panicked' = TRUE
  /\ UNCHANGED <<up, ops, latest, call, work, parse>> /\ Locks

Operation(n, fp, kind, d) == [updater |-> n, fp |-> fp, kind |-> kind, data |-> d]

(* The store, which is not in this repository for this interface. *)
Update(n, fp, kind, d) ==
  /\ ops' = ops \union {Operation(n, fp, kind, d)}
  /\ latest' = (n :> fp) @@ latest

StoreResult(w) ==
  /\ work[w].pc = "store"
  /\ LET k == work[w]
     IN  /\ Update(k.name, k.fp, Head(k.todo), k.data)
         /\ WorkSet(w, IF Len(k.todo) = 1 THEN Ready(w) ELSE [k EXCEPT !.todo = Tail(@)])
  /\ UNCHANGED <<call, faults>> /\ Locks /\ World

StoreFails(w) ==
  /\ work[w].pc = "store" /\ WorkerFails(w)
  /\ (Ended(CallOf(w)) /\ UNCHANGED faults) \/ Fault
  /\ UNCHANGED <<ops, latest>> /\ Locks /\ World

(* exportV1's collector, which takes a result and adds it to the archive. *)
addUpdater(w) ==
  /\ work[w].pc = "send" /\ call[CallOf(w)].collector = "up"
  /\ CallSet(CallOf(w), [call[CallOf(w)] EXCEPT
       !.entries = @ \union {[name |-> work[w].name, fp |-> work[w].fp, data |-> work[w].data]}])
  /\ WorkSet(w, Ready(w))
  /\ UNCHANGED <<ops, latest, faults>> /\ Locks /\ World

addUpdaterFails(w) ==
  /\ work[w].pc = "send" /\ call[CallOf(w)].collector = "up" /\ Fault
  /\ CallSet(CallOf(w), [call[CallOf(w)] EXCEPT !.collector = "down", !.failed = TRUE])
  /\ WorkSet(w, Ready(w))
  /\ UNCHANGED <<ops, latest>> /\ Locks /\ World

(* eg.Wait has returned.  Fetch then writes the comment and the directory. *)
Waited(c) == call[c].pc = "run" /\ call[c].us = <<>> /\ \A w \in Workers[c] : work[w].pc = "done"

RunDone(c) ==
  /\ Waited(c)
  /\ CallSet(c, [call[c] EXCEPT !.pc =
       CASE call[c].failed -> "error"
         [] ~call[c].failed /\ c \in Strict /\ call[c].errs # {} -> "errors"
         [] OTHER -> "nil"])
  /\ UNCHANGED <<ops, latest, work, faults>> /\ Locks /\ World

FetchDone(c) ==
  /\ Waited(c)
  /\ CallSet(c, [call[c] EXCEPT !.pc = IF call[c].failed THEN "error" ELSE "nil"])
  /\ UNCHANGED <<ops, latest, work, faults>> /\ Locks /\ World

-----------------------------------------------------------------------------
(* Parse: importV1 takes an updater after the other; there is no lock. *)
ParseSet(p, new) == parse' = [parse EXCEPT ![p] = new]
NoWork == UNCHANGED <<up, call, work>> /\ Locks

(* The updaters come from the configuration in the archive. *)
importV1(p, a) == ParseSet(p, [Parse0 EXCEPT !.pc = "next", !.us = updaters(ImportFactories), !.archive = a])

BeginParse(p) ==
  /\ parse[p].pc = "new" /\ \E a \in Archives : importV1(p, a)
  /\ UNCHANGED <<ops, latest, faults, panicked>> /\ NoWork

(* An updater the archive has no directory of is skipped; data that is no  *)
(* zip, and an updater with no parser, end the import.                     *)
Found(p) == {e \in parse[p].archive : parse[p].pc = "next" /\ parse[p].us # <<>> /\ e.name = Head(parse[p].us)}
Rest(p) == [parse[p] EXCEPT !.us = Tail(@)]

ImportSkips(p) ==
  /\ parse[p].pc = "next" /\ parse[p].us # <<>> /\ Found(p) = {} /\ ParseSet(p, Rest(p))
  /\ UNCHANGED <<ops, latest, faults, panicked>> /\ NoWork

ImportBad(p) ==
  /\ \E e \in Found(p) : e.data = Nothing \/ impl[e.name] = {}
  /\ ParseSet(p, [Rest(p) EXCEPT !.pc = "error"])
  /\ UNCHANGED <<ops, latest, faults, panicked>> /\ NoWork

ImportOne(p) ==
  /\ \E e \in Found(p) :
       /\ e.data # Nothing
       /\ \E bad \in Failing(e.name) :
            LET todo == ToStore(e.name, e.data, bad)
            IN  /\ ~NilVulnerabilities(e.name, bad) /\ FailCost(bad)
                /\ ParseSet(p, [Rest(p) EXCEPT !.e = e, !.todo = todo, !.pc = IF todo = <<>> THEN "next" ELSE "store",
                                               !.dropped = @ \union DroppedOf(e.name, e.data, bad)])
  /\ UNCHANGED <<ops, latest, panicked>> /\ NoWork

ImportPanics(p) ==
  /\ \E e \in Found(p) :
       /\ e.data # Nothing /\ impl[e.name] # {}
       /\ \E bad \in Failing(e.name) : NilVulnerabilities(e.name, bad) /\ FailCost(bad)
  /\ panicked' = TRUE
  /\ UNCHANGED <<ops, latest, parse>> /\ NoWork

ImportStore(p) ==
  /\ parse[p].pc = "store"
  /\ LET k == parse[p]
     IN  /\ Update(k.e.name, k.e.fp, Head(k.todo), k.e.data)
         /\ ParseSet(p, [k EXCEPT !.todo = Tail(@), !.pc = IF Len(k.todo) = 1 THEN "next" ELSE "store"])
  /\ UNCHANGED <<faults, panicked>> /\ NoWork

(* Reading an entry of the archive, or storing what it has, fails. *)
ImportFails(p) ==
  /\ parse[p].pc = "store" \/ Found(p) # {}
  /\ Fault /\ ParseSet(p, [parse[p] EXCEPT !.pc = "error"])
  /\ UNCHANGED <<ops, latest, panicked>> /\ NoWork

ParseReturns(p) ==
  /\ parse[p].pc = "next" /\ parse[p].us = <<>> /\ ParseSet(p, [parse[p] EXCEPT !.pc = "nil"])
  /\ UNCHANGED <<ops, latest, faults, panicked>> /\ NoWork

-----------------------------------------------------------------------------
(* The source publishes its next version. *)
PublishNext(n) ==
  /\ up[n] < Len(Content[n]) /\ up' = [up EXCEPT ![n] = @ + 1]
  /\ UNCHANGED <<ops, latest, call, work, parse, faults, panicked>> /\ Locks

fetchOne(w) ==
  GetLock(w) \/ LockTaken(w) \/ ParentEnded(w) \/ FetchNew(w) \/ FetchUnchanged(w) \/ FetchFails(w)

runWorker(w) ==
  \/ Receive(w) \/ WorkerDone(w) \/ SpoolFails(w) \/ fetchOne(w)
  \/ NoZip(w) \/ parseOne(w) \/ NoParser(w) \/ ParserPanics(w) \/ StoreResult(w) \/ StoreFails(w)

exportWorker(w) ==
  \/ Receive(w) \/ WorkerDone(w) \/ SpoolFails(w) \/ fetchOne(w)
  \/ addUpdater(w) \/ addUpdaterFails(w)

ParseStep(p) ==
  \/ BeginParse(p) \/ ImportSkips(p) \/ ImportBad(p) \/ ImportOne(p) \/ ImportPanics(p)
  \/ ImportStore(p) \/ ImportFails(p) \/ ParseReturns(p)

(* The goroutines of the calls of Run and Fetch. *)
Goroutines ==
  \/ \E c \in Runs : RunDone(c) \/ \E w \in Workers[c] : runWorker(w)
  \/ \E c \in Fetches : FetchDone(c) \/ \E w \in Workers[c] : exportWorker(w)
  \/ \E c \in Calls : FeederStops(c)

RunNext ==
  /\ ~panicked
  /\ \/ \E c \in Runs : BeginRun(c) \/ BeginRunFails(c)
     \/ \E c \in Fetches : BeginFetch(c)
     \/ \E c \in Calls : EndContext(c)
     \/ Goroutines
     \/ \E p \in Parses : ParseStep(p)
     \/ \E n \in Keys : PublishNext(n)
  /\ UNCHANGED impl

(* While there is a goroutine that can go on, one does; no one of them has *)
(* to, nor does Parse, and nobody has to publish.                          *)
RunFairness == WF_runVars(~panicked /\ Goroutines /\ UNCHANGED impl)

-----------------------------------------------------------------------------
(* fetchAndParse (updater.go:341): what is stored under a fingerprint is    *)
(* what was fetched with it, of the updater's own source, though workers    *)
(* reuse their spool and the lock is gone when the result is stored.        *)
StoredIsFetched ==
  \A o \in ops : o.data = Data(o.updater, o.fp) /\ o.kind \in Content[o.updater][o.fp]

(* Fetch (offline.go:18, "only changes since what was recorded in prev are  *)
(* written out"), when it returns nil and its Context has not ended: of     *)
(* each updater that did not err, the archive and prev together have what   *)
(* its source published when Fetch began or later, and the archive has at   *)
(* most one entry, whole.  That unchanged updaters are left out is not      *)
(* said: they are not, see prevFingerprints.                                *)
ExportComplete ==
  \A c \in Fetches : call[c].pc = "nil" /\ ~call[c].ended =>
    \A n \in ToSet(updaters(Factories)) \ call[c].errs :
      LET es == {e \in call[c].entries : e.name = n}
      IN  /\ \E e \in es \union call[c].prev : e.name = n /\ e.fp >= call[c].began[n]
          /\ \A e, f \in es : e = f /\ e.data = Data(n, e.fp)

(* Run (updater.go:128): when it returns nil and has collected no error,    *)
(* the store has an operation of each updater it created with the version   *)
(* published when Run began, or a later one, except where a parser's error  *)
(* was dropped; Fetch, see above, likewise.                                 *)
RunCatchesUp ==
  /\ ExportComplete
  /\ \A c \in Runs : call[c].pc = "nil" /\ call[c].errs = {} =>
       \A n \in ToSet(updaters(Factories)) \ call[c].dropped :
         \E o \in ops : o.updater = n /\ o.fp >= call[c].began[n]

(* Parse (offline.go:57), when it returns nil, has stored every kind of     *)
(* record of every entry whose updater it creates, with the entry's own     *)
(* fingerprint, whatever ran at the same time, except the enrichments whose *)
(* parser failed; and all that is stored is what was fetched, see above.    *)
ImportFaithful ==
  /\ StoredIsFetched
  /\ \A p \in Parses : parse[p].pc = "nil" =>
       \A e \in {x \in parse[p].archive : x.name \in ToSet(updaters(ImportFactories))} :
         \A k \in ToSet(ToStore(e.name, e.data, "none")) :
           \/ Operation(e.name, e.fp, k, e.data) \in ops
           \/ k = "enrichment" /\ e.name \in parse[p].dropped

(* Run and Fetch return, with every goroutine they started, unless writing  *)
(* the archive failed (exportV1's workers then wait on `res' for ever).     *)
CallReturns ==
  LET going(c) == call[c].pc = "run" /\ ~panicked /\ call[c].collector = "up"
  IN  (\E c \in Calls : going(c)) ~> (\A c \in Calls : ~going(c))
=============================================================================
