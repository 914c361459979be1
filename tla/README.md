# A TLA+ model of claircore

Claircore indexes container images (Libindex) and matches what it finds against
vulnerability databases (Libvuln). This directory holds TLA+ modules for both
halves, the TLC configurations that check them on small instances, and TLAPS
proofs of the facts that matter most. Paths below are relative to `src/`.

## The system and its parts

* **Libindex** takes a manifest, locks it (`pkg/ctxlock`) and runs a controller:
  check whether the manifest is known, fetch its layers (`libindex/fetcher.go`),
  scan every layer with every scanner (`indexer/layerscanner.go`), coalesce the
  results, index them and record the manifest as finished (`indexer/controller`).
  Everything that outlives a call is in Postgres (`datastore/postgres`).
* **Libvuln** runs updaters on a timer (`libvuln/updates`). An updater fetches a
  source if it has changed, parses it, and the result is stored as an update
  operation; old operations are collected (`gc.go`). `Scan` matches an index
  report against the latest operations (`internal/matcher`). Updates can also be
  carried to a database offline (`libvuln/jsonblob`, `updater`).
* **Ecosystems** (alpine, dpkg, rpm, rhel, rhcc, java, python, ruby, gobin,
  whiteout) say which scanners and which coalescer make the index report.
* **Matchers** say which of a report's packages they answer for, what to ask the
  database and which of the answers apply.

The two halves meet in three places: an index report is the input of `Scan`; the
distribution a scanner writes must be, to the letter, the one an updater files
its vulnerabilities under; and `AffectedManifests` goes from a vulnerability back
to manifests. `Reports` composes the modules around these places.

`PROJECT.json` lists every part with its source files and the modules that model
it, or why it is not modelled, and maps each definition to the lines it models.

## Modules

| module | models | instance | proofs |
|---|---|---|---|
| `CtxLock` | `pkg/ctxlock`: lockers, sessions, advisory locks | `MCCtxLock` | `CtxLockProofs` |
| `LocalLock` | the in-process locks of `updater` and `libvuln/updates` | `MCOffline` | `LocalLockProofs` |
| `LockSpec` | abstract: what a `Locker` promises | | |
| `FetchArena` | `libindex/fetcher.go`: shared downloads, reference counts | `MCFetchArena` | `FetchArenaProofs` |
| `IndexerStore` | the indexer's tables as the controller uses them | | |
| `Indexer` | `Libindex.Index`, controller, LayerScanner, DeleteManifests | `MCIndexer` | `IndexerSteps`, `IndexerProofs` |
| `VulnStore` | update operations, vulnerabilities, their links, updater status | | |
| `Updates` | `libvuln/updates`: managers, `driveUpdater`, garbage collection | `MCUpdates` | `UpdatesProofs` |
| `Feeds` | the `Fetch` of every updater against a changing server | `MCFeeds` | `FeedsProofs` |
| `Offline` | `jsonblob.Store`, `Loader`, `OfflineImport` | `MCOffline` | |
| `UpdaterRun` | package `updater`: `Run`, `Fetch`, `Parse` | `MCOffline` | |
| `Matchers` | `Filter`, `Query`, `Vulnerable` of every matcher, `Get`, the remote matcher | `MCReports` | |
| `Match` | `Match`, `EnrichedMatch` and `Scan` with their goroutines | `MCReports` | `MatchProofs` |
| `Distros` | distribution scanners and the updaters' distributions | `MCReports` | |
| `Scanners` | package, repository and file scanners; ecosystems | `MCReports` | |
| `Artifacts` | contents of the indexer's tables, batched inserts, AffectedManifests | `MCReports` | |
| `Coalescers` | coalescers, `MergeSR`, the whiteout resolver | `MCReports` | |
| `Advisories` | `Parse` of every updater | `MCReports` | |
| `Versions` | version schemes, ranges and orders | `MCReports` | |
| `Reports` | composition of the eight above | `MCReports` | |

Definitions whose comment starts with "Mutant" are variants of the definition
that follows them, with a mistake somebody could make; they show that the
properties notice it and take no part in the specifications.

### CtxLock

A process has one `Locker` with a reconnect loop, a ping ticker and callers; the
database has sessions with counted advisory locks. `gen` and `cur` are the fields
of the struct; a caller's context and the watcher that unlocks it are its
`handle`. Sessions may drop at any time, and client and server notice
independently. Keys hash to lock numbers through `keyify`, which may collide.

`Exclusive` is the promise to callers: two live contexts for one key mean that the
session behind one of them is gone. `NoBotch` says that the branch which reports a
broken protocol cannot be reached; `HolderReleases` that nobody but the granted
caller takes a lock from a session that is up. `LostLockCancelled` and
`LockReturns` are its liveness: the context of a lock that is lost, or whose
locker is closed, is cancelled, and `Lock` returns when its parent ends.

### LocalLock and LockSpec

`localLocker` and `localLockSource` are the same code: a set of keys under a mutex,
and a condition variable on which every waiting thread is woken by every unlock.
`LockInv` says that the set is exactly the keys held, each by one thread, and that
no thread sleeps while its key is free (no lost wake-up). `LockSpec` has only a
holder per key; `Holder` is the refinement mapping, and `LockerPromise` says that
the locks implement it.

### FetchArena

Each proxy fetches the layers of its manifest with one task per layer. A download
is a `flight` shared through `singleflight` and run under the context of the task
that started it. `temp` and `perm` are the files of the arena, `rc` its reference
counts. `Consistent`, `RefsExact` and `InUse` relate the three: a permanent file is
there exactly while its count is positive; as long as no fetch has failed, the
count is the number of references taken and not given back, and a realized layer
has its file. `RealizeReturns` is its
liveness. Opening, sniffing, decompressing and checking the download are one
step that ends well or badly; creating and removing files does not fail.

### IndexerStore and Indexer

`IndexerStore` has a variable per table and an operator per store method; a method
is one statement or one transaction and so one step. What a scanner finds in a
layer is one artifact, the pair of the two; `Artifacts` has the contents.

`Indexer` follows a request through the controller. `pc` is the stateFunc or the
call within one; `Proceed`, `Give` and `Continue` are the switch of
`Controller.run`: what it does after success, after an error, and after the report
was persisted. `vscnrs` belongs to the process, because all its controllers share
one `*indexer.Options`; `checkManifest` reads it in several steps and replaces it,
and the words of the slice header are written one after the other. The scan runs
one task per layer and scanner. The manifest lock is exclusive, and may be lost
some time before the holder's context is cancelled, which is what `CtxLock` shows
of the real one. A process may crash between any two steps and comes back with
its next configuration, so that upgrades are part of the model.

`Consistent` is three facts about the records (every layer of a finished manifest is
recorded for its scanners; scanners only open layers that were fetched; a manifest
is finished once). `ReportKept` says which requests replace a finished report by an
unfinished one: one that failed, one with a scanner the manifest is not recorded for,
or one after a lost lock; the doc comment promises more, see `FinishedReport` below.
`ContentIndexed` says that everything in a successful report can be found by
`AffectedManifests`. `IndexReturns` is its liveness.

### VulnStore and Updates

An instance is a process with a `Manager`; instances meet in the tables and in the
lock source. `Run` ticks, filters and batches the updaters; `driveUpdater` fetches,
parses, opens a transaction, inserts in batches and commits, with every error
path; garbage collection selects in one step and deletes in others. Sources
publish at any time. `Ordered` says that no update overwrites a newer one.
`WholeUpdates` says that an operation gets all the vulnerabilities of its version in
one step and loses one afterwards only to a collection that selected it while no
operation referred to it. `GCKeeps` says that an operation goes only while `Keep` with
a later date stay, whoever works at the same time; it counts by date, as the
statement does, where readers take the latest by id. `RunReturns` and
`EventuallyCurrent` say that runs end and that what a source publishes arrives, if it
never brings back what it dropped.

### Feeds

One behaviour is about one kind of updater: one file with an Etag (alpine, ubuntu,
rhcc), the same with a kept fingerprint (pyupio), `ovalutil.Fetcher`, Debian's
database and Sources files, Amazon's mirrors, the years of CVSS, OSV's
ecosystems. The server publishes between any two requests, may stop sending or
honouring validators, and fails. `Consistent`: the stored fingerprint never names
more than what is stored with it, except for two mirrors of Amazon's and for an
ecosystem of OSV's that answered "not modified", of which it names no more than the
server has. `UnchangedIsCurrent`: a `Fetch` that answers
"unchanged" is right about some moment of that `Fetch`. `Converges`: once the
server is quiet, what is stored becomes what it has. The three say for which
files and kinds they hold; see "Where the code promises more".

### Offline and UpdaterRun

`Offline` fills a `jsonblob.Store`, writes its entries out in any order (the code
ranges over a map) and lets importers, which take no lock, load the file. A reader
may end before the end of the file, or break off with an error: `Loader.Next` then
reports the lines it has as an entry, and `OfflineImport` stores it before it looks at
the error. `RoundTrip`: an import that returned nil saw exactly the entries of the
lines it was given, and the store has an operation for each. `ImportsWhole`: each
operation without all its vulnerabilities goes back to one failed store call or one
bad reader. It is not repaired: the next import finds its fingerprint and skips it.

`UpdaterRun` has the feeders, workers and spool files of `Run` and `Fetch` and the
walk of `Parse`, with their locks (`LocalLock`), the errors of the store, the spools,
the archive and the updaters, and what `parseOne` makes of parsers. An updater without
any is an error; one whose vulnerability parser fails or is missing ends the process,
since `res.Vulnerabilities` is nil (`updater.go:375`); one whose enrichment parser
fails loses its enrichments silently. A parser that returns a result together with an
error is left out. `RunCatchesUp`: when `Run` or `Fetch` reports no error it has missed
no updater, though the records of a failed parser may be missing; what `Fetch` wrote
and the previous archive together are up to date. `ImportFaithful`: `Parse` stores
every entry it has an updater for, under its own fingerprint, but for such enrichments.
`CallReturns`: the calls end, unless writing the archive failed.

The two ways share no state, so `MCOffline` lets a behaviour take one path: the
`jsonblob.Store`; two calls of package `updater` at the same time (two of `Run`, `Run`
and `Fetch`, `Run` and `Parse`, `Fetch` and `Parse`); or any use of the locks by three
threads.

### Reports and the modules it composes

`Match` has the worker pools, channels and errgroups of `EnrichedMatch` and `Match`,
matchers and enrichers that fail and a context that ends; each matcher's step
follows `Controller.Match` with the operators of `Matchers`. The other modules are
functions; a `question` is chosen in the initial state, and its answer compared
with a definition written from what the code is for:

| property | from | compared with |
|---|---|---|
| `ReportComplete` | a call of `Scan`, any interleaving | what every matcher finds alone |
| `Returns` | the same | it returns |
| `AdvisoriesApplied` | a fact a source publishes, through feed format, `Parse`, distribution scanner, `Filter`, `Query`, `Vulnerable` | the fact is about this package, release and version |
| `CoalescersAgree` | images with a package database changed by layers | the last database; linux and rhel place packages alike |
| `FinalImage` | images with files and whiteouts | the layers applied in order |
| `VersionOrder` | pairs of PEP 440 and Maven versions | lexicographic order of what the versions mean |
| `StoredReturns` | sequences of stored scan results | the same results, per layer and scanners |
| `AffectedAgrees` | advisories and manifests through `AffectedManifests` | the manifests whose own report has them |
| `InstalledIndexed` | files of an image, through scanners, store and coalescers | what is installed in the final image, and the language packages deleted from it |

Data is abstract where nothing tells it apart. In `Matchers` a version is a number
ordered as its scheme orders it; in `Versions` it is a sequence of tokens, and
overflow and truncation to the width of the code's integers are kept. In
`Distros` a release file is the phrases the regular expressions look for. In
`Scanners` a layer is a function from paths to parsed contents: headers of an RPM
database, stanzas of a status file, properties of an archive.

## Runs

| run | asks | result |
|---|---|---|
| `ctxlock_procs` | `Exclusive`, `NoBotch`, `HolderReleases`: two callers of a process that loses its sessions and one of another, one key | holds |
| `ctxlock_live` | `IInv`, `LostLockCancelled`, `LockReturns`: colliding keys, `Close`, New's context ending | holds |
| `fetch` | `Consistent`, `InUse`, `RefsExact`, `RealizeReturns`: failures, a cancelled caller, a closing arena | holds |
| `idx_crash` | `Consistent` through a crash, two processes with the same scanners | holds |
| `idx_delete` | `ContentIndexed` with a deletion, a crash and an upgrade | holds |
| `idx_live` | `IndexReturns`, `ReportKept` with an error or a lost answer anywhere, a newer process, a lost lock, a caller that leaves | holds |
| `idx_complete` | `Complete`: does a successful report have everything? | **no** |
| `upd` | `TypeOK`, `GCKeeps`, `WholeUpdates` with a fault, lost answer, lost lock, clock put back or crash anywhere, and a row that is brought back | holds |
| `upd_live` | `Ordered`, `RunReturns`, `EventuallyCurrent` | holds |
| `feeds` | `Consistent`, `UnchangedIsCurrent`, `Converges` for every kind of updater | holds |
| `offline` | the seven properties of `Offline`, `UpdaterRun` and `LocalLock` | holds |
| `reports` | the nine properties of the table above | holds |

`idx_complete` is a finding: `scanLayer` marks a layer as scanned before it stores
what was found (`indexer/layerscanner.go:195`). A request for another image with
the same layer that looks in between skips the layer, coalesces without its
contents and records a successful report. The doc comment at line 120 says that
results are indexed on successful completion.

Runs switch deadlock checking off because requests, callers, proxies, imports and
questions are finitely many and the systems stop when all have returned.

### Bounds

Two processes and two or three callers are enough for every pairwise race; a third
lets one actor undo what two others did (a request that finds the records of two
others in `idx_crash`, a third thread on one key in `offline`). Two layers with
one in common, and two scanners, give partly scanned layers and partly scanned
manifests. A source that publishes three times, with rows that come, stay and
go, makes garbage collection with `Keep = 2` delete something. `BatchSize` is 1 or
2, so that inserts are split. `MaxConn`, `MaxFlight`, `MaxFault`, `MaxFaults`,
`MaxTrouble`, `MaxCrash`, `MaxDelete`, `MaxEntries`, `MaxImports` and `MaxVer` bound
reconnects, downloads, failures, crashes, deletions, stored entries, imports and
published versions. In the liveness runs no step owed by fairness is blocked at
a bound: that would show as a violation.

In `ctxlock_procs` the constraint `MCLoser` has one process keep its first session, while
the other loses its own and reconnects, and its two callers are symmetric; there is no
liveness in that run. `MCOffline` fixes the order of steps that do not affect each
other: what the producer does while an import goes on, in which order entries were
made that are written in any order, which of two like importers begins, and which of two waiting workers of `Fetch` gets the next updater. A previous
archive is given to `Fetch`, and updaters lack parsers, in the paths with `Parse`. Epochs are not among the PEP 440
versions of `VersionOrder`.

The questions of `MCReports` are chosen to hit the borders of each function: for
images, every scanner alone and with one of another ecosystem, in one layer, in
two, and after an upgrade of the database, and every way a scan may fail; for
versions, every pair of a set with missing parts, qualifiers and equal values;
for advisories, fixes before, at and after the installed version, in the same
and in another release.

### Fairness

Goroutines are scheduled and store calls and downloads end, so the steps of each
request, task, worker and background loop are weakly fair; of package `updater`
less is assumed, that some goroutine goes on while one can. Tickers fire: the ping of
`CtxLock`, the manager's `Tick`, the periodic `Fetch` of `Feeds`. A mirror follows its
origin. The one strongly fair step is `LockGiveUp`: `Lock`'s `select` picks among
ready cases at random, so a cancelled parent is not passed over for ever. The pool
hands out a connection when asked. Nothing else is assumed of the environment: no call has to arrive, no
connection to drop, no context to end, no source to publish.

## Proofs

| theorem | says, for every value of the constants |
|---|---|
| `CtxLockProofs!TypeCorrect` | every reachable state is well typed |
| `CtxLockProofs!Inductive` | the inductive invariant `IInv` |
| `CtxLockProofs!MutualExclusion` | `Exclusive` |
| `CtxLockProofs!BotchUnreachable` | `NoBotch` |
| `CtxLockProofs!OnlyHolderReleases` | `HolderReleases` |
| `FetchArenaProofs!CountsInvariant` | the inductive invariant `Counts` |
| `FetchArenaProofs!ArenaConsistent` | `Consistent` |
| `FetchArenaProofs!CountsExact` | `RefsExact` |
| `FetchArenaProofs!FileInUse` | `InUse` |
| `LocalLockProofs!LockInvariant` | `LockInv` |
| `LocalLockProofs!LockImplements` | `LocalLock` implements `LockSpec` |
| `IndexerProofs!IndexerTyped` | `TypeOK` |
| `IndexerProofs!BaseInvariant` | `Base`: types, tasks, reports and foreign keys |
| `IndexerProofs!HeldRecords` | `Records` and `HoldInv`, if no lock is lost |
| `IndexerProofs!KeptRecords` | `Records` and `KeptInv`, if no manifest is deleted |
| `IndexerProofs!IndexedContent` | `ContentIndexed`, if no lock is lost or no manifest deleted |
| `IndexerProofs!ScannedLayers` | `FinishedScanned` under the same, if every scanner can be configured |
| `IndexerProofs!RecordsConsistent` | `Consistent`, under the hypotheses below |
| `IndexerProofs!FinishedReportKept` | `ReportKept` |
| `UpdatesProofs!TablesTyped` | `TypeOK` |
| `UpdatesProofs!TablesInvariant` | the inductive invariant `Tables` |
| `UpdatesProofs!LatestKept` | `GCKeeps` |
| `UpdatesProofs!UpdatesOrdered` | `Ordered`, if no lock is lost |
| `UpdatesProofs!WholeOperations` | `WholeUpdates` |
| `FeedsProofs!FetchInvariant` | the inductive invariant `IInv` |
| `FeedsProofs!FingerprintsConsistent` | `Consistent` |
| `FeedsProofs!UnchangedTrue` | `UnchangedIsCurrent` |
| `MatchProofs!ScanInvariant` | the inductive invariant `IInv` |
| `MatchProofs!CompleteReport` | `ReportComplete` |

**CtxLock.** `Exclusive` does not follow from the server's exclusion alone: a locker
could use a lock of an older session, or unlock one that a newer holder of the same
key has. `IInv` says that generations only grow and a session belongs to one
generation (`GenInv`), that the server's lock counts are those of live grants
(`ServerInv`), that `cur` lists exactly the grants of the current generation
(`CurInv`, `HandleInv`), and that a key has one grant per session (`UniqueInv`).
Assumed: finitely many keys, and a positive number of sessions.

**FetchArena.** `InUse` follows from exact counts; counts stay exact because a proxy
gives back at `Close` only what its tasks took. `Phase` says what a proxy's phase
tells about its tasks, so that the reference `forget` drops is one the proxy has.
That fails after a failed fetch, which is why `RefsExact` and `InUse` are stated for
behaviours without one. Assumed: finitely many proxies.

**LocalLock.** `LockInv` is inductive as it stands. Taking a key is the abstract
`Acquire`, since by the invariant a key not in the set has no holder; the
`CancelFunc` is `Release`; failing, waiting and waking leave `Holder` as it is.
Assumed: `Nobody` is no thread.

**Indexer.** A step of the system is described first by what it is to one request:
`Move` has one case per step of the pipeline, and `Stay` for everybody else's. The
lemmas named after the actions show that every action is such a move, through the
`Proceed`, `Give` and `Leave` it ends in; the invariants are then proved by the
cases of `Move` and by what a step may do to a table (`ManifestCases`,
`ReportCases`, `FinishCases`). `IndexerSteps` has the moves and the invariant `Base`,
`IndexerProofs` the rest and the theorems.

`Records` is the invariant about the tables. `ContentIndexed` is about a report that is
already stored, but `SetIndexReport` writes whatever the controller holds, so the
invariant says what a controller has achieved where it is: its content is in
`manifest_index` once it is past `indexManifest` (`IndexedInv`), each task of the scan
that is done has its row (`ScanInv`), all its layers have theirs when the scan is over
(`ScannedInv`), and the options it shares with others hold only scanners of its
process (`OptsInv`). These say "as long as the manifest's row is there", because
`DeleteManifests` takes no lock. What breaks them is a row that is deleted and comes
back while a request that persisted it earlier still runs, which takes two
requests for one manifest. So either the lock keeps the two apart (`HoldInv`:
whoever is past `Lock` holds it; `LocksKept` says that no step loses a lock) or rows
are not deleted (`KeptInv`, under `NeverDeleted`). With a lost lock and a deletion in
one behaviour `ContentIndexed` fails.

`Consistent` needs more. `Uniform` says that all processes, in every
configuration, run the same set of scanners. Then nothing `checkManifest` stores in the
shared `Vscnrs` changes it (`FullInv`), a manifest is recorded for all scanners or
for none (`AllOrNone`), and a request that went past `checkManifest` is for a
manifest that is recorded for none until it finishes itself (`FreshInv`).
`RecordsConsistent` also assumes that `Configure` fails for no scanner (`Broken = {}`),
that no lock is lost and no manifest deleted, with any number of faults, crashes and
cancelled callers, where the run `idx_crash` has one crash and no fault. For processes
with different lists it is not claimed: their requests narrow the `Vscnrs` they share,
which is one of the hazards.

`FinishedReportKept` assumes nothing of the behaviour. Whoever is past `Lock` holds the
manifest's lock, or one of its requests lost it (`HoldersInv`), and a request that went
past `checkManifest` has a scanner the manifest is not recorded for as long as it has not
failed (`MissingInv`). What it leaves open is what the code leaves open: a request
that fails, in the reads of `checkManifest` or in any later state function, saves its
error over a finished report (`controller.go:112`), and so does one with a new scanner.

Assumed of the constants: every process has at least one configuration, and
`None` is no request.

**Updates.** `Tables` relates the tables to the goroutines that write them: ids come from
a serial and fingerprints from what was published (`OpsInv`), links refer to rows and
operations that exist (`LinkInv`), a transaction under way holds exactly the contents of
its version up to its position, for an operation and rows nobody can delete
(`JobInv`), and what a collector has selected still has `Keep` newer operations
when it comes to delete it (`GCInv`). The last is why `GCKeeps` holds without any
lock and whatever the clock does: adding operations takes no later one away, and
deleting some that each have `Keep` later ones leaves every other with as many as it had
or with `Keep`. `Tables` says that
`update_operation` is finite, which the cardinalities need. `Ordered` needs the lock:
while none is lost (`LocksKept`) an updater at work has it (`HoldsLock`), and what it
fetched is newer than every operation there is (`FreshInv`). `WholeOperations` rests on
`OwnInv`: the operation of a transaction under way has no links yet and is no other's. It
does not say that an operation stays whole, since `vulnCleanup` deletes rows that were
linked after it selected them (`GCOnlyOrphans` below); it says that nothing else takes
a vulnerability from an operation. In `upd_live` no source brings a row back. Assumed of
the constants: `None` is no instance.

**Feeds.** A `Fetch` reads several files while the server changes, so what it stores
at the end depends on what it saw on the way. `IInv` says, for each place a `Fetch`
can be in, what it has learnt: nothing it saw is ahead of the server (`Seen`), the
checksums of `cvss` are no older than its start and no newer than the files read after
them (`AtMeta`, `AtJson`), the checksum of `aws` is that of the one mirror it names
(`AtUpdates`), and `osv` goes through every ecosystem that was there when it began, in a
new list or in the stored one (`AtZips`). That the stored list is enough when the list's
tag is still current is `Lists`: it holds because a new ecosystem gives the list a new
version. Assumed: finitely many files and mirrors, at least one mirror, and no file
called "db" or "list".

**Match.** A matcher's result passes from a worker to a channel to the collector.
`MatchInv` says that the result of a matcher that was handed over is in one of the
three places, or there was an error; `EnrichInv` the same of enrichments; `JobInv` what a
worker has is its job's; and `ClosedInv` that a pool whose sender is through was handed
everything, unless the context ended or a worker failed. When the collector is through
the first two places are empty (`Drained`), which is where `ReportComplete` comes from.
Assumed: a finite number of workers, at least one.

**Only model-checked.** Liveness (fairness and `ENABLED` are out of the prover's
reach). `Offline`: what `Loader.Next` returns depends on where the lines of an entry
are in a file that is put together by a fold. `UpdaterRun`. And the functions of
`Reports`, which work by folds and recursion over data, whose induction the installed
provers cannot do.

## Where the code promises more

Some comments in the code promise what the model does not have. The statements
are definitions next to the ones that hold.

* `FinishedReport` (`Indexer`): after `SetIndexFinished` the finished report is what
  `IndexReport` returns (`indexer/store.go:45`). `ReportKept` says who replaces it.
* `LayerKept` (`FetchArena`): files stay for a proxy when another's fetch fails. `Close`
  gives back a reference for every layer, taken or not (`libindex/fetcher.go:337`).
* `GCOnlyOrphans` (`Updates`): garbage collection deletes no vulnerability that is
  linked between its selection and its deletion (`gc.go:204`).
* `StatusHonest` (`Updates`): an updater whose last run is recorded as a success has its
  last operation loaded. The operation is committed before its vulnerabilities
  (`updatevulnerabilities.go:90`), so a failure in between leaves an empty one,
  which the next fetch takes for current.
* `ReportOrError` (`Match`): a report is complete or comes with an error, also when the
  caller's context ends (`internal/matcher/match.go:126`).
* `MapComplete` (`Feeds`): Debian's map of sources is as new as its database. The Etag
  is kept before the body is read (`debian/sourcemapper.go:125`).
* `StoredWhole` (`Feeds`): OSV's operation has every ecosystem. A server that says "not
  modified" for some leaves them out until the list is fetched again.

Smaller things the model has and no property is about:

* `pkg/ctxlock/ctxlock.go:139`: `Close` between two connections leaves the ping ticker
  running; `:94`: with New's context done the reconnect loop spins; `:152`: that
  context, "only used for logging and initial setup", is behind every ping.
* `libindex/fetcher.go:90`: a shared download runs under the context of the caller that
  started it; `:111`: one that comes second leaves its temporary file.
* `indexer/controller/controller.go:112`: the report is persisted after every state
  function, also of a request that fails, over one that was finished before.
* `libindex/libindex.go:150`: `New` copies `libindex.Options` to `indexer.Options`
  without the `Resolvers` it set at line 112, so no `Resolver` runs. A language package
  that a whiteout deletes stays in the report, where `docs/reference/resolver.md:6` says
  that the Resolvers are called at the end of the coalesce step. `InstalledIndexed` is stated for what the code does;
  `FinalImage` is about the resolver itself.
* `indexer/layerscanner.go:101`: a scanner that cannot be configured is dropped from
  the scan and not from the records.
* `rhel/updaterset.go:107`: the manifest's Etag is remembered before its updaters ran.
* `java/matcher.go:42`: one advisory without an upper version fails the match.
* `datastore/postgres/get.go:50`: one package without a name fails the match.
* `linux/coalescer.go:53`: a layer that empties a database leaves the one below.
* `whiteout/coalescer.go:19`: of several whiteouts in a layer one is kept.
* `pkg/ovalutil/dpkg.go:112`: a state with an architecture is written to a package
  that is not there yet (`DpkgPanics`).
* `libvuln/updates.go:43`: a source that returns to earlier contents is not imported.
* `updater/updater.go:265`: the lock is given up after the fetch, so of two runs the
  older result may be stored last; `:382`: when enrichments fail to be stored, the
  fingerprint of the vulnerabilities is already there; `:320`: the error of an
  enrichment parser is dropped, and its records with it.
* `updater/offline_v1.go:188`: fingerprints of a previous archive are kept with a slash
  and never found, so `Fetch` writes every updater out again, where `offline.go:18` says
  "only changes since what was recorded in "prev" are written out".
* `libvuln/jsonblob/jsonblob.go:88`: a file that breaks off gives its last lines as an
  entry, which `libvuln/updates.go:50` stores under the fingerprint of the whole.
* `updater/locallocker.go:60`: a second call of a `CancelFunc` would free another's
  lock; callers in the repository call it once, and so does the model.

One deviation shows in a function and not in an interleaving. The Ubuntu scanner
does not look at the ID of an os-release file, so a Debian layer that names its
code name there gives two distributions, and the coalescers take whichever the
store returns first (`linux/distsearcher.go:26`). Debian's packages may then be
placed in "Ubuntu" and no advisory applies. `InstalledIndexed` has such an image
(`coded`) and says of it only that each package gets one of the two.

Properties that hold name their exceptions in their comments: linux and rhel
coalescers agree unless a layer empties a database; whiteouts are resolved with
one per layer, and an opaque one in the root hides nothing; a remote matcher's
vulnerabilities may be missing for the batches that failed; PEP 440 versions have at most five parts and one dev release;
`AffectedManifests` does not look at modules.

## Not modelled

* Readers of bytes: the tar file system, RPM database pages, Dockerfile and
  os-release tokenisers, XML and JSON decoding. They are sequential and keep no
  state between calls; `Scanners`, `Distros` and `Advisories` start from what they
  return, failure included.
* CPE names and the text encodings of shared types: conversions of characters. A CPE
  is a value with an equality. A claircore version's text form is left out.
* The orders of Debian, Alpine and RPM versions: external libraries.
* The refreshing cache of Red Hat's mapping files: an input of `Scanners`.
* Building the lists of updaters (releases, mirrors), except RHEL's manifest, and
  the layout of the archive of package `updater`.
* Row locks inside Postgres. The one place where they matter, `layerCleanup` against
  `PersistManifest`, is among the hazards.
* Constructors and facades that hand over to modelled parts, HTTP clients, metrics,
  logging and test helpers.
