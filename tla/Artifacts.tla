----------------------------- MODULE Artifacts -----------------------------
(***************************************************************************)
(* The indexer's store of what the scanners found: RegisterScanners, the   *)
(* Index... and ...ByLayer methods, IndexManifest, and AffectedManifests,  *)
(* which goes back from a vulnerability to the manifests.  A row is named  *)
(* by the columns of its table's unique index instead of a serial number;  *)
(* NULL is <<>>.  A table with further columns is a function from those    *)
(* names, as an insert that conflicts leaves the row as it is.  Of a       *)
(* distribution every column is in the index, so it is its own name.       *)
(***************************************************************************)
EXTENDS Matchers, Sequences, SequencesExt

CONSTANT BatchSize       \* statements in a batch; 500 in the code

NULL == <<>>
Failed == "failed"       \* among the hashes: the call returned an error

Store0 == [scanner |-> {}, package |-> <<>>, dist |-> {}, repo |-> <<>>, file |-> {},
           package_scanartifact |-> <<>>, dist_scanartifact |-> {}, repo_scanartifact |-> {}, file_scanartifact |-> {},
           manifest_index |-> {}]

(* ON CONFLICT DO NOTHING, for rows <<name, other columns>>. *)
InsertRow(table, row) == IF row[1] \in DOMAIN table THEN table ELSE table @@ (row[1] :> row[2])

(* The elements of a set, in some order. *)
Listed(set) == FoldSet(LAMBDA x, acc : Append(acc, x), <<>>, set)

-----------------------------------------------------------------------------
(* microbatch.Insert: Queue sends a full batch first, Done the rest. *)
NewInsert(size) == [size |-> size, batch |-> <<>>, sent |-> <<>>]

sendBatch(b) == [b EXCEPT !.sent = @ \o b.batch, !.batch = <<>>]

(* Mutant: the statement that finds the batch full is not queued. *)
QueueLossy(b, stmt) ==
  IF Len(b.batch) = b.size THEN sendBatch(b) ELSE [b EXCEPT !.batch = Append(@, stmt)]

Queue(b, stmt) ==
  LET ready == IF Len(b.batch) = b.size THEN sendBatch(b) ELSE b
  IN  [ready EXCEPT !.batch = Append(@, stmt)]

Done(b) == IF b.batch = <<>> THEN b ELSE [b EXCEPT !.sent = @ \o b.batch]

(* The rows of the statements that reach the database, in their order. *)
Batched(stmts) == Done(FoldLeft(Queue, NewInsert(BatchSize), stmts)).sent

-----------------------------------------------------------------------------
RegisterScanners(db, vs) == [db EXCEPT !.scanner = @ \cup vs]

selectScanners(db, scnrs) == scnrs \subseteq db.scanner

zeroPackage == [name |-> "", kind |-> "", version |-> NoVersion, module |-> "", arch |-> "", kindOfVersion |-> "", minor |-> 0]
PackageKey(p) == <<p.name, p.kind, p.version, p.module, p.arch>>
SourceOf(p) == IF p.source = None THEN zeroPackage ELSE p.source

(* queueInsert: the columns of a package; no normalized version is NULL. *)
queueInsert(p) == <<PackageKey(p), IF p.kindOfVersion = "" THEN NULL ELSE <<p.kindOfVersion, p.minor>>>>

(* Every package and its source, and an artifact for each with a name.  The *)
(* file path is not part of an artifact's key.                              *)
IndexPackages(db, pkgs, layer, scnr) ==
  LET rows == FlattenSeq([i \in DOMAIN pkgs |-> <<queueInsert(SourceOf(pkgs[i])), queueInsert(pkgs[i])>>])
      named == SelectSeq(pkgs, LAMBDA p : p.name # "")
      artifacts == [i \in DOMAIN named |-> LET p == named[i]
                      IN <<<<layer, scnr, PackageKey(p), PackageKey(SourceOf(p)), p.db, p.hint>>, p.path>>]
  IN  [db EXCEPT !.package = FoldLeft(InsertRow, @, Batched(rows)),
                 !.package_scanartifact = FoldLeft(InsertRow, @, Batched(artifacts))]

IndexDistributions(db, dists, layer, scnr) ==
  [db EXCEPT !.dist = @ \cup ToSet(Batched(dists)),
             !.dist_scanartifact = @ \cup ToSet(Batched([i \in DOMAIN dists |-> <<layer, scnr, dists[i]>>]))]

RepoKey(r) == <<r.name, r.key, r.uri>>

IndexRepositories(db, repos, layer, scnr) ==
  [db EXCEPT !.repo = FoldLeft(InsertRow, @, Batched([i \in DOMAIN repos |-> <<RepoKey(repos[i]), repos[i].cpe>>])),
             !.repo_scanartifact = @ \cup ToSet(Batched([i \in DOMAIN repos |-> <<layer, scnr, RepoKey(repos[i])>>]))]

IndexFiles(db, files, layer, scnr) ==
  [db EXCEPT !.file = @ \cup ToSet(Batched(files)),
             !.file_scanartifact = @ \cup ToSet(Batched([i \in DOMAIN files |-> <<layer, scnr, files[i]>>]))]

-----------------------------------------------------------------------------
(* What scanners found in a layer: {Error} if one was never registered. *)
PackageRow(db, k) ==
  LET norm == db.package[k]
  IN  [id |-> k, name |-> k[1], kind |-> k[2], version |-> k[3], module |-> k[4], arch |-> k[5],
       kindOfVersion |-> IF norm = NULL THEN "" ELSE norm[1], minor |-> IF norm = NULL THEN 0 ELSE norm[2]]

(* The source comes without its normalized version; it is never nil. *)
SourceRow(k) == [zeroPackage EXCEPT !.name = k[1], !.kind = k[2], !.version = k[3], !.module = k[4], !.arch = k[5]] @@ ("id" :> k)

PackagesByLayer(db, layer, scnrs) ==
  IF ~selectScanners(db, scnrs) THEN {Error}
  ELSE {PackageRow(db, a[3]) @@ [source |-> SourceRow(a[4]), db |-> a[5], hint |-> a[6], path |-> db.package_scanartifact[a]] :
          a \in {x \in DOMAIN db.package_scanartifact : x[1] = layer /\ x[2] \in scnrs}}

DistributionsByLayer(db, layer, scnrs) ==
  IF ~selectScanners(db, scnrs) THEN {Error}
  ELSE {a[3] : a \in {x \in db.dist_scanartifact : x[1] = layer /\ x[2] \in scnrs}}

RepositoriesByLayer(db, layer, scnrs) ==
  IF ~selectScanners(db, scnrs) THEN {Error}
  ELSE {LET k == a[3] IN [id |-> k, name |-> k[1], key |-> k[2], uri |-> k[3], cpe |-> db.repo[k]] :
          a \in {x \in db.repo_scanartifact : x[1] = layer /\ x[2] \in scnrs}}

FilesByLayer(db, layer, scnrs) ==
  IF ~selectScanners(db, scnrs) THEN {Error}
  ELSE {a[3] : a \in {x \in db.file_scanartifact : x[1] = layer /\ x[2] \in scnrs}}

-----------------------------------------------------------------------------
(* The searchable index of a manifest's contents. *)
toValues(r) ==
  [source |-> IF r.pkg.source = None THEN NULL ELSE r.pkg.source.id, package |-> r.pkg.id,
   dist |-> IF r.dist = None THEN NULL ELSE <<r.dist>>, repo |-> IF r.repo = None THEN NULL ELSE r.repo.id]

IndexManifest(db, ir, hash) ==
  LET row(v, id) == [package |-> id, dist |-> v.dist, repo |-> v.repo, manifest |-> hash]
      of(r) == LET v == toValues(r) IN (IF v.source = NULL THEN <<>> ELSE <<row(v, v.source)>>) \o <<row(v, v.package)>>
      records == Listed(IndexRecords(ir))
  IN  [db EXCEPT !.manifest_index = @ \cup ToSet(Batched(FlattenSeq([i \in DOMAIN records |-> of(records[i])])))]

(* A record of the vulnerability's distribution and repository, as far as   *)
(* some layer was found to have the very same ones.                         *)
protoRecord(db, v) ==
  LET repo == [name |-> v.repo, key |-> v.repoKey, uri |-> v.repoURI]
  IN  [dist |-> IF v.dist # None /\ v.dist.name # "" /\ v.dist \in db.dist THEN v.dist ELSE None,
       repo |-> IF v.repo # "" /\ RepoKey(repo) \in DOMAIN db.repo THEN repo @@ ("id" :> RepoKey(repo)) ELSE None]

(* OmniMatcher: the matchers in turn, until one says yes or fails. *)
defaultOmniMatcher == <<"alpine", "aws", "debian", "python", "rhel", "ubuntu">>

OmniVulnerable(r, v) ==
  LET step(res, m) == IF res = "no" /\ Filter(m, r) THEN Vulnerable(m, r, v) ELSE res
  IN  FoldLeft(step, "no", defaultOmniMatcher)

(* Mutant: distribution and repository of the package are not compared. *)
AffectedAnyRelease(db, v) ==
  LET pr == protoRecord(db, v)
      rec(k) == [pkg |-> PackageRow(db, k) @@ [source |-> None], dist |-> pr.dist, repo |-> pr.repo]
      keys == {k \in DOMAIN db.package : k[1] = v.pkg /\ OmniVulnerable(rec(k), v) = "yes"}
  IN  IF pr.dist = None /\ pr.repo = None THEN {} ELSE {x.manifest : x \in {y \in db.manifest_index : y.package \in keys}}

(* The packages of the vulnerability's name, of whatever kind and module,  *)
(* that are vulnerable, and the manifests with one of them, that           *)
(* distribution and that repository.                                       *)
AffectedManifests(db, v) ==
  LET pr == protoRecord(db, v)
      rec(k) == [pkg |-> PackageRow(db, k) @@ [source |-> None], dist |-> pr.dist, repo |-> pr.repo]
      keys == {k \in DOMAIN db.package : k[1] = v.pkg}
      affected == {toValues(rec(k)) : k \in {x \in keys : OmniVulnerable(rec(x), v) = "yes"}}
  IN  CASE pr.dist = None /\ pr.repo = None -> {}
        [] \E k \in keys : OmniVulnerable(rec(k), v) = "error" -> {Failed}
        [] OTHER -> {x.manifest : x \in {y \in db.manifest_index :
                       \E a \in affected : y.package = a.package /\ y.dist = a.dist /\ y.repo = a.repo}}

-----------------------------------------------------------------------------
(* Libindex.AffectedManifests: a goroutine for each vulnerability, whose    *)
(* Add's come in some order; the list of each manifest is sorted in the     *)
(* end.  vs is the sequence of that order.                                  *)
Severities == <<"Unknown", "Negligible", "Low", "Medium", "High", "Critical">>
Rank(v) == CHOOSE i \in DOMAIN Severities : Severities[i] = v.severity

NewAffectedManifests == <<>>

Add(a, v, hashes) ==
  [h \in DOMAIN a \cup hashes |-> (IF h \in DOMAIN a THEN a[h] ELSE <<>>) \o (IF h \in hashes THEN <<v>> ELSE <<>>)]

Sort(a) == [h \in DOMAIN a |-> SortSeq(a[h], LAMBDA v, w : Rank(v) > Rank(w))]

LibindexAffectedManifests(db, vs) ==
  IF \E i \in DOMAIN vs : Failed \in AffectedManifests(db, vs[i]) THEN (Failed :> <<>>)
  ELSE Sort(FoldLeft(LAMBDA a, v : Add(a, v, AffectedManifests(db, v)), NewAffectedManifests, vs))
=============================================================================
