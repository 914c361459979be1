---------------------------- MODULE IndexerStore ----------------------------
(***************************************************************************)
(* datastore/postgres, the indexer's half: the tables and one operator per *)
(* store method.  A method is one statement or one transaction, so it is   *)
(* atomic.  An operator holds when the statement succeeds; callers decide  *)
(* what follows an error.  Every foreign key cascades on delete.           *)
(***************************************************************************)
EXTENDS Naturals, Sequences, FiniteSets

CONSTANTS Manifests, Layers, Scanners,
  layersOf      \* the layers of a manifest, bottom first

ASSUME IndexerStoreAssumption == layersOf \in [Manifests -> Seq(Layers)]

VARIABLES
  manifest,          \* rows of manifest; manifest_layer is layersOf on them
  layer,             \* rows of layer
  scanned_manifest,  \* pairs manifest, scanner
  scanned_layer,     \* pairs layer, scanner
  artifact,          \* scan artifacts stored, one per layer and scanner
  manifest_index,    \* pairs manifest, artifact
  indexreport        \* the report of a manifest, if any

db == <<manifest, layer, scanned_manifest, scanned_layer, artifact, manifest_index, indexreport>>

LayerSet(m) == {layersOf[m][i] : i \in 1..Len(layersOf[m])}

Contents == SUBSET (Layers \X Scanners)

(* IndexReport.State; CheckManifest is never written to a report.          *)
States == {"", "FetchLayers", "ScanLayers", "Coalesce", "IndexManifest", "IndexFinished",
           "IndexError"}

Reports == [state : States, success : BOOLEAN, err : BOOLEAN, content : Contents]

NoReport == [state |-> "none"]

StoreInit ==
  /\ manifest = {} /\ layer = {}
  /\ scanned_manifest = {} /\ scanned_layer = {}
  /\ artifact = {} /\ manifest_index = {}
  /\ indexreport = [m \in Manifests |-> NoReport]

StoreTypeOK ==
  /\ manifest \subseteq Manifests /\ layer \subseteq Layers
  /\ scanned_manifest \subseteq Manifests \X Scanners
  /\ scanned_layer \subseteq Layers \X Scanners
  /\ artifact \in Contents
  /\ manifest_index \subseteq Manifests \X (Layers \X Scanners)
  /\ indexreport \in [Manifests -> Reports \union {NoReport}]

ManifestScanned(m, ss) == \A s \in ss : <<m, s>> \in scanned_manifest

LayerScanned(l, s) == <<l, s>> \in scanned_layer

PersistManifest(m) ==
  /\ manifest' = manifest \union {m}
  /\ layer' = layer \union LayerSet(m)
  /\ UNCHANGED <<scanned_manifest, scanned_layer, artifact, manifest_index, indexreport>>

(* Without the layer's row its id is NULL and the insert fails.            *)
SetLayerScanned(l, s) ==
  /\ l \in layer
  /\ scanned_layer' = scanned_layer \union {<<l, s>>}
  /\ UNCHANGED <<manifest, layer, scanned_manifest, artifact, manifest_index, indexreport>>

(* IndexPackages, IndexDistributions, IndexRepositories, IndexFiles.       *)
IndexArtifacts(l, s) ==
  /\ l \in layer
  /\ artifact' = artifact \union {<<l, s>>}
  /\ UNCHANGED <<manifest, layer, scanned_manifest, scanned_layer, manifest_index, indexreport>>

(* PackagesByLayer and its siblings, for the layers of a manifest.         *)
ArtifactsByLayer(m, ss) == artifact \intersect (LayerSet(m) \X ss)

(* A missing manifest leaves its id NULL, which this table allows.         *)
IndexManifest(m, c) ==
  /\ manifest_index' = IF m \in manifest THEN manifest_index \union ({m} \X c)
                                         ELSE manifest_index
  /\ UNCHANGED <<manifest, layer, scanned_manifest, scanned_layer, artifact, indexreport>>

SetIndexReport(m, rep) ==
  /\ m \in manifest
  /\ indexreport' = [indexreport EXCEPT ![m] = rep]
  /\ UNCHANGED <<manifest, layer, scanned_manifest, scanned_layer, artifact, manifest_index>>

(* A plain INSERT: a row that is already there fails the transaction.      *)
FinishedBefore(m, ss) == ({m} \X ss) \intersect scanned_manifest # {}

SetIndexFinished(m, ss, rep) ==
  /\ m \in manifest /\ ~FinishedBefore(m, ss)
  /\ scanned_manifest' = scanned_manifest \union ({m} \X ss)
  /\ indexreport' = [indexreport EXCEPT ![m] = rep]
  /\ UNCHANGED <<manifest, layer, scanned_layer, artifact, manifest_index>>

DeleteManifestRow(m) ==
  /\ manifest' = manifest \ {m}
  /\ scanned_manifest' = {x \in scanned_manifest : x[1] # m}
  /\ manifest_index' = {x \in manifest_index : x[1] # m}
  /\ indexreport' = [indexreport EXCEPT ![m] = NoReport]
  /\ UNCHANGED <<layer, scanned_layer, artifact>>

(* Layers no manifest refers to go, with what was found in them.           *)
LayerCleanup ==
  LET kept == layer \intersect UNION {LayerSet(m) : m \in manifest}
  IN /\ layer' = kept
     /\ scanned_layer' = {x \in scanned_layer : x[1] \in kept}
     /\ artifact' = {x \in artifact : x[1] \in kept}
     /\ UNCHANGED <<manifest, scanned_manifest, manifest_index, indexreport>>
=============================================================================
