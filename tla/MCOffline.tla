------------------------------ MODULE MCOffline ------------------------------
(***************************************************************************)
(* The two ways the repository has to carry updates to a database without  *)
(* a network: the jsonblob.Store with OfflineImport, and the archives of   *)
(* package updater.  They share no state, and a behaviour takes one path.  *)
(* Of the calls of package updater it has two, which run at the same time; *)
(* with Parse, updaters may lack a parser.                                 *)
(* One more path is that of three users of package updater's locks.        *)
(***************************************************************************)
EXTENDS Offline, UpdaterRun

CONSTANTS Paths, i1, i2, a, b, x, y, r1, r2, f1, f2, p1, w1, w2, w3, w4, w5
VARIABLE path

OfflineVars == <<vars, runVars, path>>

OfflineInit ==
  /\ Init /\ RunInit /\ path \in Paths
  /\ path \intersect Parses = {} => \A n \in Keys : "vulnerability" \in impl[n]

(* The file is all that the producer and the importers share, and a call   *)
(* of OfflineImport takes it when it begins: what the producer does while  *)
(* a call goes on it may as well do right after the call began, and what   *)
(* does not get into a file that is taken makes no difference.  The order  *)
(* in which entries were made does not show in the file.  Importers are    *)
(* alike, also one that begins again and another, and so are the two       *)
(* workers of Fetch when they wait for an updater: the order in which they *)
(* get to work is fixed.                                                   *)
JustBegun(i) == imp[i].pc = "idle" \/ (imp[i].pc = "next" /\ imp[i].loader = Loader0)

WrittenOut ==
  /\ {file[k].ref : k \in DOMAIN file} = {r \in DOMAIN blob : blob[r].vulns # <<>>}
  /\ file # <<>> => \A r \in DOMAIN blob : blob[r].kind = "vulnerability"
  /\ \A r, t \in DOMAIN blob : r < t => blob[r].updater = a \/ blob[t].updater = b
  /\ \A u \in Updaters : feed[u] = 1 \/ \E r \in DOMAIN blob : blob[r].updater = u /\ blob[r].fp = feed[u]

ImportOrder ==
  /\ imp' = imp => began < MaxImports /\ \A i \in Importers : JustBegun(i)
  /\ imp' # imp => WrittenOut
  /\ imp'[i1].pc = "idle" => imp'[i2].pc = "idle"
  /\ \A i \in Importers : imp[i].pc \in {"done", "failed", "panic"} => imp'[i] = imp[i]

WorkerOrder == work[w2].pc = "recv" /\ work[w3].pc = "recv" => work'[w3].pc # "lock"

CallsOf(calls) ==
  /\ \A c \in Calls \ calls : call'[c].pc = "new"
  /\ \A p \in Parses \ calls : parse'[p].pc = "new"
  /\ Parses \intersect calls = {} => \A c \in Fetches : call'[c].prev = {}

OfflineNext ==
  /\ \/ path = {"jsonblob"} /\ Next /\ ImportOrder /\ UNCHANGED runVars
     \/ path \subseteq Calls \union Parses /\ RunNext /\ CallsOf(path) /\ WorkerOrder /\ UNCHANGED vars
     \/ path = {"locks"} /\ LockNext /\ lk'[w4] = lk[w4] /\ lk'[w5] = lk[w5]
        /\ UNCHANGED <<vars, impl, up, ops, latest, call, work, parse, faults, panicked>>
  /\ UNCHANGED path

OfflineSpec == OfflineInit /\ [][OfflineNext]_OfflineVars /\ RunFairness

(* The locks of package updater, as Run and Fetch use them. *)
LockerPromise == Abstract!Spec

-----------------------------------------------------------------------------
(* Two updaters that share a vulnerability; one of them publishes again. *)
MCFeed == (a :> <<<<x, y>>, <<y>>>>) @@ (b :> <<<<y>>>>)

(* Two updaters, one of which two factories create and publishes again; a  *)
(* factory that fails and a name that is refused.                          *)
A == <<1>>
B == <<2>>
MCKeys == {A, B}
MCPaths == {{"jsonblob"}, {"locks"}, {r1, r2}, {r1, f2}, {r1, p1}, {f1, p1}}
MCWorkers == (r1 :> {w1}) @@ (r2 :> {w4}) @@ (f1 :> {w2, w3}) @@ (f2 :> {w5})
MCFactories == <<[err |-> FALSE, set |-> <<B, <<3, Slash>>>>], [err |-> TRUE, set |-> <<>>], [err |-> FALSE, set |-> <<A, B>>]>>
MCImport == <<[err |-> FALSE, set |-> <<A>>]>>
MCContent == (A :> <<{"vulnerability", "enrichment"}, {"enrichment"}>>) @@ (B :> <<{"vulnerability"}>>)
MCImplements ==
  {(A :> {"vulnerability", "enrichment"}) @@ (B :> {"vulnerability"}), (A :> {}) @@ (B :> {"enrichment"})}
MCOldArchives == {{[name |-> A, fp |-> 1, data |-> Data(A, 1)]}}
MCSize == (A :> <<2, 1>>) @@ (B :> <<1>>)
==============================================================================
