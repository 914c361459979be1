----------------------------- MODULE VulnStore ------------------------------
(***************************************************************************)
(* datastore/postgres, the matcher's half: update operations, the          *)
(* vulnerabilities they refer to and the status of updaters.               *)
(* Rows of a transaction are with its owner until CommitTx.                *)
(***************************************************************************)
EXTENDS Naturals, Sequences, FiniteSets

CONSTANTS Updaters, Vulns, NoRow

ASSUME VulnStoreAssumption == NoRow \notin Updaters

VARIABLES
  update_operation,  \* rows: id, updater, fingerprint, date
  nextid,            \* the table's serial
  vuln,              \* the updater column of a row of vuln, or NoRow
  uo_vuln,           \* pairs operation id, vulnerability
  updater_status     \* of an updater: "none", "ok", "failed"

store == <<update_operation, nextid, vuln, uo_vuln, updater_status>>

StoreInit ==
  /\ update_operation = {} /\ nextid = 1
  /\ vuln = [v \in Vulns |-> NoRow]
  /\ uo_vuln = {}
  /\ updater_status = [u \in Updaters |-> "none"]

Ops(u) == {o \in update_operation : o.updater = u}

Newer(o) == {x \in Ops(o.updater) : x.id > o.id}

(* GetUpdateOperations: the first of an updater's rows by descending id.   *)
LatestOp(u) == CHOOSE o \in Ops(u) : Newer(o) = {}

Linked(id) == {v \in Vulns : <<id, v>> \in uo_vuln}

(* The database's clock: a row is later than those before it or, when the  *)
(* clock was put back, earlier than the last of them.  No two are equal.   *)
Now == 2 * nextid + 2
PutBack == 2 * nextid - 1

(* UpdateVulnerabilities, before its transaction.                          *)
CreateOp(u, fp, date) ==
  /\ update_operation' =
       update_operation \union {[id |-> nextid, updater |-> u, fp |-> fp, date |-> date]}
  /\ nextid' = nextid + 1
  /\ UNCHANGED <<vuln, uo_vuln, updater_status>>

(* The end of the transaction: its rows and links become visible.          *)
CommitTx(u, id, rows, links) ==
  /\ vuln' = [v \in Vulns |-> IF v \in rows THEN u ELSE vuln[v]]
  /\ uo_vuln' = uo_vuln \union ({id} \X links)
  /\ UNCHANGED <<update_operation, nextid, updater_status>>

Later(o) == {x \in Ops(o.updater) : x.date > o.date}

(* Mutant: the slice starts one operation early.                           *)
EligibleEarly(keep) == {o \in update_operation : Cardinality(Later(o)) >= keep - 1}

(* eligibleUpdateOpts: what comes after the latest keep of each updater,   *)
(* by date.                                                                *)
Eligible(keep) == {o \in update_operation : Cardinality(Later(o)) >= keep}

(* The first n refs of that list.  Updaters come in any order, and the     *)
(* operations of one are listed latest first.                              *)
Throttled(keep, n) ==
  LET E == Eligible(keep)
      Of(u) == E \intersect Ops(u)
  IN {S \in SUBSET E :
        /\ Cardinality(S) = IF Cardinality(E) < n THEN Cardinality(E) ELSE n
        /\ \A o \in S : Later(o) \intersect E \subseteq S
        /\ Cardinality({u \in Updaters : S \intersect Of(u) \notin {{}, Of(u)}}) <= 1}

DeleteUpdateOperations(S) ==
  /\ update_operation' = update_operation \ S
  /\ uo_vuln' = {x \in uo_vuln : \A o \in S : x[1] # o.id}
  /\ UNCHANGED <<nextid, vuln, updater_status>>

(* Mutant: only the latest operation counts.                               *)
OrphansOfLatest(u) ==
  {v \in Vulns : vuln[v] = u /\ v \notin Linked(LatestOp(u).id)}

(* vulnCleanup's rows: vulnerabilities of an updater nothing refers to.    *)
Orphans(u) ==
  {v \in Vulns : vuln[v] = u /\ \A x \in uo_vuln : x[2] # v}

(* The rows go as they were selected, and take what refers to them along.  *)
DeleteVulns(S) ==
  /\ vuln' = [v \in Vulns |-> IF v \in S THEN NoRow ELSE vuln[v]]
  /\ uo_vuln' = {x \in uo_vuln : x[2] \notin S}
  /\ UNCHANGED <<update_operation, nextid, updater_status>>

RecordUpdaterStatus(u, ok) ==
  /\ updater_status' = [updater_status EXCEPT ![u] = IF ok THEN "ok" ELSE "failed"]
  /\ UNCHANGED <<update_operation, nextid, vuln, uo_vuln>>

(* Only updaters that have a row.                                          *)
RecordUpdaterSetStatus(us) ==
  /\ updater_status' = [u \in Updaters |->
       IF u \in us /\ updater_status[u] # "none" THEN "ok" ELSE updater_status[u]]
  /\ UNCHANGED <<update_operation, nextid, vuln, uo_vuln>>
=============================================================================
