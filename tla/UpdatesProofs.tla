--------------------------- MODULE UpdatesProofs ---------------------------
(***************************************************************************)
(* The update operations of libvuln/updates, for any number of instances,  *)
(* updaters and vulnerabilities, any sources and any faults: the tables    *)
(* refer to rows that exist (Tables), garbage collection keeps the latest  *)
(* operations (GCKeeps), operations hold whole updates (WholeUpdates), and *)
(* their order is that of the source as long as no lock is lost (Ordered). *)
(***************************************************************************)
EXTENDS Updates, FiniteSetTheorems, WellFoundedInduction, TLAPS

JobPCs == {"none", "queued", "trylock", "get", "fetch", "create", "insert", "assoc", "status"}

Jobs == [pc : JobPCs, lost : BOOLEAN, prev : Nat, fp : Nat, op : Nat, pos : Nat,
         rows : SUBSET Vulns, links : SUBSET Vulns, ok : BOOLEAN]

OpRows == [id : Nat \ {0}, updater : Updaters, fp : Nat \ {0}, date : Nat]

GCs == [lost : BOOLEAN, ops : SUBSET OpRows, todo : SUBSET Updaters,
        seen : [Updaters -> SUBSET Vulns]]

(* The types, those of the goroutines included.                            *)
Types ==
  /\ nextid \in Nat \ {0}
  /\ update_operation \in SUBSET OpRows
  /\ vuln \in [Vulns -> Updaters \union {NoRow}]
  /\ uo_vuln \in SUBSET (Nat \X Vulns)
  /\ updater_status \in [Updaters -> {"none", "ok", "failed"}]
  /\ up \in [Updaters -> Nat] /\ \A u \in Updaters : up[u] \in 1..Len(feed[u])
  /\ pc \in [Insts -> {"idle", "stub", "run", "eligible", "delete", "distinct", "cleanup"}]
  /\ job \in [Insts -> [Updaters -> Jobs]]
  /\ gc \in [Insts -> GCs]
  /\ lock \in [Locks -> Insts \union {None}]
  /\ trouble \in 0..MaxTrouble

(* Ids come from a serial, fingerprints from what was published and dates  *)
(* from the clock.                                                         *)
OpsInv ==
  /\ \A o \in update_operation : o.id < nextid /\ o.fp <= up[o.updater] /\ o.date <= 2 * nextid
  /\ \A o, x \in update_operation : o.id = x.id => o = x

(* An updater with operations has a newest one: there are finitely many.   *)
NewestInv == \A u \in Updaters : Ops(u) # {} => \E o \in Ops(u) : Newer(o) = {}

(* A transaction under way holds what the contents say up to its position, *)
(* for an operation that nobody can delete once a link refers to it, and   *)
(* for rows that nobody can delete: pub is the version published, next the *)
(* serial, ops the operations and row the rows of the database.            *)
Loading(u, r, pub, next, ops, row) ==
  /\ r.fp \in 1..pub /\ r.op \in 1..(next - 1)
  /\ r.pos \in 1..(Len(feed[u][r.fp]) + 1)
  /\ r.pc = "assoc" => r.pos \in 1..Len(feed[u][r.fp])
  /\ r.links = {feed[u][r.fp][k] : k \in 1..(r.pos - 1)}
  /\ \A o \in ops : o.id = r.op => o.updater = u /\ o.fp = r.fp
  /\ r.links # {} => \E o \in ops : o.id = r.op
  /\ \A v \in r.links : v \in r.rows \/ row[v] # NoRow

Progress(u, r, pub, next, ops, row) ==
  /\ r.pc = "create" => r.fp \in 1..pub
  /\ r.pc \notin {"insert", "assoc"} => r.rows = {} /\ r.links = {}
  /\ r.pc \in {"insert", "assoc"} => Loading(u, r, pub, next, ops, row)

JobOK(u, r) == Progress(u, r, up[u], nextid, update_operation, vuln)

JobInv == \A i \in Insts, u \in Updaters : JobOK(u, job[i][u])

(* Links refer to rows that exist.                                         *)
LinkInv ==
  \A x \in uo_vuln : vuln[x[2]] # NoRow /\ \E o \in update_operation : o.id = x[1]

(* What garbage collection has selected has an id of its own.              *)
GCRows ==
  \A i \in Insts : \A o \in gc[i].ops :
    o.id < nextid /\ \A x \in update_operation : x.id = o.id => x = o

Working == {"get", "fetch", "create", "insert", "assoc", "status"}

(* An updater at work has its lock: true as long as none is lost.          *)
HoldsLock == \A i \in Insts, u \in Updaters : job[i][u].pc \in Working => lock[u] = i

(* The goroutines of a run are gone when the instance collects.            *)
RunInv ==
  \A i \in Insts, u \in Updaters : job[i][u].pc # "none" => pc[i] \in {"stub", "run"}

(* An updater at work has seen, or is about to add, the newest operation.  *)
FreshInv ==
  \A i \in Insts, u \in Updaters :
    /\ job[i][u].pc = "fetch" =>
         job[i][u].prev <= up[u] /\ \A o \in Ops(u) : o.fp <= job[i][u].prev
    /\ job[i][u].pc = "create" => \A o \in Ops(u) : o.fp < job[i][u].fp

-----------------------------------------------------------------------------
(* The goroutine of updater u in instance i goes on to r.                  *)
Goes(i, u, r) == job' = [job EXCEPT ![i][u] = r]

(* A step of one goroutine leaves the others where they are.               *)
LEMMA GoesShape ==
  ASSUME Types, NEW i \in Insts, NEW u \in Updaters, NEW r \in Jobs, Goes(i, u, r)
  PROVE  /\ job' \in [Insts -> [Updaters -> Jobs]]
         /\ job'[i][u] = r
         /\ \A j \in Insts, w \in Updaters : <<j, w>> # <<i, u>> => job'[j][w] = job[j][w]
  BY Zenon DEF Types, Goes

(* GetUpdateOperations returns the row with the greatest id.               *)
LEMMA Latest ==
  ASSUME Types, NewestInv, NEW u \in Updaters, Ops(u) # {}
  PROVE  LatestOp(u) \in Ops(u) /\ \A x \in Ops(u) : x.id <= LatestOp(u).id
<1>1. Ops(u) \in SUBSET update_operation  BY Zenon DEF Ops
<1>2. \A x \in update_operation : x.id \in Nat  BY Zenon DEF Types, OpRows
<1>3. \A y \in Ops(u) : Newer(y) = {} <=> \A x \in Ops(u) : x.id <= y.id
  BY <1>1, <1>2 DEF Newer, Ops
<1>4. \E y \in Ops(u) : Newer(y) = {}  BY Zenon DEF NewestInv
<1>5. LatestOp(u) \in Ops(u) /\ Newer(LatestOp(u)) = {}
  BY <1>4, Zenon DEF LatestOp
<1> QED  BY <1>3, <1>5, Zenon

(* A position of a transaction names a vulnerability.                      *)
LEMMA CurrentType ==
  ASSUME Types, JobInv, NEW i \in Insts, NEW u \in Updaters,
         job[i][u].pc \in {"insert", "assoc"}
  PROVE  LET q == feed[u][job[i][u].fp]
         IN  /\ q \in Seq(Vulns) /\ Len(q) \in Nat
             /\ AtEnd(i, u) <=> job[i][u].pos = Len(q) + 1
             /\ ~AtEnd(i, u) => Current(i, u) \in Vulns /\ job[i][u].pos \in 1..Len(q)
             /\ Current(i, u) = q[job[i][u].pos]
             /\ job[i][u].pc = "assoc" => ~AtEnd(i, u)
<1> DEFINE r == job[i][u]
<1>1. r \in Jobs /\ JobOK(u, r)  BY Zenon DEF Types, JobInv
<1>2. r.fp \in 1..up[u] /\ up[u] \in 1..Len(feed[u])  BY Zenon, <1>1 DEF JobOK, Progress, Loading, Types
<1>3. feed[u] \in Seq(Seq(Vulns))  BY Zenon, UpdatesAssumption
<1>4. r.fp \in 1..Len(feed[u])  BY <1>2, <1>3
<1>5. feed[u][r.fp] \in Seq(Vulns)  BY <1>3, <1>4, SMTT(30)
<1> DEFINE q == feed[u][r.fp]
<1>6. Len(q) \in Nat /\ \A k \in 1..Len(q) : q[k] \in Vulns
  <2>1. ASSUME NEW s \in Seq(Vulns) PROVE Len(s) \in Nat /\ \A k \in 1..Len(s) : s[k] \in Vulns
    OBVIOUS
  <2> HIDE DEF q
  <2> QED  BY <1>5, <2>1, Zenon DEF q
<1>7. r.pos \in 1..(Len(q) + 1) /\ (r.pc = "assoc" => r.pos \in 1..Len(q))
  BY Zenon, <1>1 DEF JobOK, Progress, Loading
<1>8. AtEnd(i, u) <=> r.pos > Len(q)  BY Zenon DEF AtEnd, Contents
<1>9. Current(i, u) = q[r.pos]  BY Zenon DEF Current, Contents
<1> HIDE DEF q, r
<1>10. AtEnd(i, u) <=> r.pos = Len(q) + 1  BY <1>6, <1>7, <1>8
<1>11. ~AtEnd(i, u) => r.pos \in 1..Len(q)  BY <1>6, <1>7, <1>8
<1>12. ~AtEnd(i, u) => Current(i, u) \in Vulns  BY Zenon, <1>6, <1>9, <1>11
<1>13. r.pc = "assoc" => ~AtEnd(i, u)  BY <1>6, <1>7, <1>8
<1> QED  BY <1>5, <1>6, <1>9, <1>10, <1>11, <1>12, <1>13, Zenon DEF q, r

(* What a step of the goroutine of u in i does to the goroutines.          *)
Moves(i, u, r) ==
  /\ job' \in [Insts -> [Updaters -> Jobs]]
  /\ job'[i][u] = r
  /\ \A j \in Insts, w \in Updaters : <<j, w>> # <<i, u>> => job'[j][w] = job[j][w]

(* The next record of a goroutine, action by action.                       *)
LEMMA DriveMoves ==
  ASSUME Types, OpsInv, NewestInv, JobInv, NEW i \in Insts, NEW u \in Updaters
  PROVE  LET r == job[i][u]
         IN /\ r \in Jobs
            /\ Acquire(i, u) => \E p \in {"trylock", "none"} : Moves(i, u, [r EXCEPT !.pc = p])
            /\ Exclude(i, u) => Moves(i, u, [r EXCEPT !.pc = "none"])
            /\ TryLock(i, u) => \E p \in {"get", "none"} : Moves(i, u, [r EXCEPT !.pc = p])
            /\ GetFingerprint(i, u) =>
                 Moves(i, u, [r EXCEPT !.pc = "fetch",
                                       !.prev = IF Ops(u) = {} THEN 0 ELSE LatestOp(u).fp])
            /\ Fetch(i, u) => \/ r.prev = up[u] /\ Moves(i, u, [r EXCEPT !.pc = "status"])
                              \/ r.prev # up[u] /\ Moves(i, u, [r EXCEPT !.pc = "create", !.fp = up[u]])
            /\ Create(i, u) => Moves(i, u, [r EXCEPT !.pc = "insert", !.op = nextid, !.pos = 1])
            /\ Insert(i, u) =>
                 Moves(i, u, [r EXCEPT !.pc = "assoc",
                                       !.rows = {v \in {Current(i, u)} : vuln[v] = NoRow} \union r.rows])
            /\ Assoc(i, u) => Moves(i, u, [r EXCEPT !.pc = "insert", !.pos = r.pos + 1,
                                                    !.links = r.links \union {Current(i, u)}])
            /\ Commit(i, u) => Moves(i, u, [r EXCEPT !.pc = "status", !.rows = {}, !.links = {}, !.ok = TRUE])
            /\ JobError(i, u) => Moves(i, u, [r EXCEPT !.pc = "status", !.rows = {}, !.links = {}, !.ok = FALSE])
            /\ Status(i, u) => Moves(i, u, NoJob)
<1> DEFINE r == job[i][u]
<1>0. r \in Jobs  BY Zenon DEF Types
<1>j. job \in [Insts -> [Updaters -> Jobs]]  BY Zenon DEF Types
<1>g1. Acquire(i, u) => \E p \in {"trylock", "none"} : Goes(i, u, [r EXCEPT !.pc = p])
  BY Zenon, <1>j DEF Acquire, To, Goes
<1>g2. Exclude(i, u) => Goes(i, u, [r EXCEPT !.pc = "none"])
  BY Zenon, <1>j DEF Exclude, To, Goes
<1>g3. TryLock(i, u) => \E p \in {"get", "none"} : Goes(i, u, [r EXCEPT !.pc = p])
  BY Zenon, <1>j DEF TryLock, To, Goes
<1>g4. GetFingerprint(i, u) =>
        Goes(i, u, [r EXCEPT !.pc = "fetch",
                             !.prev = IF Ops(u) = {} THEN 0 ELSE LatestOp(u).fp])
  BY Zenon, <1>j DEF GetFingerprint, Goes
<1>g5. Fetch(i, u) => \/ r.prev = up[u] /\ Goes(i, u, [r EXCEPT !.pc = "status"])
                      \/ r.prev # up[u] /\ Goes(i, u, [r EXCEPT !.pc = "create", !.fp = up[u]])
  BY Zenon, <1>j DEF Fetch, To, Goes
<1>g6. Create(i, u) => Goes(i, u, [r EXCEPT !.pc = "insert", !.op = nextid, !.pos = 1])
  BY Zenon, <1>j DEF Create, Goes
<1>g7. Insert(i, u) =>
        Goes(i, u, [r EXCEPT !.pc = "assoc",
                             !.rows = {v \in {Current(i, u)} : vuln[v] = NoRow} \union r.rows])
  BY Zenon, <1>j DEF Insert, Goes
<1>g8. Assoc(i, u) => Goes(i, u, [r EXCEPT !.pc = "insert", !.pos = r.pos + 1,
                                          !.links = r.links \union {Current(i, u)}])
  BY Zenon, <1>j DEF Assoc, Goes
<1>g9. Commit(i, u) => Goes(i, u, [r EXCEPT !.pc = "status", !.rows = {}, !.links = {}, !.ok = TRUE])
  BY Zenon, <1>j DEF Commit, EndTx, Goes
<1>g10. JobError(i, u) => Goes(i, u, [r EXCEPT !.pc = "status", !.rows = {}, !.links = {}, !.ok = FALSE])
  BY Zenon, <1>j DEF JobError, EndTx, Goes
<1>g11. Status(i, u) => Goes(i, u, NoJob)
  BY Zenon, <1>j DEF Status, Goes
<1>m. ASSUME NEW n \in Jobs, Goes(i, u, n) PROVE Moves(i, u, n)
  BY <1>m, GoesShape, Zenon DEF Moves
<1>p. \A p \in JobPCs : [r EXCEPT !.pc = p] \in Jobs  BY Zenon, <1>0 DEF Jobs
<1>b. \A b \in BOOLEAN : [r EXCEPT !.pc = "status", !.rows = {}, !.links = {}, !.ok = b] \in Jobs
  BY <1>0, Zenon DEF Jobs, JobPCs
<1>c. \A p \in {"trylock", "none", "get", "status"} : [r EXCEPT !.pc = p] \in Jobs
  BY Zenon, <1>p DEF JobPCs
<1>1. Acquire(i, u) => \E p \in {"trylock", "none"} : Moves(i, u, [r EXCEPT !.pc = p])
  <2> HIDE DEF r
  <2>1. \A p \in {"trylock", "none"} : Goes(i, u, [r EXCEPT !.pc = p]) => Moves(i, u, [r EXCEPT !.pc = p])
    BY Zenon, <1>c, <1>m
  <2> QED  BY <2>1, <1>g1, Zenon DEF r
<1>2. Exclude(i, u) => Moves(i, u, [r EXCEPT !.pc = "none"])
  <2> HIDE DEF r
  <2>1. Goes(i, u, [r EXCEPT !.pc = "none"]) => Moves(i, u, [r EXCEPT !.pc = "none"])
    BY Zenon, <1>c, <1>m
  <2> QED  BY <2>1, <1>g2, Zenon DEF r
<1>3. TryLock(i, u) => \E p \in {"get", "none"} : Moves(i, u, [r EXCEPT !.pc = p])
  <2> HIDE DEF r
  <2>1. \A p \in {"get", "none"} : Goes(i, u, [r EXCEPT !.pc = p]) => Moves(i, u, [r EXCEPT !.pc = p])
    BY Zenon, <1>c, <1>m
  <2> QED  BY <2>1, <1>g3, Zenon DEF r
<1>4. GetFingerprint(i, u) =>
        Moves(i, u, [r EXCEPT !.pc = "fetch",
                              !.prev = IF Ops(u) = {} THEN 0 ELSE LatestOp(u).fp])
  <2> DEFINE n == IF Ops(u) = {} THEN 0 ELSE LatestOp(u).fp
  <2>1. n \in Nat  BY Zenon, Latest DEF Types, OpRows, Ops
  <2> HIDE DEF n
  <2>2. [r EXCEPT !.pc = "fetch", !.prev = n] \in Jobs  BY <1>0, <2>1, Zenon DEF Jobs, JobPCs
  <2> HIDE DEF r
  <2>3. Goes(i, u, [r EXCEPT !.pc = "fetch", !.prev = n]) => Moves(i, u, [r EXCEPT !.pc = "fetch", !.prev = n])
    BY Zenon, <1>m, <2>2
  <2> QED  BY <2>3, <1>g4, Zenon DEF n, r
<1>5. Fetch(i, u) => \/ r.prev = up[u] /\ Moves(i, u, [r EXCEPT !.pc = "status"])
                     \/ r.prev # up[u] /\ Moves(i, u, [r EXCEPT !.pc = "create", !.fp = up[u]])
  <2>1. up[u] \in Nat  BY Zenon DEF Types
  <2>2. [r EXCEPT !.pc = "create", !.fp = up[u]] \in Jobs  BY <1>0, <2>1, Zenon DEF Jobs, JobPCs
  <2> HIDE DEF r
  <2>3. Goes(i, u, [r EXCEPT !.pc = "create", !.fp = up[u]]) =>
          Moves(i, u, [r EXCEPT !.pc = "create", !.fp = up[u]])
    BY Zenon, <1>m, <2>2
  <2>4. Goes(i, u, [r EXCEPT !.pc = "status"]) => Moves(i, u, [r EXCEPT !.pc = "status"])
    BY Zenon, <1>c, <1>m
  <2> QED  BY <2>3, <2>4, <1>g5, Zenon DEF r
<1>6. Create(i, u) => Moves(i, u, [r EXCEPT !.pc = "insert", !.op = nextid, !.pos = 1])
  <2>1. [r EXCEPT !.pc = "insert", !.op = nextid, !.pos = 1] \in Jobs
    BY <1>0, Zenon DEF Jobs, JobPCs, Types
  <2> HIDE DEF r
  <2>2. Goes(i, u, [r EXCEPT !.pc = "insert", !.op = nextid, !.pos = 1]) =>
          Moves(i, u, [r EXCEPT !.pc = "insert", !.op = nextid, !.pos = 1])
    BY Zenon, <1>m, <2>1
  <2> QED  BY <2>2, <1>g6, Zenon DEF r
<1>7. Insert(i, u) =>
        Moves(i, u, [r EXCEPT !.pc = "assoc",
                              !.rows = {v \in {Current(i, u)} : vuln[v] = NoRow} \union r.rows])
  <2> SUFFICES ASSUME Insert(i, u)
               PROVE  Moves(i, u, [r EXCEPT !.pc = "assoc",
                              !.rows = {v \in {Current(i, u)} : vuln[v] = NoRow} \union r.rows])
    BY Zenon
  <2>1. Current(i, u) \in Vulns  BY Zenon, CurrentType DEF Insert
  <2> DEFINE R == {v \in {Current(i, u)} : vuln[v] = NoRow} \union r.rows
  <2>a. r.rows \in SUBSET Vulns  BY Zenon, <1>0 DEF Jobs
  <2>2. R \in SUBSET Vulns  BY <2>a, <2>1, Zenon
  <2>3. Goes(i, u, [r EXCEPT !.pc = "assoc", !.rows = R])  BY <1>g7, Zenon
  <2> HIDE DEF R
  <2>4. [r EXCEPT !.pc = "assoc", !.rows = R] \in Jobs  BY <1>0, <2>2, Zenon DEF Jobs, JobPCs
  <2> HIDE DEF r
  <2>5. Moves(i, u, [r EXCEPT !.pc = "assoc", !.rows = R])  BY Zenon, <1>m, <2>3, <2>4
  <2> QED  BY <2>5, Zenon DEF R
<1>8. Assoc(i, u) => Moves(i, u, [r EXCEPT !.pc = "insert", !.pos = r.pos + 1,
                                           !.links = r.links \union {Current(i, u)}])
  <2> SUFFICES ASSUME Assoc(i, u)
               PROVE  Moves(i, u, [r EXCEPT !.pc = "insert", !.pos = r.pos + 1,
                                            !.links = r.links \union {Current(i, u)}])
    BY Zenon
  <2>1. Current(i, u) \in Vulns  BY Zenon, CurrentType DEF Assoc
  <2> DEFINE L == r.links \union {Current(i, u)}
  <2>a. r.links \in SUBSET Vulns /\ r.pos + 1 \in Nat  BY <1>0 DEF Jobs
  <2>2. L \in SUBSET Vulns /\ r.pos + 1 \in Nat  BY <2>a, <2>1, Zenon
  <2>3. Goes(i, u, [r EXCEPT !.pc = "insert", !.pos = r.pos + 1, !.links = L])
    BY <1>g8, Zenon
  <2> HIDE DEF L
  <2>4. [r EXCEPT !.pc = "insert", !.pos = r.pos + 1, !.links = L] \in Jobs
    BY <1>0, <2>2, Zenon DEF Jobs, JobPCs
  <2> HIDE DEF r
  <2>5. Moves(i, u, [r EXCEPT !.pc = "insert", !.pos = r.pos + 1, !.links = L])  BY Zenon, <1>m, <2>3, <2>4
  <2> QED  BY <2>5, Zenon DEF L
<1>9. Commit(i, u) => Moves(i, u, [r EXCEPT !.pc = "status", !.rows = {}, !.links = {}, !.ok = TRUE])
  <2> DEFINE n == [r EXCEPT !.pc = "status", !.rows = {}, !.links = {}, !.ok = TRUE]
  <2>1. n \in Jobs  BY <1>b, Zenon
  <2>2. Commit(i, u) => Goes(i, u, n)  BY <1>g9, Zenon
  <2> HIDE DEF n, r
  <2>3. Commit(i, u) => Moves(i, u, n)  BY <1>m, <2>1, <2>2, Zenon
  <2> QED  BY <2>3, Zenon DEF n
<1>10. JobError(i, u) => Moves(i, u, [r EXCEPT !.pc = "status", !.rows = {}, !.links = {}, !.ok = FALSE])
  <2> DEFINE n == [r EXCEPT !.pc = "status", !.rows = {}, !.links = {}, !.ok = FALSE]
  <2>1. n \in Jobs  BY <1>b, Zenon
  <2>2. JobError(i, u) => Goes(i, u, n)  BY <1>g10, Zenon
  <2> HIDE DEF n, r
  <2>3. JobError(i, u) => Moves(i, u, n)  BY <1>m, <2>1, <2>2, Zenon
  <2> QED  BY <2>3, Zenon DEF n
<1>11. Status(i, u) => Moves(i, u, NoJob)
  <2>1. NoJob \in Jobs  BY Zenon DEF NoJob, Jobs, JobPCs
  <2>2. Goes(i, u, NoJob) => Moves(i, u, NoJob)  BY Zenon, <1>m, <2>1
  <2> QED  BY <2>2, <1>g11, Zenon
<1> HIDE DEF r
<1> QED  BY <1>0, <1>1, <1>2, <1>3, <1>4, <1>5, <1>6, <1>7, <1>8, <1>9, <1>10, <1>11, Zenon DEF r

(* The row of a new operation.                                             *)
NewRow(i, u, d) == [id |-> nextid, updater |-> u, fp |-> job[i][u].fp, date |-> d]

(* A step that adds an operation, whether its caller hears of it or not.   *)
Adds(i, u) ==
  /\ job[i][u].pc = "create" /\ (Create(i, u) \/ JobError(i, u))
  /\ nextid' = nextid + 1 /\ UNCHANGED <<vuln, uo_vuln, updater_status>>
  /\ \E d \in {Now, PutBack} : update_operation' = update_operation \union {NewRow(i, u, d)}

(* A step that commits a transaction, whether its caller hears of it or    *)
(* not.                                                                    *)
Commits(i, u) ==
  /\ job[i][u].pc = "insert" /\ AtEnd(i, u) /\ (Commit(i, u) \/ JobError(i, u))
  /\ CommitTx(u, job[i][u].op, job[i][u].rows, job[i][u].links)

(* What the steps of an updater do to the tables.                          *)
LEMMA DriveStore ==
  ASSUME NEW i \in Insts, NEW u \in Updaters, DriveUpdater(i, u)
  PROVE  UNCHANGED store \/ Adds(i, u) \/ Commits(i, u) \/ Status(i, u)
<1>a. ASSUME NEW d \in {Now, PutBack}, CreateOp(u, job[i][u].fp, d), job[i][u].pc = "create",
             Create(i, u) \/ JobError(i, u)
      PROVE  Adds(i, u)
  BY <1>a, Zenon DEF Adds, CreateOp, NewRow
<1>1. CASE Create(i, u)
  <2>1. \E d \in {Now, PutBack} : CreateOp(u, job[i][u].fp, d)  BY <1>1, Zenon DEF Create
  <2> QED  BY <1>1, <1>a, <2>1, Zenon DEF Create
<1>2. CASE Commit(i, u)  BY <1>2, Zenon DEF Commit, Commits
<1>3. CASE JobError(i, u)
  <2>1. CASE UNCHANGED store  BY <2>1, Zenon
  <2>2. CASE job[i][u].pc = "create" /\ CreateOp(u, job[i][u].fp, Now)  BY <1>3, <1>a, <2>2, Zenon
  <2>3. CASE /\ job[i][u].pc = "insert" /\ AtEnd(i, u)
             /\ CommitTx(u, job[i][u].op, job[i][u].rows, job[i][u].links)
    BY <1>3, <2>3, Zenon DEF Commits
  <2> QED  BY <1>3, <2>1, <2>2, <2>3, Zenon DEF JobError, Leaves
<1> QED
  BY <1>1, <1>2, <1>3, Zenon DEF DriveUpdater, Acquire, Exclude, TryLock, GetFingerprint, Fetch, Insert, Assoc

(* The row of a new operation has its type and its place.                  *)
LEMMA NewRowType ==
  ASSUME Types, JobInv, NEW i \in Insts, NEW u \in Updaters, job[i][u].pc = "create",
         NEW d \in {Now, PutBack}
  PROVE  /\ NewRow(i, u, d) \in OpRows
         /\ NewRow(i, u, d).id = nextid /\ NewRow(i, u, d).updater = u
         /\ NewRow(i, u, d).fp = job[i][u].fp /\ NewRow(i, u, d).fp <= up[u]
         /\ NewRow(i, u, d).date <= 2 * (nextid + 1)
<1>1. JobOK(u, job[i][u])  BY Zenon DEF JobInv
<1>2. job[i][u].fp \in 1..up[u]  BY <1>1, Zenon DEF JobOK, Progress
<1>3. up[u] \in Nat /\ nextid \in Nat \ {0}  BY Zenon DEF Types
<1>4. d \in Nat /\ d <= 2 * (nextid + 1)  BY <1>3 DEF Now, PutBack
<1>5. job[i][u].fp \in Nat \ {0} /\ job[i][u].fp <= up[u]  BY <1>2, <1>3
<1>6. /\ NewRow(i, u, d).id = nextid /\ NewRow(i, u, d).updater = u
      /\ NewRow(i, u, d).fp = job[i][u].fp /\ NewRow(i, u, d).date = d
  BY Zenon DEF NewRow
<1>7. NewRow(i, u, d) \in OpRows  BY <1>3, <1>4, <1>5, Zenon DEF NewRow, OpRows
<1> QED  BY <1>4, <1>5, <1>6, <1>7, Zenon

(* A fault is counted, and the bound is kept.                              *)
LEMMA TroubleType ==
  ASSUME Types
  PROVE  /\ Trouble => trouble' \in 0..MaxTrouble
         /\ \A b \in BOOLEAN : Fails(b) => trouble' \in 0..MaxTrouble
         /\ UNCHANGED trouble => trouble' \in 0..MaxTrouble
  BY UpdatesAssumption DEF Types, Trouble, Fails

(* The goroutines of the updaters keep the types.                          *)
LEMMA DriveTypes ==
  ASSUME Types, OpsInv, NewestInv, JobInv, NEW i \in Insts, NEW u \in Updaters, DriveUpdater(i, u)
  PROVE  Types'
<1> DEFINE r == job[i][u]
<1>0. r \in Jobs  BY Zenon DEF Types
<1>t. trouble' \in 0..MaxTrouble
  <2>1. Trouble \/ UNCHANGED trouble
    BY Zenon DEF DriveUpdater, Acquire, Exclude, TryLock, Refused, GetFingerprint, Fetch,
       Create, Insert, Assoc, Commit, JobError, Status, Fails
  <2> QED  BY Zenon, <2>1, TroubleType
<1>l. lock' \in [Locks -> Insts \union {None}]
  <2>1. CASE TryLock(i, u)  BY ZenonT(30), <2>1 DEF TryLock, Refused, Types, Locks
  <2>2. CASE Status(i, u)  BY Zenon, <2>2 DEF Status, Types, Locks
  <2>3. CASE UNCHANGED lock  BY Zenon, <2>3 DEF Types
  <2> QED
    BY <2>1, <2>2, <2>3, Zenon DEF DriveUpdater, Acquire, Exclude, GetFingerprint, Fetch, Create,
       Insert, Assoc, Commit, JobError
<1>j. job' \in [Insts -> [Updaters -> Jobs]]
  BY DriveMoves, Zenon DEF Moves, DriveUpdater
<1>f. UNCHANGED <<env, pc, gc>>
  BY Zenon DEF DriveUpdater, Acquire, Exclude, TryLock, GetFingerprint, Fetch,
     Create, Insert, Assoc, Commit, JobError, Status
<1>s. /\ nextid' \in Nat \ {0} /\ update_operation' \in SUBSET OpRows
      /\ vuln' \in [Vulns -> Updaters \union {NoRow}] /\ uo_vuln' \in SUBSET (Nat \X Vulns)
      /\ updater_status' \in [Updaters -> {"none", "ok", "failed"}]
  <2>1. CASE Adds(i, u)
    <3>1. PICK d \in {Now, PutBack} : update_operation' = update_operation \union {NewRow(i, u, d)}
      BY <2>1, Zenon DEF Adds
    <3>2. NewRow(i, u, d) \in OpRows  BY <2>1, NewRowType, Zenon DEF Adds
    <3>3. update_operation' \in SUBSET OpRows  BY <3>1, <3>2, Zenon DEF Types
    <3>4. nextid' = nextid + 1 /\ UNCHANGED <<vuln, uo_vuln, updater_status>>  BY <2>1, Zenon DEF Adds
    <3>5. nextid' \in Nat \ {0}  BY <3>4 DEF Types
    <3> QED  BY <3>3, <3>4, <3>5, Zenon DEF Types
  <2>2. CASE Commits(i, u)
    <3>1. CommitTx(u, r.op, r.rows, r.links)  BY Zenon, <2>2 DEF Commits
    <3>2. r.op \in Nat /\ r.links \in SUBSET Vulns  BY Zenon, <1>0 DEF Jobs
    <3>3. vuln' \in [Vulns -> Updaters \union {NoRow}]  BY Zenon, <3>1 DEF CommitTx, Types
    <3>4. uo_vuln' \in SUBSET (Nat \X Vulns)  BY Zenon, <3>1, <3>2 DEF CommitTx, Types
    <3> QED  BY Zenon, <3>1, <3>3, <3>4 DEF CommitTx, Types
  <2>3. CASE Status(i, u)
    BY <2>3, Zenon DEF Status, RecordUpdaterStatus, store, Types
  <2>4. CASE UNCHANGED store  BY Zenon, <2>4 DEF store, Types
  <2> QED  BY <2>1, <2>2, <2>3, <2>4, DriveStore, Zenon
<1> QED  BY Zenon, <1>t, <1>l, <1>j, <1>f, <1>s DEF Types, env

(* A new run has its goroutines queued or not there.                       *)
LEMMA QueueShape ==
  ASSUME Types, NEW i \in Insts, NEW us, Queue(i, us)
  PROVE  /\ job' \in [Insts -> [Updaters -> Jobs]]
         /\ \A w \in Updaters : \/ job'[i][w] = NoJob
                                \/ job'[i][w] = [NoJob EXCEPT !.pc = "queued"]
         /\ \A j \in Insts : j # i => job'[j] = job[j]
<1>1. NoJob \in Jobs /\ [NoJob EXCEPT !.pc = "queued"] \in Jobs
  BY Zenon DEF NoJob, Jobs, JobPCs
<1> DEFINE q == [NoJob EXCEPT !.pc = "queued"]
<1> HIDE DEF q
<1>2. q \in Jobs  BY Zenon, <1>1 DEF q
<1>3. job' = [job EXCEPT ![i] = [w \in Updaters |-> IF w \in us THEN q ELSE NoJob]]
  BY Zenon DEF Queue, q
<1>4. job \in [Insts -> [Updaters -> Jobs]]  BY Zenon DEF Types
<1>5. /\ job' \in [Insts -> [Updaters -> Jobs]]
      /\ \A w \in Updaters : job'[i][w] = NoJob \/ job'[i][w] = q
      /\ \A j \in Insts : j # i => job'[j] = job[j]
  BY Zenon, <1>1, <1>2, <1>3, <1>4
<1> QED  BY <1>5, Zenon DEF q

(* A crash leaves an instance without goroutines.                          *)
LEMMA CrashShape ==
  ASSUME Types, NEW i \in Insts, Crash(i)
  PROVE  /\ job' \in [Insts -> [Updaters -> Jobs]]
         /\ \A w \in Updaters : job'[i][w] = NoJob
         /\ \A j \in Insts : j # i => job'[j] = job[j]
<1>1. NoJob \in Jobs  BY Zenon DEF NoJob, Jobs, JobPCs
<1>2. job' = [job EXCEPT ![i] = [w \in Updaters |-> NoJob]]  BY Zenon DEF Crash
<1>3. job \in [Insts -> [Updaters -> Jobs]]  BY Zenon DEF Types
<1> QED  BY Zenon, <1>1, <1>2, <1>3

(* Losing a lock tells the goroutine that had it, and nobody else.         *)
LEMMA LostShape ==
  ASSUME Types, NEW i \in Insts, NEW n \in Locks, LockLost(i, n)
  PROVE  /\ job' \in [Insts -> [Updaters -> Jobs]]
         /\ \A j \in Insts, w \in Updaters :
              job'[j][w] = job[j][w] \/ job'[j][w] = [job[j][w] EXCEPT !.lost = TRUE]
         /\ gc' \in [Insts -> GCs]
         /\ \A j \in Insts : gc'[j].ops = gc[j].ops /\ gc'[j].seen = gc[j].seen
<1>1. CASE n \in Updaters
  <2>1. gc' = gc /\ Goes(i, n, [job[i][n] EXCEPT !.lost = TRUE])
    BY <1>1, Zenon DEF LockLost, Goes, Types
  <2>2. job[i][n] \in Jobs  BY Zenon, <1>1 DEF Types
  <2>3. [job[i][n] EXCEPT !.lost = TRUE] \in Jobs  BY <2>2, Zenon DEF Jobs
  <2>4. /\ job' \in [Insts -> [Updaters -> Jobs]]
        /\ job'[i][n] = [job[i][n] EXCEPT !.lost = TRUE]
        /\ \A j \in Insts, w \in Updaters : <<j, w>> # <<i, n>> => job'[j][w] = job[j][w]
    BY <1>1, <2>1, <2>3, GoesShape, Zenon
  <2>5. ASSUME NEW j \in Insts, NEW w \in Updaters
        PROVE  job'[j][w] = job[j][w] \/ job'[j][w] = [job[j][w] EXCEPT !.lost = TRUE]
    BY <2>4, Zenon
  <2> QED  BY <2>1, <2>4, <2>5, Zenon DEF Types
<1>2. CASE n \notin Updaters
  <2>1. job' = job /\ gc' = [gc EXCEPT ![i].lost = TRUE]  BY Zenon, <1>2 DEF LockLost
  <2>2. gc \in [Insts -> GCs]  BY Zenon DEF Types
  <2>3. /\ gc' \in [Insts -> GCs]
        /\ \A j \in Insts : gc'[j].ops = gc[j].ops /\ gc'[j].seen = gc[j].seen
    BY <2>1, <2>2, Zenon DEF GCs
  <2> QED  BY <2>1, <2>3, Zenon DEF Types
<1> QED  BY Zenon, <1>1, <1>2

(* The steps of garbage collection, and what they do to its state.         *)
LEMMA GCTypes ==
  ASSUME Types, NEW i \in Insts, GC(i)
  PROVE  Types'
<1>0. gc \in [Insts -> GCs] /\ lock \in [Locks -> Insts \union {None}]  BY Zenon DEF Types
<1>n. NoGC \in GCs  BY Zenon DEF NoGC, GCs
<1>t. trouble' \in 0..MaxTrouble
  <2>1. Trouble \/ UNCHANGED trouble
    BY Zenon DEF GC, EligibleUpdateOpts, DeleteOps, DistinctUpdaters, GCError, GCReturn,
       SelectOrphans, VulnCleanup, CleanupError, Fails
  <2> QED  BY Zenon, <2>1, TroubleType
<1>e. UNCHANGED <<env, job>>
  BY Zenon DEF GC, EligibleUpdateOpts, DeleteOps, DistinctUpdaters, GCError, GCReturn,
     SelectOrphans, VulnCleanup, CleanupError
<1>p. pc' \in [Insts -> {"idle", "stub", "run", "eligible", "delete", "distinct", "cleanup"}]
  BY Zenon DEF GC, EligibleUpdateOpts, DeleteOps, DistinctUpdaters, GCError, GCReturn, EndGC,
     SelectOrphans, VulnCleanup, CleanupError, Types
<1>s. /\ nextid' \in Nat \ {0} /\ update_operation' \in SUBSET OpRows
      /\ vuln' \in [Vulns -> Updaters \union {NoRow}] /\ uo_vuln' \in SUBSET (Nat \X Vulns)
      /\ updater_status' \in [Updaters -> {"none", "ok", "failed"}]
  <2>1. CASE DeleteOps(i)
    BY Zenon, <2>1 DEF DeleteOps, DeleteUpdateOperations, Types
  <2>2. ASSUME NEW u \in Updaters, VulnCleanup(i, u)
        PROVE  /\ nextid' \in Nat \ {0} /\ update_operation' \in SUBSET OpRows
               /\ vuln' \in [Vulns -> Updaters \union {NoRow}] /\ uo_vuln' \in SUBSET (Nat \X Vulns)
               /\ updater_status' \in [Updaters -> {"none", "ok", "failed"}]
    BY Zenon, <2>2 DEF VulnCleanup, DeleteVulns, Types
  <2>3. CASE UNCHANGED store  BY Zenon, <2>3 DEF store, Types
  <2> QED
    BY <2>1, <2>2, <2>3, Zenon DEF GC, EligibleUpdateOpts, DistinctUpdaters, GCError, GCReturn,
       SelectOrphans, CleanupError
<1>g. gc' \in [Insts -> GCs] /\ lock' \in [Locks -> Insts \union {None}]
  <2>1. CASE EligibleUpdateOpts(i)
    <3>1. PICK S \in Throttled(Keep, GCThrottle) : gc' = [gc EXCEPT ![i].ops = S]
      BY <2>1, Zenon DEF EligibleUpdateOpts
    <3>2. S \in SUBSET OpRows  BY Zenon DEF Throttled, Eligible, Types
    <3> QED  BY <1>0, <2>1, <3>1, <3>2, ZenonT(30) DEF EligibleUpdateOpts, GCs
  <2>2. CASE DeleteOps(i)  BY Zenon, <1>0, <2>2 DEF DeleteOps
  <2>3. CASE DistinctUpdaters(i)
    <3>1. {o.updater : o \in update_operation} \in SUBSET Updaters  BY DEF Types, OpRows
    <3> QED  BY <1>0, <2>3, <3>1, ZenonT(30) DEF DistinctUpdaters, GCs
  <2>4. CASE EndGC(i)  BY Zenon, <1>0, <1>n, <2>4 DEF EndGC, Locks
  <2>5. ASSUME NEW u \in Updaters, SelectOrphans(i, u)
        PROVE  gc' \in [Insts -> GCs] /\ lock' \in [Locks -> Insts \union {None}]
    <3>1. Orphans(u) \in SUBSET Vulns  BY Zenon DEF Orphans
    <3> DEFINE q == [gc[i].seen EXCEPT ![u] = Orphans(u)]
               d == gc[i].todo \ {u}
    <3>2. gc[i] \in GCs /\ q \in [Updaters -> SUBSET Vulns] /\ d \in SUBSET Updaters
      BY <1>0, <3>1, Zenon DEF GCs
    <3>3. gc' = [gc EXCEPT ![i] = [gc[i] EXCEPT !.todo = d, !.seen = q]] /\ UNCHANGED lock
      BY <1>0, <2>5, Zenon DEF SelectOrphans
    <3> HIDE DEF q, d
    <3>4. [gc[i] EXCEPT !.todo = d, !.seen = q] \in GCs  BY <3>2, Zenon DEF GCs
    <3> QED  BY <1>0, <3>3, <3>4, Zenon
  <2>6. ASSUME NEW u \in Updaters, VulnCleanup(i, u)
        PROVE  gc' \in [Insts -> GCs] /\ lock' \in [Locks -> Insts \union {None}]
    BY <1>0, <2>6, ZenonT(30) DEF VulnCleanup, GCs
  <2>7. ASSUME NEW u \in Updaters, CleanupError(i, u)
        PROVE  gc' \in [Insts -> GCs] /\ lock' \in [Locks -> Insts \union {None}]
    BY <1>0, <2>7, ZenonT(30) DEF CleanupError, GCs
  <2> QED  BY <2>1, <2>2, <2>3, <2>4, <2>5, <2>6, <2>7, Zenon DEF GC, GCError, GCReturn
<1> QED  BY Zenon, <1>t, <1>e, <1>p, <1>s, <1>g DEF Types, env

(* Every step keeps the types.                                             *)
LEMMA TypesStep ==
  ASSUME Types, OpsInv, NewestInv, JobInv, Next
  PROVE  Types'
<1> DEFINE PCs == {"idle", "stub", "run", "eligible", "delete", "distinct", "cleanup"}
<1>1. ASSUME NEW i \in Insts, Tick(i) \/ RunWithout(i) PROVE Types'
  <2>1. /\ job' \in [Insts -> [Updaters -> Jobs]]
    BY <1>1, QueueShape, Zenon DEF Tick, Run, RunStub, RunWithout
  <2>2. pc' \in [Insts -> PCs]
    BY <1>1, Zenon DEF Tick, Run, RunStub, RunWithout, Types
  <2>3. Trouble \/ UNCHANGED trouble
    BY <1>1, Zenon DEF Tick, Run, RunStub, RunWithout
  <2>4. UNCHANGED <<store, up, gc, lock>>
    BY <1>1, Zenon DEF Tick, Run, RunStub, RunWithout, env
  <2> QED  BY Zenon, <2>1, <2>2, <2>3, <2>4, TroubleType DEF Types, store
<1>2. ASSUME NEW i \in Insts, StubStatus(i) PROVE Types'
  <2>1. Trouble \/ UNCHANGED trouble  BY <1>2, Zenon DEF StubStatus, Fails
  <2>2. pc' \in [Insts -> PCs]  BY Zenon, <1>2 DEF StubStatus, Types
  <2>3. updater_status' \in [Updaters -> {"none", "ok", "failed"}]
    BY <1>2, Zenon DEF StubStatus, RecordUpdaterSetStatus, store, Types
  <2>4. UNCHANGED <<update_operation, nextid, vuln, uo_vuln, env, job, gc, lock>>
    BY <1>2, Zenon DEF StubStatus, RecordUpdaterSetStatus, store
  <2> QED  BY Zenon, <2>1, <2>2, <2>3, <2>4, TroubleType DEF Types, env
<1>3. ASSUME NEW i \in Insts, Wait(i) PROVE Types'
  <2>1. Trouble \/ UNCHANGED trouble  BY <1>3, Zenon DEF Wait, Refused, Fails
  <2>2. pc' \in [Insts -> PCs]  BY <1>3, Zenon DEF Wait, Types
  <2>3. lock' \in [Locks -> Insts \union {None}]  BY ZenonT(30), <1>3 DEF Wait, Refused, Types, Locks
  <2>4. UNCHANGED <<store, env, job, gc>>  BY <1>3, Zenon DEF Wait
  <2> QED  BY Zenon, <2>1, <2>2, <2>3, <2>4, TroubleType DEF Types, env, store
<1>4. ASSUME NEW i \in Insts, Stop(i) PROVE Types'
  <2>1. Trouble /\ UNCHANGED <<store, up, pc, job, gc, lock>>  BY <1>4, Zenon DEF Stop
  <2> QED  BY Zenon, <2>1, TroubleType DEF Types, store
<1>5. ASSUME NEW i \in Insts, Crash(i) PROVE Types'
  <2>1. Trouble /\ UNCHANGED <<store, up>>  BY <1>5, Zenon DEF Crash
  <2>2. pc' \in [Insts -> PCs]  BY Zenon, <1>5 DEF Crash, Types
  <2>3. NoGC \in GCs  BY Zenon DEF NoGC, GCs
  <2>4. gc' \in [Insts -> GCs]  BY Zenon, <1>5, <2>3 DEF Crash, Types
  <2>5. lock' \in [Locks -> Insts \union {None}]  BY Zenon, <1>5 DEF Crash, Types
  <2>6. job' \in [Insts -> [Updaters -> Jobs]]  BY Zenon, <1>5, CrashShape
  <2> QED  BY Zenon, <2>1, <2>2, <2>4, <2>5, <2>6, TroubleType DEF Types, store
<1>6. ASSUME NEW i \in Insts, NEW n \in Locks, LockLost(i, n) PROVE Types'
  <2>1. Trouble /\ UNCHANGED <<store, env, pc>>  BY <1>6, Zenon DEF LockLost
  <2>2. lock' \in [Locks -> Insts \union {None}]  BY Zenon, <1>6 DEF LockLost, Types
  <2>3. gc' \in [Insts -> GCs] /\ job' \in [Insts -> [Updaters -> Jobs]]  BY Zenon, <1>6, LostShape
  <2> QED  BY Zenon, <2>1, <2>2, <2>3, TroubleType DEF Types, store, env
<1>7. ASSUME NEW u \in Updaters, Publish(u) PROVE Types'
  <2>1. UNCHANGED <<store, pc, job, gc, lock, trouble>>  BY <1>7, Zenon DEF Publish
  <2>2. up' \in [Updaters -> Nat] /\ \A w \in Updaters : up'[w] \in 1..Len(feed[w])
    <3>1. up \in [Updaters -> Nat] /\ \A w \in Updaters : up[w] \in 1..Len(feed[w])  BY Zenon DEF Types
    <3>2. up[u] < Len(feed[u]) /\ up' = [up EXCEPT ![u] = @ + 1]  BY Zenon, <1>7 DEF Publish
    <3>3. Len(feed[u]) \in Nat  BY UpdatesAssumption
    <3> QED  BY <3>1, <3>2, <3>3
  <2> QED  BY Zenon, <2>1, <2>2 DEF Types, store
<1> QED
  BY <1>1, <1>2, <1>3, <1>4, <1>5, <1>6, <1>7, GCTypes, DriveTypes, Zenon DEF Next, Step

-----------------------------------------------------------------------------
TablesSame == UNCHANGED <<update_operation, nextid, vuln, uo_vuln>>

(* The steps that change the operations, rows and links.                   *)
LEMMA StoreStep ==
  ASSUME Next
  PROVE  \/ TablesSame
         \/ \E i \in Insts, u \in Updaters : Adds(i, u) \/ Commits(i, u) \/ VulnCleanup(i, u)
         \/ \E i \in Insts : DeleteOps(i)
<1>1. ASSUME NEW i \in Insts, Tick(i) \/ RunWithout(i) \/ StubStatus(i) \/ Wait(i) \/ Stop(i) \/ Crash(i)
      PROVE  TablesSame
  BY <1>1, Zenon DEF Tick, Run, RunStub, RunWithout, StubStatus, RecordUpdaterSetStatus, Wait, Stop,
     Crash, TablesSame, store
<1>2. ASSUME NEW i \in Insts, NEW u \in Updaters, DriveUpdater(i, u)
      PROVE  TablesSame \/ Adds(i, u) \/ Commits(i, u)
  BY <1>2, DriveStore, Zenon DEF Status, RecordUpdaterStatus, TablesSame, store
<1>3. ASSUME NEW i \in Insts, GC(i)
      PROVE  TablesSame \/ DeleteOps(i) \/ \E u \in Updaters : VulnCleanup(i, u)
  BY <1>3, Zenon DEF GC, EligibleUpdateOpts, DistinctUpdaters, GCError, GCReturn, SelectOrphans,
     CleanupError, TablesSame, store
<1>4. ASSUME NEW i \in Insts, NEW n \in Locks, LockLost(i, n) PROVE TablesSame
  BY <1>4, Zenon DEF LockLost, TablesSame, store
<1>5. ASSUME NEW u \in Updaters, Publish(u) PROVE TablesSame
  BY <1>5, Zenon DEF Publish, TablesSame, store
<1> QED  BY <1>1, <1>2, <1>3, <1>4, <1>5, Zenon DEF Next, Step

(* A source only ever publishes newer versions.                            *)
LEMMA UpGrows ==
  ASSUME Types, Next, NEW u \in Updaters
  PROVE  up[u] <= up'[u] /\ up[u] \in Nat /\ up'[u] \in Nat
<1>1. CASE UNCHANGED up  BY <1>1 DEF Types
<1>2. ASSUME NEW w \in Updaters, Publish(w) PROVE up[u] <= up'[u] /\ up'[u] \in Nat
  BY <1>2 DEF Publish, Types
<1>3. \/ UNCHANGED up
      \/ \E w \in Updaters : Publish(w)
  <2>1. ASSUME NEW i \in Insts, Tick(i) \/ RunWithout(i) \/ StubStatus(i) \/ Wait(i) \/ Stop(i) \/ Crash(i)
        PROVE  UNCHANGED up
    BY <2>1, Zenon DEF Tick, Run, RunStub, RunWithout, StubStatus, Wait, Stop, Crash, env
  <2>2. ASSUME NEW i \in Insts, NEW w \in Updaters, DriveUpdater(i, w) PROVE UNCHANGED up
    BY <2>2, Zenon DEF DriveUpdater, Acquire, Exclude, TryLock, GetFingerprint, Fetch, Create, Insert,
       Assoc, Commit, JobError, Status, env
  <2>3. ASSUME NEW i \in Insts, GC(i) PROVE UNCHANGED up
    BY <2>3, Zenon DEF GC, EligibleUpdateOpts, DeleteOps, DistinctUpdaters, GCError, GCReturn,
       SelectOrphans, VulnCleanup, CleanupError, env
  <2>4. ASSUME NEW i \in Insts, NEW n \in Locks, LockLost(i, n) PROVE UNCHANGED up
    BY <2>4, Zenon DEF LockLost, env
  <2> QED  BY <2>1, <2>2, <2>3, <2>4, Zenon DEF Next, Step
<1> QED  BY Zenon, <1>1, <1>2, <1>3 DEF Types

(* A serial is used once.                                                  *)
LEMMA OpsStep ==
  ASSUME Types, OpsInv, JobInv, Next
  PROVE  OpsInv'
<1>1. \A o \in update_operation :
        /\ o.id \in Nat /\ o.date \in Nat /\ o.id < nextid /\ o.fp <= up'[o.updater]
        /\ o.date <= 2 * nextid
  <2> SUFFICES ASSUME NEW o \in update_operation
               PROVE  /\ o.id \in Nat /\ o.date \in Nat /\ o.id < nextid /\ o.fp <= up'[o.updater]
                      /\ o.date <= 2 * nextid
    BY Zenon
  <2>1. o.id \in Nat /\ o.fp \in Nat /\ o.updater \in Updaters /\ o.date \in Nat  BY Zenon DEF Types, OpRows
  <2>2. o.id < nextid /\ o.fp <= up[o.updater] /\ o.date <= 2 * nextid  BY Zenon DEF OpsInv
  <2>3. up[o.updater] <= up'[o.updater] /\ up[o.updater] \in Nat /\ up'[o.updater] \in Nat
    BY Zenon, <2>1, UpGrows
  <2> QED  BY <2>1, <2>2, <2>3
<1>2. nextid \in Nat  BY Zenon DEF Types
<1>3. ASSUME update_operation' \subseteq update_operation, nextid' = nextid PROVE OpsInv'
  BY Zenon, <1>1, <1>3 DEF OpsInv
<1>4. ASSUME NEW i \in Insts, NEW u \in Updaters, Adds(i, u) PROVE OpsInv'
  <2>0. PICK d \in {Now, PutBack} : update_operation' = update_operation \union {NewRow(i, u, d)}
    BY <1>4, Zenon DEF Adds
  <2> DEFINE o == NewRow(i, u, d)
  <2>1. job[i][u].pc = "create"  BY <1>4, Zenon DEF Adds
  <2>2. o.id = nextid /\ o.updater = u /\ o.fp <= up[u] /\ o.date <= 2 * (nextid + 1) /\ o \in OpRows
    BY <2>1, NewRowType, Zenon
  <2>3. up[u] <= up'[u] /\ up[u] \in Nat /\ up'[u] \in Nat  BY Zenon, UpGrows
  <2>4. o.fp \in Nat /\ o.date \in Nat  BY <2>2, Zenon DEF OpRows
  <2>5. update_operation' = update_operation \union {o} /\ nextid' = nextid + 1
    BY <2>0, <1>4, Zenon DEF Adds
  <2> HIDE DEF o
  <2>6. o.fp <= up'[o.updater]  BY <2>2, <2>3, <2>4
  <2>7. \A x \in update_operation' : x.id < nextid' /\ x.fp <= up'[x.updater] /\ x.date <= 2 * nextid'
    BY <1>1, <1>2, <2>2, <2>4, <2>5, <2>6
  <2>8. \A x, y \in update_operation' : x.id = y.id => x = y
    BY <1>1, <1>2, <2>2, <2>5 DEF OpsInv
  <2> QED  BY Zenon, <2>7, <2>8 DEF OpsInv
<1>5. ASSUME NEW i \in Insts, NEW u \in Updaters, Commits(i, u) \/ VulnCleanup(i, u)
      PROVE  update_operation' \subseteq update_operation /\ nextid' = nextid
  BY <1>5, Zenon DEF Commits, CommitTx, VulnCleanup, DeleteVulns
<1>6. ASSUME NEW i \in Insts, DeleteOps(i)
      PROVE  update_operation' \subseteq update_operation /\ nextid' = nextid
  BY <1>6, Zenon DEF DeleteOps, DeleteUpdateOperations
<1>7. ASSUME TablesSame PROVE update_operation' \subseteq update_operation /\ nextid' = nextid
  BY <1>7, Zenon DEF TablesSame
<1> QED  BY <1>3, <1>4, <1>5, <1>6, <1>7, StoreStep, Zenon

(* The transaction that commits has an operation and rows for its links.   *)
LEMMA LinkStep ==
  ASSUME Types, OpsInv, JobInv, LinkInv, Next
  PROVE  LinkInv'
<1>0. uo_vuln \in SUBSET (Nat \X Vulns) /\ vuln \in [Vulns -> Updaters \union {NoRow}]  BY Zenon DEF Types
<1>1. ASSUME TablesSame PROVE LinkInv'
  BY Zenon, <1>1 DEF TablesSame, LinkInv
<1>2. ASSUME NEW i \in Insts, NEW u \in Updaters, Adds(i, u) PROVE LinkInv'
  <2>1. update_operation \subseteq update_operation' /\ vuln' = vuln /\ uo_vuln' = uo_vuln
    BY <1>2, Zenon DEF Adds
  <2> QED  BY Zenon, <2>1 DEF LinkInv
<1>3. ASSUME NEW i \in Insts, NEW u \in Updaters, Commits(i, u) PROVE LinkInv'
  <2> DEFINE r == job[i][u]
  <2>1. r.pc = "insert" /\ JobOK(u, r) /\ r \in Jobs  BY Zenon, <1>3 DEF Commits, JobInv, Types
  <2>2. /\ r.links # {} => \E o \in update_operation : o.id = r.op
        /\ \A v \in r.links : v \in r.rows \/ vuln[v] # NoRow
    BY <2>1, Zenon DEF JobOK, Progress, Loading
  <2>3. r.links \in SUBSET Vulns  BY <2>1, Zenon DEF Jobs
  <2>4. CommitTx(u, r.op, r.rows, r.links)  BY Zenon, <1>3 DEF Commits
  <2> HIDE DEF r
  <2>5. /\ vuln' = [v \in Vulns |-> IF v \in r.rows THEN u ELSE vuln[v]]
        /\ uo_vuln' = uo_vuln \union ({r.op} \X r.links)
        /\ update_operation' = update_operation
    BY <2>4, Zenon DEF CommitTx
  <2>6. u # NoRow  BY Zenon, VulnStoreAssumption
  <2>7. \A v \in Vulns : vuln[v] # NoRow \/ v \in r.rows => vuln'[v] # NoRow  BY Zenon, <2>5, <2>6
  <2> SUFFICES ASSUME NEW x \in uo_vuln'
               PROVE  vuln'[x[2]] # NoRow /\ \E o \in update_operation : o.id = x[1]
    BY Zenon, <2>5 DEF LinkInv
  <2>8. CASE x \in uo_vuln
    <3>1. x[2] \in Vulns  BY Zenon, <1>0, <2>8
    <3> QED  BY Zenon, <2>7, <2>8, <3>1 DEF LinkInv
  <2>9. CASE x \in {r.op} \X r.links
    <3>1. x[1] = r.op /\ x[2] \in r.links /\ x[2] \in Vulns  BY Zenon, <2>3, <2>9
    <3> QED  BY Zenon, <2>2, <2>7, <3>1
  <2> QED  BY Zenon, <2>5, <2>8, <2>9
<1>4. ASSUME NEW i \in Insts, DeleteOps(i) PROVE LinkInv'
  <2> DEFINE S == gc[i].ops
  <2>1. /\ update_operation' = update_operation \ S /\ vuln' = vuln
        /\ uo_vuln' = {x \in uo_vuln : \A o \in S : x[1] # o.id}
    BY <1>4, Zenon DEF DeleteOps, DeleteUpdateOperations
  <2> HIDE DEF S
  <2> QED  BY Zenon, <2>1 DEF LinkInv
<1>5. ASSUME NEW i \in Insts, NEW u \in Updaters, VulnCleanup(i, u) PROVE LinkInv'
  <2> DEFINE S == gc[i].seen[u]
  <2>1. /\ update_operation' = update_operation
        /\ vuln' = [v \in Vulns |-> IF v \in S THEN NoRow ELSE vuln[v]]
        /\ uo_vuln' = {x \in uo_vuln : x[2] \notin S}
    BY <1>5, Zenon DEF VulnCleanup, DeleteVulns
  <2> HIDE DEF S
  <2>2. \A x \in uo_vuln : x[2] \in Vulns  BY Zenon, <1>0
  <2> QED  BY Zenon, <2>1, <2>2 DEF LinkInv
<1> QED  BY <1>1, <1>2, <1>3, <1>4, <1>5, StoreStep, Zenon

-----------------------------------------------------------------------------
(* A goroutine without a transaction.                                      *)
Quiet(r) == r.pc \notin {"create", "insert", "assoc"} /\ r.rows = {} /\ r.links = {}

(* What may become of a goroutine in a step.                               *)
LEMMA JobCases ==
  ASSUME Types, OpsInv, NewestInv, JobInv, Next, NEW j \in Insts, NEW w \in Updaters
  PROVE  \/ job'[j][w] = job[j][w]
         \/ job'[j][w] = [job[j][w] EXCEPT !.lost = TRUE] /\ TablesSame
         \/ Quiet(job'[j][w])
         \/ job'[j][w] = [job[j][w] EXCEPT !.pc = "create", !.fp = up[w]] /\ Fetch(j, w)
         \/ Create(j, w) \/ Insert(j, w) \/ Assoc(j, w)
<1> DEFINE Case == \/ job'[j][w] = job[j][w]
                   \/ job'[j][w] = [job[j][w] EXCEPT !.lost = TRUE] /\ TablesSame
                   \/ Quiet(job'[j][w])
                   \/ job'[j][w] = [job[j][w] EXCEPT !.pc = "create", !.fp = up[w]] /\ Fetch(j, w)
                   \/ Create(j, w) \/ Insert(j, w) \/ Assoc(j, w)
<1>n. Quiet(NoJob) /\ Quiet([NoJob EXCEPT !.pc = "queued"])
  BY Zenon DEF Quiet, NoJob
<1>1. ASSUME NEW i \in Insts, Tick(i) \/ RunWithout(i) PROVE Case
  <2>1. /\ \A v \in Updaters : \/ job'[i][v] = NoJob
                               \/ job'[i][v] = [NoJob EXCEPT !.pc = "queued"]
        /\ \A k \in Insts : k # i => job'[k] = job[k]
    BY <1>1, QueueShape, Zenon DEF Tick, Run, RunStub, RunWithout
  <2> QED  BY <1>n, <2>1, Zenon
<1>2. ASSUME NEW i \in Insts, Crash(i) PROVE Case
  BY <1>2, <1>n, CrashShape, Zenon
<1>3. ASSUME NEW i \in Insts, NEW n \in Locks, LockLost(i, n) PROVE Case
  <2>1. TablesSame  BY <1>3, Zenon DEF LockLost, TablesSame, store
  <2> QED  BY <1>3, <2>1, LostShape, Zenon
<1>4. ASSUME NEW i \in Insts, StubStatus(i) \/ Wait(i) \/ Stop(i) \/ GC(i) PROVE Case
  <2>1. job' = job
    BY <1>4, Zenon DEF StubStatus, Wait, Stop, GC, EligibleUpdateOpts, DeleteOps, DistinctUpdaters,
       GCError, GCReturn, SelectOrphans, VulnCleanup, CleanupError
  <2> QED  BY <2>1, Zenon
<1>5. ASSUME NEW u \in Updaters, Publish(u) PROVE Case
  BY <1>5, Zenon DEF Publish
<1>6. ASSUME NEW i \in Insts, NEW u \in Updaters, DriveUpdater(i, u) PROVE Case
  <2>1. CASE <<j, w>> # <<i, u>>
    <3>1. \E r : Moves(i, u, r)  BY <1>6, DriveMoves, Zenon DEF DriveUpdater
    <3> QED  BY <2>1, <3>1, Zenon DEF Moves
  <2>2. CASE j = i /\ w = u
    <3> DEFINE r == job[j][w]
    <3>0. r \in Jobs /\ JobOK(w, r)  BY Zenon DEF Types, JobInv
    <3>1. ASSUME r.pc \in {"none", "queued", "trylock", "get", "fetch", "status"}
          PROVE  r.rows = {} /\ r.links = {}
      BY Zenon, <3>0, <3>1 DEF JobOK, Progress, Loading
    <3>2. ASSUME r.rows = {} /\ r.links = {}, NEW p \in {"none", "trylock", "get", "fetch", "status"}
          PROVE  Quiet([r EXCEPT !.pc = p]) /\ \A n : Quiet([r EXCEPT !.pc = p, !.prev = n])
      BY Zenon, <3>0, <3>2 DEF Quiet, Jobs
    <3>3. \A b : Quiet([r EXCEPT !.pc = "status", !.rows = {}, !.links = {}, !.ok = b])
      BY Zenon, <3>0 DEF Quiet, Jobs
    <3>4. CASE Acquire(j, w)
      <4>0. \E p \in {"trylock", "none"} : Moves(j, w, [r EXCEPT !.pc = p])
        BY <3>4, DriveMoves, Zenon
      <4>1. r.pc = "queued" /\ \E p \in {"trylock", "none"} : job'[j][w] = [r EXCEPT !.pc = p]
        BY <3>4, <4>0, Zenon DEF Acquire, Moves
      <4> HIDE DEF r
      <4> QED  BY <3>1, <3>2, <4>1, Zenon
    <3>5. CASE Exclude(j, w)
      <4>0. Moves(j, w, [r EXCEPT !.pc = "none"])
        BY <3>5, DriveMoves, Zenon
      <4>1. r.pc = "queued" /\ job'[j][w] = [r EXCEPT !.pc = "none"]
        BY <3>5, <4>0, Zenon DEF Exclude, Moves
      <4> HIDE DEF r
      <4> QED  BY <3>1, <3>2, <4>1, Zenon
    <3>6. CASE TryLock(j, w)
      <4>0. \E p \in {"get", "none"} : Moves(j, w, [r EXCEPT !.pc = p])
        BY <3>6, DriveMoves, Zenon
      <4>1. r.pc = "trylock" /\ \E p \in {"get", "none"} : job'[j][w] = [r EXCEPT !.pc = p]
        BY <3>6, <4>0, Zenon DEF TryLock, Moves
      <4> HIDE DEF r
      <4> QED  BY <3>1, <3>2, <4>1, Zenon
    <3>7. CASE GetFingerprint(j, w)
      <4>0. \E n : Moves(j, w, [r EXCEPT !.pc = "fetch", !.prev = n])
        BY <3>7, DriveMoves, Zenon
      <4>1. r.pc = "get" /\ \E n : job'[j][w] = [r EXCEPT !.pc = "fetch", !.prev = n]
        BY <3>7, <4>0, Zenon DEF GetFingerprint, Moves
      <4> HIDE DEF r
      <4> QED  BY <3>1, <3>2, <4>1, ZenonT(30)
    <3>8. CASE Fetch(j, w)
      <4>0. \/ Moves(j, w, [r EXCEPT !.pc = "status"])
              \/ Moves(j, w, [r EXCEPT !.pc = "create", !.fp = up[w]])
        BY <3>8, DriveMoves, Zenon
      <4>1. r.pc = "fetch" /\ \/ job'[j][w] = [r EXCEPT !.pc = "status"]
                              \/ job'[j][w] = [r EXCEPT !.pc = "create", !.fp = up[w]]
        BY <3>8, <4>0, Zenon DEF Fetch, Moves
      <4>2. r = job[j][w]  BY Zenon
      <4> HIDE DEF r
      <4>3. CASE job'[j][w] = [r EXCEPT !.pc = "status"]  BY <3>1, <3>2, <4>1, <4>3, Zenon
      <4>4. CASE job'[j][w] = [r EXCEPT !.pc = "create", !.fp = up[w]]  BY <3>8, <4>2, <4>4, Zenon
      <4> QED  BY Zenon, <4>1, <4>3, <4>4
    <3>9. CASE Commit(j, w) \/ JobError(j, w)
      <4>0. \E b : Moves(j, w, [r EXCEPT !.pc = "status", !.rows = {}, !.links = {}, !.ok = b])
        BY <3>9, DriveMoves, Zenon
      <4>1. \E b : job'[j][w] = [r EXCEPT !.pc = "status", !.rows = {}, !.links = {}, !.ok = b]
        BY <4>0, Zenon DEF Moves
      <4> HIDE DEF r
      <4> QED  BY <3>3, <4>1, Zenon
    <3>10. CASE Status(j, w)
      BY <3>10, <1>n, DriveMoves, ZenonT(30) DEF Moves
    <3> QED
      BY <1>6, <2>2, <3>4, <3>5, <3>6, <3>7, <3>8, <3>9, <3>10, Zenon DEF DriveUpdater
  <2> QED  BY <2>1, <2>2, Zenon
<1> QED  BY <1>1, <1>2, <1>3, <1>4, <1>5, <1>6, Zenon DEF Next, Step

(* What a transaction relies on, when the tables change around it.         *)
LEMMA ProgressKept ==
  ASSUME NEW u \in Updaters, NEW r \in Jobs, NEW pub \in Nat, NEW pub2 \in Nat, NEW next \in Nat, NEW next2 \in Nat,
         NEW ops, NEW ops2, NEW row, NEW row2,
         Progress(u, r, pub, next, ops, row), pub <= pub2, next <= next2,
         r.pc \in {"insert", "assoc"} => \A o \in ops2 : o.id = r.op => o \in ops,
         r.links # {} => \A o \in ops : o.id = r.op => o \in ops2,
         \A v \in r.links : row[v] # NoRow => row2[v] # NoRow
  PROVE  Progress(u, r, pub2, next2, ops2, row2)
<1>1. r.fp \in Nat /\ r.op \in Nat  BY Zenon DEF Jobs
<1>2. r.pc = "create" => r.fp \in 1..pub2  BY <1>1 DEF Progress
<1>3. r.pc \notin {"insert", "assoc"} => r.rows = {} /\ r.links = {}  BY Zenon DEF Progress
<1>4. ASSUME r.pc \in {"insert", "assoc"}
      PROVE  /\ r.fp \in 1..pub2 /\ r.op \in 1..(next2 - 1)
             /\ \A o \in ops2 : o.id = r.op => o.updater = u /\ o.fp = r.fp
             /\ r.links # {} => \E o \in ops2 : o.id = r.op
             /\ \A v \in r.links : v \in r.rows \/ row2[v] # NoRow
  <2>1. r.fp \in 1..pub /\ r.op \in 1..(next - 1)  BY <1>4, Zenon DEF Progress, Loading
  <2>2. /\ \A o \in ops : o.id = r.op => o.updater = u /\ o.fp = r.fp
        /\ r.links # {} => \E o \in ops : o.id = r.op
        /\ \A v \in r.links : v \in r.rows \/ row[v] # NoRow
    BY <1>4, Zenon DEF Progress, Loading
  <2>3. r.fp \in 1..pub2 /\ r.op \in 1..(next2 - 1)  BY <1>1, <2>1
  <2> QED  BY <1>4, <2>2, <2>3, Zenon
<1>5. r.pc \in {"insert", "assoc"} =>
        /\ r.pos \in 1..(Len(feed[u][r.fp]) + 1)
        /\ r.pc = "assoc" => r.pos \in 1..Len(feed[u][r.fp])
        /\ r.links = {feed[u][r.fp][k] : k \in 1..(r.pos - 1)}
  BY Zenon DEF Progress, Loading
<1> QED  BY <1>2, <1>3, <1>4, <1>5, Zenon DEF Progress, Loading

(* The steps of the others leave a transaction what it relies on.          *)
LEMMA OthersKeep ==
  ASSUME Types, OpsInv, NewestInv, JobInv, Next, NEW j \in Insts, NEW w \in Updaters
  PROVE  Progress(w, job[j][w], up'[w], nextid', update_operation', vuln')
<1> DEFINE r == job[j][w]
<1>1. r \in Jobs /\ Progress(w, r, up[w], nextid, update_operation, vuln)
  BY Zenon DEF Types, JobInv, JobOK
<1>2. up[w] <= up'[w] /\ up[w] \in Nat /\ up'[w] \in Nat /\ nextid \in Nat  BY Zenon, UpGrows DEF Types
<1>3. r.links \in SUBSET Vulns  BY <1>1, Zenon DEF Jobs
<1> HIDE DEF r
<1>4. ASSUME TablesSame
      PROVE  Progress(w, r, up'[w], nextid', update_operation', vuln')
  <2>1. nextid' = nextid /\ update_operation' = update_operation /\ vuln' = vuln
    BY <1>4, Zenon DEF TablesSame
  <2>2. nextid <= nextid  BY <1>2, SMTT(30)
  <2> QED  BY Zenon, <1>1, <1>2, <2>1, <2>2, ProgressKept
<1>5. ASSUME NEW i \in Insts, NEW u \in Updaters, Adds(i, u)
      PROVE  Progress(w, r, up'[w], nextid', update_operation', vuln')
  <2>0. PICK d \in {Now, PutBack} : update_operation' = update_operation \union {NewRow(i, u, d)}
    BY <1>5, Zenon DEF Adds
  <2> DEFINE o == NewRow(i, u, d)
  <2>1. update_operation' = update_operation \union {o} /\ nextid' = nextid + 1 /\ vuln' = vuln
    BY <2>0, <1>5, Zenon DEF Adds
  <2>2. o.id = nextid  BY Zenon DEF NewRow
  <2> HIDE DEF o
  <2>3. r.pc \in {"insert", "assoc"} => r.op \in 1..(nextid - 1)  BY <1>1, Zenon DEF Progress, Loading
  <2>4. r.pc \in {"insert", "assoc"} => \A x \in update_operation' : x.id = r.op => x \in update_operation
    BY <1>2, <2>1, <2>2, <2>3
  <2>5. nextid <= nextid' /\ nextid' \in Nat  BY <1>2, <2>1, SMTT(30)
  <2> QED  BY <1>1, <1>2, <2>1, <2>4, <2>5, ProgressKept, Zenon
<1>6. ASSUME NEW i \in Insts, NEW u \in Updaters, Commits(i, u)
      PROVE  Progress(w, r, up'[w], nextid', update_operation', vuln')
  <2>1. /\ update_operation' = update_operation /\ nextid' = nextid
        /\ \E S : vuln' = [v \in Vulns |-> IF v \in S THEN u ELSE vuln[v]]
    BY <1>6, Zenon DEF Commits, CommitTx
  <2>2. \A v \in r.links : vuln[v] # NoRow => vuln'[v] # NoRow
    BY Zenon, <1>3, <2>1, VulnStoreAssumption
  <2>3. nextid <= nextid  BY <1>2, SMTT(30)
  <2> QED  BY <1>1, <1>2, <2>1, <2>2, <2>3, ProgressKept
<1>7. ASSUME NEW i \in Insts, DeleteOps(i)
      PROVE  Progress(w, r, up'[w], nextid', update_operation', vuln')
  <2>1. /\ update_operation' = update_operation \ gc[i].ops /\ nextid' = nextid /\ vuln' = vuln
        /\ r.links # {} => \A o \in gc[i].ops : o.id # r.op
    BY <1>7, Zenon DEF DeleteOps, DeleteUpdateOperations, r
  <2>2. r.links # {} => \A o \in update_operation : o.id = r.op => o \in update_operation'
    BY <2>1, Zenon
  <2>3. update_operation' \subseteq update_operation  BY <2>1, Zenon
  <2>4. nextid <= nextid  BY <1>2, SMTT(30)
  <2> QED  BY <1>1, <1>2, <2>1, <2>2, <2>3, <2>4, ProgressKept
<1>8. ASSUME NEW i \in Insts, NEW u \in Updaters, VulnCleanup(i, u)
      PROVE  Progress(w, r, up'[w], nextid', update_operation', vuln')
  <2>1. /\ update_operation' = update_operation /\ nextid' = nextid
        /\ vuln' = [v \in Vulns |-> IF v \in gc[i].seen[u] THEN NoRow ELSE vuln[v]]
        /\ r.links \intersect gc[i].seen[u] = {}
    BY <1>8, Zenon DEF VulnCleanup, DeleteVulns, r
  <2>2. \A v \in r.links : vuln[v] # NoRow => vuln'[v] # NoRow  BY Zenon, <1>3, <2>1
  <2>3. nextid <= nextid  BY <1>2
  <2> QED  BY Zenon, <1>1, <1>2, <2>1, <2>2, <2>3, ProgressKept
<1> QED  BY <1>4, <1>5, <1>6, <1>7, <1>8, StoreStep, Zenon DEF r

(* The first k + 1 elements of a sequence are the first k and the next.    *)
LEMMA Prefix ==
  ASSUME NEW q, NEW k \in Nat \ {0}
  PROVE  /\ {q[x] : x \in 1..((k + 1) - 1)} = {q[x] : x \in 1..(k - 1)} \union {q[k]}
         /\ {q[x] : x \in 1..(1 - 1)} = {}
<1>1. 1..((k + 1) - 1) = (1..(k - 1)) \union {k}  OBVIOUS
<1>2. 1..(1 - 1) = {}  OBVIOUS
<1> QED  BY <1>1, <1>2, Zenon

(* A load in progress is progress of its job.                              *)
LEMMA LoadingProgress ==
  ASSUME NEW u, NEW r, NEW pub, NEW next, NEW ops, NEW row,
         r.pc = "insert" \/ r.pc = "assoc", Loading(u, r, pub, next, ops, row)
  PROVE  Progress(u, r, pub, next, ops, row)
  BY Zenon DEF Progress

(* Transactions keep to the contents of the version they load.             *)
LEMMA JobStep ==
  ASSUME Types, OpsInv, NewestInv, JobInv, Next
  PROVE  JobInv'
<1> SUFFICES ASSUME NEW j \in Insts, NEW w \in Updaters
             PROVE  Progress(w, job'[j][w], up'[w], nextid', update_operation', vuln')
  BY Zenon DEF JobInv, JobOK
<1> DEFINE r == job[j][w]
           n == job'[j][w]
           P(x) == Progress(w, x, up'[w], nextid', update_operation', vuln')
<1>0. r \in Jobs /\ P(r) /\ JobOK(w, r)  BY OthersKeep, Zenon DEF Types, JobInv
<1>u. up[w] <= up'[w] /\ up[w] \in Nat /\ up'[w] \in Nat /\ up[w] \in 1..Len(feed[w]) /\ nextid \in Nat \ {0}
  BY UpGrows, Zenon DEF Types
<1>1. CASE n = [r EXCEPT !.lost = TRUE]
  <2>1. /\ n.pc = r.pc /\ n.fp = r.fp /\ n.op = r.op /\ n.pos = r.pos
        /\ n.rows = r.rows /\ n.links = r.links
    BY <1>0, <1>1, Zenon DEF Jobs
  <2>2. P(r)  BY Zenon, <1>0
  <2> HIDE DEF n, r
  <2>3. Loading(w, r, up'[w], nextid', update_operation', vuln') =>
          Loading(w, n, up'[w], nextid', update_operation', vuln')
    BY <2>1, ZenonT(30) DEF Loading
  <2>p. P(n)  BY Zenon, <2>1, <2>2, <2>3 DEF Progress
  <2> QED  BY <2>p, Zenon DEF n
<1>2. CASE Quiet(n)
  BY <1>2, Zenon DEF Quiet, Progress
<1>3. CASE n = [r EXCEPT !.pc = "create", !.fp = up[w]] /\ Fetch(j, w)
  <2>1. r.pc = "fetch"  BY Zenon, <1>3 DEF Fetch
  <2>2. r.rows = {} /\ r.links = {}  BY <1>0, <2>1, Zenon DEF JobOK, Progress, Loading
  <2>3. n.pc = "create" /\ n.fp = up[w] /\ n.rows = {} /\ n.links = {}  BY Zenon, <1>0, <1>3, <2>2 DEF Jobs
  <2>4. up[w] \in 1..up'[w]  BY <1>u
  <2> QED  BY <2>3, <2>4, Zenon DEF Progress, Loading
<1>4. CASE Create(j, w)
  <2>1. Moves(j, w, [r EXCEPT !.pc = "insert", !.op = nextid, !.pos = 1])
    BY <1>4, DriveMoves, Zenon
  <2>2. n = [r EXCEPT !.pc = "insert", !.op = nextid, !.pos = 1]  BY <2>1, Zenon DEF Moves
  <2>3. r.pc = "create"  BY Zenon, <1>4 DEF Create
  <2>4. r.rows = {} /\ r.links = {} /\ r.fp \in 1..up[w]  BY <1>0, <2>3, Zenon DEF JobOK, Progress, Loading
  <2>5. /\ n.pc = "insert" /\ n.fp = r.fp /\ n.op = nextid /\ n.pos = 1
        /\ n.rows = {} /\ n.links = {}
    BY <1>0, <2>2, <2>4, Zenon DEF Jobs
  <2>6. r.fp \in 1..up'[w] /\ r.fp \in 1..Len(feed[w])
    <3>1. Len(feed[w]) \in Nat  BY UpdatesAssumption
    <3> QED  BY <1>u, <2>4, <3>1
  <2>7. Len(feed[w][r.fp]) \in Nat
    <3>1. feed[w] \in Seq(Seq(Vulns))  BY Zenon, UpdatesAssumption
    <3>2. feed[w][r.fp] \in Seq(Vulns)  BY <2>6, <3>1
    <3>3. \A q \in Seq(Vulns) : Len(q) \in Nat  OBVIOUS
    <3> QED  BY <3>2, <3>3, Zenon
  <2>8. 1 \in 1..(Len(feed[w][r.fp]) + 1)
    <3>1. \A k \in Nat : 1 \in 1..(k + 1)  OBVIOUS
    <3> QED  BY <2>7, <3>1, Zenon
  <2>9. nextid' = nextid + 1 /\ \E d : update_operation' =
          update_operation \union {[id |-> nextid, updater |-> w, fp |-> r.fp, date |-> d]}
    BY Zenon, <1>4 DEF Create, CreateOp
  <2>10. nextid \in 1..(nextid' - 1)  BY <1>u, <2>9
  <2>11. \A o \in update_operation' : o.id = nextid => o.updater = w /\ o.fp = r.fp
    <3>1. \A o \in update_operation : o.id # nextid  BY <1>u DEF OpsInv, Types, OpRows
    <3> QED  BY <2>9, <3>1
  <2> HIDE DEF n, r
  <2>12. {feed[w][r.fp][k] : k \in 1..(1 - 1)} = {}
    <3>1. 1..(1 - 1) = {}  OBVIOUS
    <3> QED  BY <3>1, Zenon
  <2>13. Loading(w, n, up'[w], nextid', update_operation', vuln')
    <3>1. n.fp \in 1..up'[w] /\ n.op \in 1..(nextid' - 1)  BY <2>5, <2>6, <2>10, Zenon
    <3>2. n.pos \in 1..(Len(feed[w][n.fp]) + 1)  BY <2>5, <2>8, Zenon
    <3>3. n.links = {feed[w][n.fp][k] : k \in 1..(n.pos - 1)}  BY <2>5, <2>12, Zenon
    <3>4. \A o \in update_operation' : o.id = n.op => o.updater = w /\ o.fp = n.fp
      BY <2>5, <2>11, Zenon
    <3> QED  BY <2>5, <3>1, <3>2, <3>3, <3>4, Zenon DEF Loading
  <2>p. P(n)  BY Zenon, <2>5, <2>13, LoadingProgress
  <2> QED  BY <2>p, Zenon DEF n
<1>5. CASE Insert(j, w)
  <2> DEFINE R == {v \in {Current(j, w)} : vuln[v] = NoRow} \union r.rows
  <2>1. Moves(j, w, [r EXCEPT !.pc = "assoc", !.rows = R])  BY <1>5, DriveMoves, Zenon
  <2>2. n = [r EXCEPT !.pc = "assoc", !.rows = R]  BY <2>1, Zenon DEF Moves
  <2>3. r.pc = "insert" /\ ~AtEnd(j, w)  BY <1>5, Zenon DEF Insert
  <2>4. r.pos \in 1..Len(feed[w][r.fp])  BY Zenon, <2>3, CurrentType
  <2> HIDE DEF R
  <2>5. /\ n.pc = "assoc" /\ n.rows = R /\ n.fp = r.fp /\ n.op = r.op /\ n.pos = r.pos
        /\ n.links = r.links
    BY Zenon, <1>0, <2>2 DEF Jobs
  <2>6. r.rows \subseteq R  BY Zenon DEF R
  <2>7. P(r)  BY Zenon, <1>0
  <2> HIDE DEF r, n
  <2>8. Loading(w, r, up'[w], nextid', update_operation', vuln')  BY <2>3, <2>7, Zenon DEF Progress
  <2>9. Loading(w, n, up'[w], nextid', update_operation', vuln')
    BY <2>4, <2>5, <2>6, <2>8, SMTT(30) DEF Loading
  <2>p. P(n)  BY Zenon, <2>5, <2>9, LoadingProgress
  <2> QED  BY <2>p, Zenon DEF n
<1>6. CASE Assoc(j, w)
  <2> DEFINE c == Current(j, w)
  <2>1. Moves(j, w, [r EXCEPT !.pc = "insert", !.pos = r.pos + 1, !.links = r.links \union {c}])
    BY <1>6, DriveMoves, Zenon
  <2>2. n = [r EXCEPT !.pc = "insert", !.pos = r.pos + 1, !.links = r.links \union {c}]
    BY <2>1, Zenon DEF Moves
  <2>3. r.pc = "assoc" /\ Found(j, w, c) /\ HasOp(j, w) /\ UNCHANGED store  BY <1>6, Zenon DEF Assoc
  <2>4. c = feed[w][r.fp][r.pos]  BY <2>3, CurrentType, ZenonT(30)
  <2>5. r.pos \in 1..Len(feed[w][r.fp]) /\ Len(feed[w][r.fp]) \in Nat
    BY Zenon, <2>3, CurrentType
  <2>6. c \in r.rows \/ vuln'[c] # NoRow  BY Zenon, <2>3 DEF Found, store
  <2>7. \E o \in update_operation' : o.id = r.op  BY Zenon, <2>3 DEF HasOp, store
  <2> HIDE DEF c
  <2>8. /\ n.pc = "insert" /\ n.rows = r.rows /\ n.fp = r.fp /\ n.op = r.op /\ n.pos = r.pos + 1
        /\ n.links = r.links \union {c}
    BY Zenon, <1>0, <2>2 DEF Jobs
  <2>9. P(r)  BY Zenon, <1>0
  <2> HIDE DEF r, n
  <2>10. r.pos + 1 \in 1..(Len(feed[w][r.fp]) + 1) /\ r.pos \in Nat \ {0}  BY <2>5
  <2>11. r.links = {feed[w][r.fp][k] : k \in 1..(r.pos - 1)}  BY <2>3, <2>9, Zenon DEF Progress, Loading
  <2>12. r.links \union {c} = {feed[w][r.fp][k] : k \in 1..((r.pos + 1) - 1)}
    BY <2>4, <2>10, <2>11, Prefix, Zenon
  <2>13. n.links = {feed[w][n.fp][k] : k \in 1..(n.pos - 1)}  BY <2>8, <2>12, Zenon
  <2>14. Loading(w, r, up'[w], nextid', update_operation', vuln')  BY <2>3, <2>9, Zenon DEF Progress
  <2>15. n.fp \in 1..up'[w] /\ n.op \in 1..(nextid' - 1)  BY <2>8, <2>14, Zenon DEF Loading
  <2>16. n.pos \in 1..(Len(feed[w][n.fp]) + 1)  BY <2>8, <2>10, Zenon
  <2>17. \A o \in update_operation' : o.id = n.op => o.updater = w /\ o.fp = n.fp
    BY <2>8, <2>14, Zenon DEF Loading
  <2>18. \A v \in n.links : v \in n.rows \/ vuln'[v] # NoRow
    BY <2>6, <2>8, <2>14, Zenon DEF Loading
  <2>19. Loading(w, n, up'[w], nextid', update_operation', vuln')
    BY <2>7, <2>8, <2>13, <2>15, <2>16, <2>17, <2>18, Zenon DEF Loading
  <2>p. P(n)  BY <2>8, <2>19, LoadingProgress, Zenon
  <2> QED  BY <2>p, Zenon DEF n
<1>7. CASE n = r  BY Zenon, <1>0, <1>7
<1> QED  BY <1>1, <1>2, <1>3, <1>4, <1>5, <1>6, <1>7, JobCases, Zenon

(* What may become of the operations in a step.                            *)
LEMMA OpsCases ==
  ASSUME Next
  PROVE  \/ update_operation' = update_operation /\ nextid' = nextid
         \/ \E i \in Insts, u \in Updaters :
              /\ Adds(i, u) /\ nextid' = nextid + 1
              /\ \E d \in {Now, PutBack} : update_operation' = update_operation \union {NewRow(i, u, d)}
         \/ \E i \in Insts :
              /\ DeleteOps(i) /\ nextid' = nextid
              /\ update_operation' = update_operation \ gc[i].ops
<1>1. ASSUME NEW i \in Insts, NEW u \in Updaters, Adds(i, u)
      PROVE  /\ nextid' = nextid + 1
             /\ \E d \in {Now, PutBack} : update_operation' = update_operation \union {NewRow(i, u, d)}
  BY <1>1, Zenon DEF Adds
<1>2. ASSUME NEW i \in Insts, NEW u \in Updaters, Commits(i, u) \/ VulnCleanup(i, u)
      PROVE  update_operation' = update_operation /\ nextid' = nextid
  BY <1>2, Zenon DEF Commits, CommitTx, VulnCleanup, DeleteVulns
<1>3. ASSUME NEW i \in Insts, DeleteOps(i)
      PROVE  nextid' = nextid /\ update_operation' = update_operation \ gc[i].ops
  BY <1>3, Zenon DEF DeleteOps, DeleteUpdateOperations
<1> QED  BY <1>1, <1>2, <1>3, StoreStep, Zenon DEF TablesSame

(* What an instance may delete is what it selected under the retention.    *)
LEMMA GCOpsCases ==
  ASSUME Types, Next, NEW i \in Insts
  PROVE  gc'[i].ops \subseteq gc[i].ops \/ gc'[i].ops \subseteq Eligible(Keep)
<1> DEFINE Good == gc'[i].ops \subseteq gc[i].ops \/ gc'[i].ops \subseteq Eligible(Keep)
<1>0. gc \in [Insts -> GCs] /\ NoGC.ops = {}  BY Zenon DEF Types, NoGC
<1>1. ASSUME NEW j \in Insts, gc' = [gc EXCEPT ![j] = NoGC] PROVE Good
  BY <1>0, <1>1, Zenon
<1>2. ASSUME gc' = gc PROVE Good  BY Zenon, <1>2
<1>3. ASSUME NEW j \in Insts, EligibleUpdateOpts(j) PROVE Good
  <2>1. PICK S \in Throttled(Keep, GCThrottle) : gc' = [gc EXCEPT ![j].ops = S]
    BY <1>3, Zenon DEF EligibleUpdateOpts
  <2>2. S \subseteq Eligible(Keep)  BY Zenon DEF Throttled
  <2>3. gc'[i].ops = gc[i].ops \/ gc'[i].ops = S  BY <1>0, <2>1, Zenon DEF GCs
  <2> QED  BY Zenon, <2>2, <2>3
<1>4. ASSUME NEW j \in Insts, NEW x, gc' = [gc EXCEPT ![j].todo = x] PROVE Good
  BY <1>0, <1>4, Zenon DEF GCs
<1>5. ASSUME NEW j \in Insts, NEW u \in Updaters, SelectOrphans(j, u) PROVE Good
  <2>1. \E x, y : gc' = [gc EXCEPT ![j] = [gc[j] EXCEPT !.todo = x, !.seen = y]]
    BY <1>0, <1>5, Zenon DEF SelectOrphans
  <2>2. PICK x, y : gc' = [gc EXCEPT ![j] = [gc[j] EXCEPT !.todo = x, !.seen = y]]  BY <2>1, Zenon
  <2>3. [gc[j] EXCEPT !.todo = x, !.seen = y].ops = gc[j].ops  BY Zenon, <1>0 DEF GCs
  <2>4. gc'[i] = gc[i] \/ (i = j /\ gc'[i] = [gc[j] EXCEPT !.todo = x, !.seen = y])
    BY <1>0, <2>2, Zenon
  <2> QED  BY <2>3, <2>4, Zenon
<1>6. ASSUME NEW j \in Insts, NEW u \in Updaters, VulnCleanup(j, u) PROVE Good
  <2>1. gc' = [gc EXCEPT ![j].seen[u] = {}]  BY Zenon, <1>6 DEF VulnCleanup
  <2> QED  BY <1>0, <2>1, Zenon DEF GCs
<1>7. ASSUME NEW j \in Insts, GC(j) PROVE Good
  BY <1>1, <1>2, <1>3, <1>4, <1>5, <1>6, <1>7, Zenon DEF GC, DeleteOps, DistinctUpdaters, GCError,
     GCReturn, EndGC, CleanupError
<1>8. ASSUME NEW j \in Insts, Crash(j) PROVE Good  BY <1>1, <1>8, Zenon DEF Crash
<1>9. ASSUME NEW j \in Insts, NEW n \in Locks, LockLost(j, n) PROVE Good
  BY <1>9, LostShape, Zenon
<1>10. ASSUME NEW j \in Insts, Tick(j) \/ RunWithout(j) \/ StubStatus(j) \/ Wait(j) \/ Stop(j)
       PROVE  gc' = gc
  BY <1>10, Zenon DEF Tick, Run, RunStub, RunWithout, StubStatus, Wait, Stop
<1>11. ASSUME NEW j \in Insts, NEW u \in Updaters, DriveUpdater(j, u) PROVE gc' = gc
  BY <1>11, Zenon DEF DriveUpdater, Acquire, Exclude, TryLock, GetFingerprint, Fetch, Create, Insert,
     Assoc, Commit, JobError, Status
<1>12. ASSUME NEW u \in Updaters, Publish(u) PROVE gc' = gc  BY Zenon, <1>12 DEF Publish
<1> HIDE DEF Good
<1>13. Good
  BY <1>2, <1>7, <1>8, <1>9, <1>10, <1>11, <1>12, Zenon DEF Next, Step
<1> QED  BY Zenon, <1>13 DEF Good

(* What was selected keeps its id, whatever is added or deleted before the *)
(* statement that deletes it.                                              *)
LEMMA GCRowsStep ==
  ASSUME Types, OpsInv, GCRows, Next
  PROVE  GCRows'
<1> SUFFICES ASSUME NEW i \in Insts, NEW o \in gc'[i].ops
             PROVE  o.id < nextid' /\ \A x \in update_operation' : x.id = o.id => x = o
  BY Zenon DEF GCRows
<1>1. o \in OpRows /\ o.id < nextid /\ \A x \in update_operation : x.id = o.id => x = o
  <2>1. CASE o \in gc[i].ops
    <3>1. gc[i] \in GCs  BY Zenon DEF Types
    <3>2. o \in OpRows  BY Zenon, <2>1, <3>1 DEF GCs
    <3> QED  BY <2>1, <3>2, Zenon DEF GCRows
  <2>2. CASE o \in Eligible(Keep)
    BY <2>2, Zenon DEF Eligible, OpsInv, Types
  <2> QED  BY Zenon, <2>1, <2>2, GCOpsCases
<1>2. nextid \in Nat /\ o.id \in Nat  BY Zenon, <1>1 DEF Types, OpRows
<1>3. nextid' = nextid \/ nextid' = nextid + 1  BY OpsCases, Zenon
<1>4. \A x \in update_operation' : x \in update_operation \/ x.id = nextid
  <2>1. \A j \in Insts, u \in Updaters, d \in {Now, PutBack} : NewRow(j, u, d).id = nextid  BY Zenon DEF NewRow
  <2> QED  BY <2>1, OpsCases, Zenon
<1>5. o.id # nextid  BY <1>1, <1>2
<1> QED  BY <1>1, <1>2, <1>3, <1>4, <1>5

-----------------------------------------------------------------------------
(* A transaction writes to an operation of its own, which has no links.    *)
Writes(r) == r.pc \in {"insert", "assoc"}

OwnInv ==
  \A i \in Insts, u \in Updaters : Writes(job[i][u]) =>
    /\ \A l \in uo_vuln : l[1] # job[i][u].op
    /\ \A j \in Insts, w \in Updaters :
         <<j, w>> # <<i, u>> /\ Writes(job[j][w]) => job[j][w].op # job[i][u].op

(* A transaction goes on with its operation, or has just added it.         *)
LEMMA WriterCases ==
  ASSUME Types, OpsInv, NewestInv, JobInv, Next, NEW j \in Insts, NEW w \in Updaters, Writes(job'[j][w])
  PROVE  \/ Writes(job[j][w]) /\ job'[j][w].op = job[j][w].op
         \/ Create(j, w) /\ job'[j][w].op = nextid
<1> DEFINE r == job[j][w]
           n == job'[j][w]
<1>0. r \in Jobs  BY Zenon DEF Types
<1>1. CASE n = r  BY Zenon, <1>1
<1>2. CASE n = [r EXCEPT !.lost = TRUE]
  <2>1. n.pc = r.pc /\ n.op = r.op  BY Zenon, <1>0, <1>2 DEF Jobs
  <2> QED  BY Zenon, <2>1 DEF Writes
<1>3. ~Quiet(n)  BY Zenon DEF Quiet, Writes
<1>4. CASE n = [r EXCEPT !.pc = "create", !.fp = up[w]]
  <2>1. n.pc = "create"  BY Zenon, <1>0, <1>4 DEF Jobs
  <2> QED  BY <2>1, Zenon DEF Writes
<1>5. CASE Create(j, w)
  <2>1. Moves(j, w, [r EXCEPT !.pc = "insert", !.op = nextid, !.pos = 1])  BY <1>5, DriveMoves, Zenon
  <2>2. n.op = nextid  BY Zenon, <1>0, <2>1 DEF Moves, Jobs
  <2> QED  BY Zenon, <1>5, <2>2
<1>6. CASE Insert(j, w)
  <2>1. \E R : Moves(j, w, [r EXCEPT !.pc = "assoc", !.rows = R])  BY <1>6, DriveMoves, Zenon
  <2>2. n.op = r.op  BY Zenon, <1>0, <2>1 DEF Moves, Jobs
  <2> QED  BY Zenon, <1>6, <2>2 DEF Insert, Writes
<1>7. CASE Assoc(j, w)
  <2>1. \E k, L : Moves(j, w, [r EXCEPT !.pc = "insert", !.pos = k, !.links = L])
    BY <1>7, DriveMoves, ZenonT(30)
  <2>2. n.op = r.op  BY ZenonT(30), <1>0, <2>1 DEF Moves, Jobs
  <2> QED  BY Zenon, <1>7, <2>2 DEF Assoc, Writes
<1> HIDE DEF r, n
<1> QED  BY <1>1, <1>2, <1>3, <1>4, <1>5, <1>6, <1>7, JobCases, Zenon DEF r, n

(* A transaction that has ended writes no more.                            *)
LEMMA CommitsEnds ==
  ASSUME Types, OpsInv, NewestInv, JobInv, NEW i \in Insts, NEW u \in Updaters, Commits(i, u)
  PROVE  ~Writes(job'[i][u])
<1>0. job[i][u] \in Jobs  BY Zenon DEF Types
<1>1. \E b : Moves(i, u, [job[i][u] EXCEPT !.pc = "status", !.rows = {}, !.links = {}, !.ok = b])
  BY DriveMoves, Zenon DEF Commits
<1>2. job'[i][u].pc = "status"  BY ZenonT(30), <1>0, <1>1 DEF Moves, Jobs
<1> QED  BY Zenon, <1>2 DEF Writes

(* What a step may add to the links: those of one transaction.             *)
LEMMA LinkCases ==
  ASSUME Next
  PROVE  \/ uo_vuln' \subseteq uo_vuln
         \/ \E i \in Insts, u \in Updaters :
              /\ Commits(i, u) /\ update_operation' = update_operation
              /\ uo_vuln' = uo_vuln \union ({job[i][u].op} \X job[i][u].links)
<1>1. ASSUME TablesSame PROVE uo_vuln' \subseteq uo_vuln  BY Zenon, <1>1 DEF TablesSame
<1>2. ASSUME NEW i \in Insts, NEW u \in Updaters, Adds(i, u) \/ VulnCleanup(i, u)
      PROVE  uo_vuln' \subseteq uo_vuln
  BY Zenon, <1>2 DEF Adds, VulnCleanup, DeleteVulns
<1>3. ASSUME NEW i \in Insts, DeleteOps(i) PROVE uo_vuln' \subseteq uo_vuln
  BY Zenon, <1>3 DEF DeleteOps, DeleteUpdateOperations
<1>4. ASSUME NEW i \in Insts, NEW u \in Updaters, Commits(i, u)
      PROVE  /\ update_operation' = update_operation
             /\ uo_vuln' = uo_vuln \union ({job[i][u].op} \X job[i][u].links)
  BY Zenon, <1>4 DEF Commits, CommitTx
<1> QED  BY <1>1, <1>2, <1>3, <1>4, StoreStep, Zenon

(* No two transactions, of one or of two instances, share an operation,    *)
(* with or without the lock.                                               *)
LEMMA OwnStep ==
  ASSUME Types, OpsInv, NewestInv, JobInv, LinkInv, OwnInv, Next
  PROVE  OwnInv'
<1>0. nextid \in Nat /\ \A o \in update_operation : o.id \in Nat /\ o.id < nextid
  BY Zenon DEF Types, OpRows, OpsInv
<1>1. \A j \in Insts, w \in Updaters : Writes(job[j][w]) => job[j][w].op \in 1..(nextid - 1)
  BY Zenon DEF JobInv, JobOK, Progress, Loading, Writes
<1>2. \A j \in Insts, w \in Updaters : Writes(job[j][w]) => job[j][w].op # nextid  BY <1>0, <1>1
<1>3. \A l \in uo_vuln : l[1] # nextid
  <2>1. \A o \in update_operation : o.id # nextid  BY <1>0
  <2> QED  BY Zenon, <2>1 DEF LinkInv
<1>4. ASSUME NEW i \in Insts, NEW u \in Updaters, Create(i, u)
      PROVE  /\ uo_vuln' = uo_vuln
             /\ \A j \in Insts, w \in Updaters : <<j, w>> # <<i, u>> => job'[j][w] = job[j][w]
  <2>1. Moves(i, u, [job[i][u] EXCEPT !.pc = "insert", !.op = nextid, !.pos = 1])  BY <1>4, DriveMoves, Zenon
  <2>2. uo_vuln' = uo_vuln  BY Zenon, <1>4 DEF Create, CreateOp
  <2> QED  BY Zenon, <2>1, <2>2 DEF Moves
<1>5. ASSUME NEW i \in Insts, NEW u \in Updaters, Writes(job'[i][u]), NEW l \in uo_vuln'
      PROVE  l[1] # job'[i][u].op
  <2>1. CASE Create(i, u) /\ job'[i][u].op = nextid  BY Zenon, <1>3, <1>4, <1>5, <2>1
  <2>2. CASE Writes(job[i][u]) /\ job'[i][u].op = job[i][u].op
    <3>1. CASE l \in uo_vuln  BY Zenon, <2>2, <3>1 DEF OwnInv
    <3>2. CASE l \notin uo_vuln
      <4>1. PICK j \in Insts, w \in Updaters :
              Commits(j, w) /\ uo_vuln' = uo_vuln \union ({job[j][w].op} \X job[j][w].links)
        BY <1>5, <3>2, LinkCases, Zenon
      <4>2. l[1] = job[j][w].op /\ Writes(job[j][w])  BY Zenon, <1>5, <3>2, <4>1 DEF Commits, Writes
      <4>3. <<j, w>> # <<i, u>>
        <5>1. ~Writes(job'[j][w])  BY <4>1, CommitsEnds, Zenon
        <5> QED  BY Zenon, <1>5, <5>1
      <4> QED  BY Zenon, <2>2, <4>2, <4>3 DEF OwnInv
    <3> QED  BY <3>1, <3>2, Zenon
  <2> QED  BY <1>5, <2>1, <2>2, WriterCases, Zenon
<1>6. ASSUME NEW i \in Insts, NEW u \in Updaters, NEW j \in Insts, NEW w \in Updaters,
             <<j, w>> # <<i, u>>, Writes(job'[i][u]), Writes(job'[j][w])
      PROVE  job'[j][w].op # job'[i][u].op
  <2>1. CASE Create(i, u) /\ job'[i][u].op = nextid
    <3>1. job'[j][w] = job[j][w]  BY Zenon, <1>4, <1>6, <2>1
    <3> QED  BY Zenon, <1>2, <1>6, <2>1, <3>1
  <2>2. CASE Create(j, w) /\ job'[j][w].op = nextid
    <3>1. job'[i][u] = job[i][u]  BY Zenon, <1>4, <1>6, <2>2
    <3> QED  BY Zenon, <1>2, <1>6, <2>2, <3>1
  <2>3. CASE /\ Writes(job[i][u]) /\ job'[i][u].op = job[i][u].op
             /\ Writes(job[j][w]) /\ job'[j][w].op = job[j][w].op
    BY Zenon, <1>6, <2>3 DEF OwnInv
  <2> QED  BY <1>6, <2>1, <2>2, <2>3, WriterCases, Zenon
<1> QED  BY Zenon, <1>5, <1>6 DEF OwnInv

(* What garbage collection has selected shrinks, or is what nothing refers *)
(* to.                                                                     *)
LEMMA SeenCases ==
  ASSUME Types, Next, NEW i \in Insts, NEW u \in Updaters
  PROVE  gc'[i].seen[u] \subseteq gc[i].seen[u] \/ gc'[i].seen[u] = Orphans(u)
<1> DEFINE Good == gc'[i].seen[u] \subseteq gc[i].seen[u] \/ gc'[i].seen[u] = Orphans(u)
<1>0. gc \in [Insts -> GCs] /\ NoGC.seen[u] = {}  BY Zenon DEF Types, NoGC
<1>1. ASSUME NEW j \in Insts, gc' = [gc EXCEPT ![j] = NoGC] PROVE Good
  BY <1>0, <1>1, Zenon
<1>2. ASSUME gc'[i].seen = gc[i].seen PROVE Good  BY Zenon, <1>2
<1>3. ASSUME NEW j \in Insts, NEW x, gc' = [gc EXCEPT ![j].ops = x] \/ gc' = [gc EXCEPT ![j].todo = x]
      PROVE  gc'[i].seen = gc[i].seen
  <2>1. gc'[i] = gc[i] \/ gc'[i] = [gc[i] EXCEPT !.ops = x] \/ gc'[i] = [gc[i] EXCEPT !.todo = x]
    BY <1>0, <1>3, Zenon
  <2>2. gc[i] \in GCs  BY <1>0, Zenon
  <2> QED  BY <2>1, <2>2, SMT DEF GCs
<1>4. ASSUME NEW j \in Insts, NEW w \in Updaters, SelectOrphans(j, w) PROVE Good
  <2>1. \E x : gc' = [gc EXCEPT ![j] = [gc[j] EXCEPT !.todo = x, !.seen = [gc[j].seen EXCEPT ![w] = Orphans(w)]]]
    BY <1>0, <1>4, Zenon DEF SelectOrphans
  <2>2. PICK x : gc' = [gc EXCEPT ![j] = [gc[j] EXCEPT !.todo = x, !.seen = [gc[j].seen EXCEPT ![w] = Orphans(w)]]]
    BY <2>1, Zenon
  <2> DEFINE q == [gc[j].seen EXCEPT ![w] = Orphans(w)]
  <2>3. gc[j] \in GCs /\ gc[j].seen \in [Updaters -> SUBSET Vulns]  BY Zenon, <1>0 DEF GCs
  <2>4. q[u] = gc[j].seen[u] \/ (u = w /\ q[u] = Orphans(u))  BY Zenon, <2>3
  <2>5. gc' = [gc EXCEPT ![j] = [gc[j] EXCEPT !.todo = x, !.seen = q]]  BY <2>2, Zenon
  <2> HIDE DEF q
  <2>6. [gc[j] EXCEPT !.todo = x, !.seen = q].seen = q  BY Zenon, <2>3 DEF GCs
  <2>7. gc'[i] = gc[i] \/ (i = j /\ gc'[i] = [gc[j] EXCEPT !.todo = x, !.seen = q])
    BY <1>0, <2>5, Zenon
  <2> QED  BY Zenon, <2>4, <2>6, <2>7
<1>5. ASSUME NEW j \in Insts, NEW w \in Updaters, VulnCleanup(j, w) PROVE Good
  <2>1. gc' = [gc EXCEPT ![j].seen[w] = {}]  BY Zenon, <1>5 DEF VulnCleanup
  <2>2. gc[i] \in GCs /\ gc[i].seen \in [Updaters -> SUBSET Vulns]  BY Zenon, <1>0 DEF GCs
  <2>3. gc'[i].seen[u] = gc[i].seen[u] \/ gc'[i].seen[u] = {}  BY <1>0, <2>1, <2>2, Zenon DEF GCs
  <2> QED  BY Zenon, <2>3
<1>6. ASSUME NEW j \in Insts, GC(j) PROVE Good
  <2>1. CASE EligibleUpdateOpts(j) \/ DistinctUpdaters(j) \/ \E w \in Updaters : CleanupError(j, w)
    <3>1. \E x : gc' = [gc EXCEPT ![j].ops = x] \/ gc' = [gc EXCEPT ![j].todo = x]
      BY <2>1, Zenon DEF EligibleUpdateOpts, DistinctUpdaters, CleanupError
    <3> QED  BY <1>2, <1>3, <3>1, Zenon
  <2>2. CASE DeleteOps(j)  BY <1>2, <2>2, Zenon DEF DeleteOps
  <2>3. CASE GCError(j) \/ GCReturn(j)  BY <1>1, <2>3, Zenon DEF GCError, GCReturn, EndGC
  <2> QED  BY <1>4, <1>5, <1>6, <2>1, <2>2, <2>3, Zenon DEF GC
<1>7. ASSUME NEW j \in Insts, Crash(j) PROVE Good  BY <1>1, <1>7, Zenon DEF Crash
<1>8. ASSUME NEW j \in Insts, NEW n \in Locks, LockLost(j, n) PROVE gc'[i].seen = gc[i].seen
  BY <1>8, LostShape, Zenon
<1>9. ASSUME NEW j \in Insts, Tick(j) \/ RunWithout(j) \/ StubStatus(j) \/ Wait(j) \/ Stop(j)
      PROVE  gc'[i].seen = gc[i].seen
  BY <1>9, Zenon DEF Tick, Run, RunStub, RunWithout, StubStatus, Wait, Stop
<1>10. ASSUME NEW j \in Insts, NEW w \in Updaters, DriveUpdater(j, w) PROVE gc'[i].seen = gc[i].seen
  BY <1>10, Zenon DEF DriveUpdater, Acquire, Exclude, TryLock, GetFingerprint, Fetch, Create, Insert,
     Assoc, Commit, JobError, Status
<1>11. ASSUME NEW w \in Updaters, Publish(w) PROVE gc'[i].seen = gc[i].seen  BY Zenon, <1>11 DEF Publish
<1> HIDE DEF Good
<1>12. Good
  BY <1>2, <1>6, <1>7, <1>8, <1>9, <1>10, <1>11, Zenon DEF Next, Step
<1> QED  BY Zenon, <1>12 DEF Good

(* An operation that stays keeps its vulnerabilities, is loaded, or loses  *)
(* rows to a collection.                                                   *)
LEMMA LinkedStep ==
  ASSUME Types, OpsInv, NewestInv, JobInv, GCRows, OwnInv, Next,
         NEW o \in update_operation, o \in update_operation', Linked(o.id)' # Linked(o.id)
  PROVE  Loads(o) \/ Collected(o)
<1>1. ASSUME uo_vuln' = uo_vuln PROVE FALSE  BY Zenon, <1>1 DEF Linked
<1>2. ASSUME NEW i \in Insts, NEW u \in Updaters, Commits(i, u) PROVE Loads(o)
  <2> DEFINE r == job[i][u]
             q == feed[u][r.fp]
  <2>1. r.pc = "insert" /\ AtEnd(i, u) /\ JobOK(u, r) /\ r \in Jobs
    BY <1>2, Zenon DEF Commits, JobInv, Types
  <2>2. r.pos = Len(q) + 1 /\ Len(q) \in Nat  BY <2>1, CurrentType, Zenon
  <2>3. /\ r.links = {q[k] : k \in 1..(r.pos - 1)}
        /\ \A x \in update_operation : x.id = r.op => x.updater = u /\ x.fp = r.fp
    BY <2>1, Zenon DEF JobOK, Progress, Loading
  <2>4. uo_vuln' = uo_vuln \union ({r.op} \X r.links)  BY <1>2, Zenon DEF Commits, CommitTx
  <2>5. r.links \in SUBSET Vulns  BY <2>1, Zenon DEF Jobs
  <2>6. o.id = r.op
    <3>1. ASSUME o.id # r.op PROVE Linked(o.id)' = Linked(o.id)  BY Zenon, <2>4, <3>1 DEF Linked
    <3> QED  BY Zenon, <3>1
  <2>7. \A l \in uo_vuln : l[1] # r.op  BY Zenon, <2>1 DEF OwnInv, Writes
  <2>8. feed[o.updater][o.fp] = q  BY <2>3, <2>6, Zenon
  <2> HIDE DEF q, r
  <2>9. r.pos - 1 = Len(q)  BY <2>2
  <2>10. r.links = Seen(q)  BY <2>3, <2>9, Zenon DEF Seen
  <2>11. Linked(o.id) = {}  BY Zenon, <2>6, <2>7 DEF Linked
  <2>12. Linked(o.id)' = r.links  BY Zenon, <2>4, <2>5, <2>6, <2>7 DEF Linked
  <2>13. Linked(o.id)' = Seen(feed[o.updater][o.fp])  BY Zenon, <2>8, <2>10, <2>12
  <2> QED  BY Zenon, <2>11, <2>13 DEF Loads
<1>3. ASSUME NEW i \in Insts, DeleteOps(i) PROVE FALSE
  <2>1. /\ update_operation' = update_operation \ gc[i].ops
        /\ uo_vuln' = {x \in uo_vuln : \A y \in gc[i].ops : x[1] # y.id}
    BY <1>3, Zenon DEF DeleteOps, DeleteUpdateOperations
  <2>2. o \notin gc[i].ops  BY Zenon, <2>1
  <2>3. \A x \in gc[i].ops : o.id # x.id  BY <2>2, Zenon DEF GCRows
  <2>4. \A v : <<o.id, v>> \in uo_vuln' <=> <<o.id, v>> \in uo_vuln  BY Zenon, <2>1, <2>3
  <2> QED  BY Zenon, <2>4 DEF Linked
<1>4. ASSUME NEW i \in Insts, NEW u \in Updaters, VulnCleanup(i, u) PROVE Collected(o)
  <2>1. /\ vuln' = [v \in Vulns |-> IF v \in gc[i].seen[u] THEN NoRow ELSE vuln[v]]
        /\ uo_vuln' = {x \in uo_vuln : x[2] \notin gc[i].seen[u]}
    BY <1>4, Zenon DEF VulnCleanup, DeleteVulns
  <2>2. gc[i].seen[u] \in SUBSET Vulns
    <3>1. gc[i] \in GCs  BY Zenon DEF Types
    <3> QED  BY <3>1, SMT DEF GCs
  <2>3. \A v \in gc[i].seen[u] : vuln'[v] = NoRow  BY Zenon, <2>1, <2>2
  <2>4. Linked(o.id)' = Linked(o.id) \ gc[i].seen[u]  BY Zenon, <2>1 DEF Linked
  <2> QED  BY Zenon, <2>3, <2>4 DEF Collected
<1>5. ASSUME TablesSame PROVE uo_vuln' = uo_vuln  BY Zenon, <1>5 DEF TablesSame
<1>6. ASSUME NEW i \in Insts, NEW u \in Updaters, Adds(i, u) PROVE uo_vuln' = uo_vuln  BY Zenon, <1>6 DEF Adds
<1> QED  BY <1>1, <1>2, <1>3, <1>4, <1>5, <1>6, StoreStep, Zenon

-----------------------------------------------------------------------------
(* A goroutine takes a step of its own, is left alone, is told that its    *)
(* lock is lost, ends with its process or is queued for a new run.         *)
LEMMA GoroutineCases ==
  ASSUME Types, OpsInv, NewestInv, JobInv, Next, NEW j \in Insts, NEW w \in Updaters
  PROVE  \/ DriveUpdater(j, w)
         \/ job'[j][w] = job[j][w]
         \/ job'[j][w] = [job[j][w] EXCEPT !.lost = TRUE]
         \/ job'[j][w] = NoJob
         \/ job'[j][w] = [NoJob EXCEPT !.pc = "queued"] /\ pc'[j] \in {"stub", "run"}
<1> DEFINE Case == \/ DriveUpdater(j, w)
                   \/ job'[j][w] = job[j][w]
                   \/ job'[j][w] = [job[j][w] EXCEPT !.lost = TRUE]
                   \/ job'[j][w] = NoJob
                   \/ job'[j][w] = [NoJob EXCEPT !.pc = "queued"] /\ pc'[j] \in {"stub", "run"}
<1>1. ASSUME NEW i \in Insts, Tick(i) \/ RunWithout(i) PROVE Case
  <2>1. /\ \A v \in Updaters : \/ job'[i][v] = NoJob
                               \/ job'[i][v] = [NoJob EXCEPT !.pc = "queued"]
        /\ \A k \in Insts : k # i => job'[k] = job[k]
    BY <1>1, QueueShape, Zenon DEF Tick, Run, RunStub, RunWithout
  <2>2. pc'[i] \in {"stub", "run"}
    BY Zenon, <1>1 DEF Tick, Run, RunStub, RunWithout, Types
  <2> QED  BY <2>1, <2>2, ZenonT(30)
<1>2. ASSUME NEW i \in Insts, Crash(i) PROVE Case
  BY <1>2, CrashShape, Zenon
<1>3. ASSUME NEW i \in Insts, NEW n \in Locks, LockLost(i, n) PROVE Case
  BY <1>3, LostShape, Zenon
<1>4. ASSUME NEW i \in Insts, StubStatus(i) \/ Wait(i) \/ Stop(i) \/ GC(i) PROVE Case
  <2>1. job' = job
    BY <1>4, Zenon DEF StubStatus, Wait, Stop, GC, EligibleUpdateOpts, DeleteOps, DistinctUpdaters,
       GCError, GCReturn, SelectOrphans, VulnCleanup, CleanupError
  <2> QED  BY <2>1, Zenon
<1>5. ASSUME NEW u \in Updaters, Publish(u) PROVE Case
  BY <1>5, Zenon DEF Publish
<1>6. ASSUME NEW i \in Insts, NEW u \in Updaters, DriveUpdater(i, u) PROVE Case
  <2>1. CASE <<j, w>> # <<i, u>>
    <3>1. \E r : Moves(i, u, r)  BY <1>6, DriveMoves, Zenon DEF DriveUpdater
    <3> QED  BY <2>1, <3>1, Zenon DEF Moves
  <2>2. CASE j = i /\ w = u  BY <1>6, <2>2, Zenon
  <2> QED  BY <2>1, <2>2, Zenon
<1> QED  BY <1>1, <1>2, <1>3, <1>4, <1>5, <1>6, Zenon DEF Next, Step

(* The order of the steps of driveUpdater.                                 *)
LEMMA DriveOrder ==
  ASSUME Types, OpsInv, NewestInv, JobInv, NEW i \in Insts, NEW u \in Updaters, DriveUpdater(i, u)
  PROVE  LET r == job[i][u]
             n == job'[i][u]
         IN  /\ r.pc # "none"
             /\ n.pc \in Working => r.pc \in Working \/ (TryLock(i, u) /\ lock[u] = None /\ lock'[u] = i)
             /\ n.pc = "fetch" =>
                  GetFingerprint(i, u) /\ n.prev = IF Ops(u) = {} THEN 0 ELSE LatestOp(u).fp
             /\ n.pc = "create" =>
                  Fetch(i, u) /\ r.pc = "fetch" /\ r.prev # up[u] /\ n.fp = up[u]
<1> DEFINE r == job[i][u]
           n == job'[i][u]
           Good == /\ r.pc # "none"
                   /\ n.pc \in Working =>
                        r.pc \in Working \/ (TryLock(i, u) /\ lock[u] = None /\ lock'[u] = i)
                   /\ n.pc = "fetch" =>
                        GetFingerprint(i, u) /\ n.prev = IF Ops(u) = {} THEN 0 ELSE LatestOp(u).fp
                   /\ n.pc = "create" =>
                        Fetch(i, u) /\ r.pc = "fetch" /\ r.prev # up[u] /\ n.fp = up[u]
<1>0. r \in Jobs  BY Zenon DEF Types
<1>1. CASE Acquire(i, u)
  <2>1. \E p \in {"trylock", "none"} : Moves(i, u, [r EXCEPT !.pc = p])  BY <1>1, DriveMoves, Zenon
  <2>2. r.pc = "queued" /\ n.pc \in {"trylock", "none"}
    BY <1>0, <1>1, <2>1, ZenonT(30) DEF Acquire, Moves, Jobs
  <2> QED  BY Zenon, <2>2 DEF Working
<1>2. CASE Exclude(i, u)
  <2>1. Moves(i, u, [r EXCEPT !.pc = "none"])  BY <1>2, DriveMoves, Zenon
  <2>2. r.pc = "queued" /\ n.pc = "none"  BY Zenon, <1>0, <1>2, <2>1 DEF Exclude, Moves, Jobs
  <2> QED  BY Zenon, <2>2 DEF Working
<1>3. CASE TryLock(i, u)
  <2>1. \/ UNCHANGED lock /\ Goes(i, u, [r EXCEPT !.pc = "none"])
        \/ /\ lock[u] = None /\ lock' = [lock EXCEPT ![u] = i]
           /\ Goes(i, u, [r EXCEPT !.pc = "get"])
    BY <1>3, Zenon DEF TryLock, To, Goes, Refused, Types
  <2>2. lock'[u] = i \/ UNCHANGED lock  BY Zenon, <2>1 DEF Types, Locks
  <2>3. \A p \in {"get", "none"} : [r EXCEPT !.pc = p] \in Jobs  BY <1>0, Zenon DEF Jobs, JobPCs
  <2>4. \A p \in {"get", "none"} : Goes(i, u, [r EXCEPT !.pc = p]) => n.pc = p
    BY <1>0, <2>3, GoesShape, SMTT(30) DEF Jobs
  <2>5. r.pc = "trylock"  BY Zenon, <1>3 DEF TryLock
  <2>6. n.pc = "none" \/ (n.pc = "get" /\ lock[u] = None /\ lock'[u] = i)
    BY <2>1, <2>4, ZenonT(30) DEF Types, Locks
  <2> QED  BY <1>3, <2>5, <2>6, Zenon DEF Working
<1>4. CASE GetFingerprint(i, u)
  <2> DEFINE p == IF Ops(u) = {} THEN 0 ELSE LatestOp(u).fp
  <2>1. Moves(i, u, [r EXCEPT !.pc = "fetch", !.prev = p])  BY <1>4, DriveMoves, Zenon
  <2> HIDE DEF p
  <2>2. r.pc = "get" /\ n.pc = "fetch" /\ n.prev = p
    BY <1>0, <1>4, <2>1, ZenonT(30) DEF GetFingerprint, Moves, Jobs
  <2> QED  BY Zenon, <1>4, <2>2 DEF Working, p
<1>5. CASE Fetch(i, u)
  <2>1. \/ r.prev = up[u] /\ Moves(i, u, [r EXCEPT !.pc = "status"])
        \/ r.prev # up[u] /\ Moves(i, u, [r EXCEPT !.pc = "create", !.fp = up[u]])
    BY <1>5, DriveMoves, Zenon
  <2>2. r.pc = "fetch"  BY Zenon, <1>5 DEF Fetch
  <2>3. n.pc = "status" \/ (n.pc = "create" /\ r.prev # up[u] /\ n.fp = up[u])
    BY <1>0, <2>1, Zenon DEF Moves, Jobs
  <2> QED  BY <1>5, <2>2, <2>3, Zenon DEF Working
<1>6. CASE Create(i, u)
  <2>1. Moves(i, u, [r EXCEPT !.pc = "insert", !.op = nextid, !.pos = 1])  BY <1>6, DriveMoves, Zenon
  <2>2. r.pc = "create" /\ n.pc = "insert"  BY <1>0, <1>6, <2>1, ZenonT(30) DEF Create, Moves, Jobs
  <2> QED  BY <2>2, Zenon DEF Working
<1>7. CASE Insert(i, u)
  <2>1. \E R : Moves(i, u, [r EXCEPT !.pc = "assoc", !.rows = R])  BY <1>7, DriveMoves, Zenon
  <2>2. r.pc = "insert" /\ n.pc = "assoc"  BY <1>0, <1>7, <2>1, ZenonT(30) DEF Insert, Moves, Jobs
  <2> QED  BY Zenon, <2>2 DEF Working
<1>8. CASE Assoc(i, u)
  <2>1. \E k, L : Moves(i, u, [r EXCEPT !.pc = "insert", !.pos = k, !.links = L])
    BY <1>8, DriveMoves, ZenonT(30)
  <2>2. r.pc = "assoc" /\ n.pc = "insert"  BY <1>0, <1>8, <2>1, Zenon DEF Assoc, Moves, Jobs
  <2> QED  BY Zenon, <2>2 DEF Working
<1>9. CASE Commit(i, u) \/ JobError(i, u)
  <2>1. \E b : Moves(i, u, [r EXCEPT !.pc = "status", !.rows = {}, !.links = {}, !.ok = b])
    BY <1>9, DriveMoves, Zenon
  <2>2. r.pc \in {"get", "fetch", "create", "insert", "assoc"}  BY <1>9, Zenon DEF Commit, JobError
  <2>3. n.pc = "status"  BY <1>0, <2>1, ZenonT(30) DEF Moves, Jobs
  <2> QED  BY Zenon, <2>2, <2>3 DEF Working
<1>10. CASE Status(i, u)
  <2>1. Moves(i, u, NoJob)  BY <1>10, DriveMoves, Zenon
  <2>2. r.pc = "status" /\ n.pc = "none"  BY <1>10, <2>1, Zenon DEF Status, Moves, NoJob
  <2> QED  BY Zenon, <2>2 DEF Working
<1> HIDE DEF Good
<1>11. Good
  BY <1>1, <1>2, <1>3, <1>4, <1>5, <1>6, <1>7, <1>8, <1>9, <1>10, Zenon DEF DriveUpdater, Good
<1> QED  BY <1>11, ZenonT(30) DEF Good

(* A run collects only once all of its goroutines have returned.           *)
LEMMA RunStep ==
  ASSUME Types, OpsInv, NewestInv, JobInv, RunInv, Next
  PROVE  RunInv'
<1> SUFFICES ASSUME NEW j \in Insts, NEW w \in Updaters, job'[j][w].pc # "none"
             PROVE  pc'[j] \in {"stub", "run"}
  BY Zenon DEF RunInv
<1>0. job[j][w] \in Jobs  BY Zenon DEF Types
<1>1. \/ job[j][w].pc # "none"
      \/ pc'[j] \in {"stub", "run"}
  <2>1. CASE DriveUpdater(j, w)  BY <2>1, DriveOrder, Zenon
  <2>2. CASE job'[j][w] = job[j][w]  BY Zenon, <2>2
  <2>3. CASE job'[j][w] = [job[j][w] EXCEPT !.lost = TRUE]  BY <1>0, <2>3, Zenon DEF Jobs
  <2>4. CASE job'[j][w] = NoJob  BY <2>4 DEF NoJob
  <2> QED  BY <2>1, <2>2, <2>3, <2>4, GoroutineCases, Zenon
<1>2. ASSUME job[j][w].pc # "none" PROVE pc'[j] \in {"stub", "run"}
  <2>0. pc[j] \in {"stub", "run"} /\ pc \in [Insts -> {"idle", "stub", "run", "eligible", "delete", "distinct", "cleanup"}]
    BY Zenon, <1>2 DEF RunInv, Types
  <2>1. ASSUME NEW i \in Insts, Tick(i) \/ RunWithout(i) \/ StubStatus(i) PROVE pc'[j] \in {"stub", "run"}
    <3>1. \E p \in {"stub", "run"} : pc' = [pc EXCEPT ![i] = p]
      BY <2>1, Zenon DEF Tick, Run, RunStub, RunWithout, StubStatus
    <3> QED  BY Zenon, <2>0, <3>1
  <2>2. ASSUME NEW i \in Insts, Wait(i) PROVE pc'[j] \in {"stub", "run"}
    <3>1. i # j /\ \E p : pc' = [pc EXCEPT ![i] = p]  BY <1>2, <2>2, Zenon DEF Wait
    <3> QED  BY <2>0, <3>1, Zenon
  <2>3. ASSUME NEW i \in Insts, GC(i) PROVE pc'[j] \in {"stub", "run"}
    <3>1. pc[i] \notin {"stub", "run"} /\ (pc' = pc \/ \E p : pc' = [pc EXCEPT ![i] = p])
      <4>1. pc[i] \in {"eligible", "delete", "distinct", "cleanup"}
        BY <2>3, Zenon DEF GC, EligibleUpdateOpts, DeleteOps, DistinctUpdaters, GCError, GCReturn,
           SelectOrphans, VulnCleanup, CleanupError
      <4>2. pc' = pc \/ \E p : pc' = [pc EXCEPT ![i] = p]
        BY <2>3, Zenon DEF GC, EligibleUpdateOpts, DeleteOps, DistinctUpdaters, GCError, GCReturn,
           SelectOrphans, VulnCleanup, CleanupError, EndGC
      <4> QED  BY Zenon, <4>1, <4>2
    <3>2. i # j  BY <2>0, <3>1, Zenon
    <3> QED  BY <2>0, <3>1, <3>2, Zenon
  <2>4. ASSUME NEW i \in Insts, Crash(i) PROVE pc'[j] \in {"stub", "run"}
    <3>1. i # j
      <4>1. ASSUME i = j PROVE FALSE
        <5>1. job'[j][w] = NoJob  BY <2>4, <4>1, CrashShape, Zenon
        <5> QED  BY <5>1 DEF NoJob
      <4> QED  BY <4>1, Zenon
    <3> QED  BY Zenon, <2>0, <2>4, <3>1 DEF Crash
  <2>5. ASSUME NEW i \in Insts, Stop(i) PROVE pc' = pc  BY Zenon, <2>5 DEF Stop
  <2>6. ASSUME NEW i \in Insts, NEW n \in Locks, LockLost(i, n) PROVE pc' = pc  BY <2>6, Zenon DEF LockLost
  <2>7. ASSUME NEW u \in Updaters, Publish(u) PROVE pc' = pc  BY Zenon, <2>7 DEF Publish
  <2>8. ASSUME NEW i \in Insts, NEW u \in Updaters, DriveUpdater(i, u) PROVE pc' = pc
    BY <2>8, Zenon DEF DriveUpdater, Acquire, Exclude, TryLock, GetFingerprint, Fetch, Create, Insert,
       Assoc, Commit, JobError, Status
  <2> QED
    BY <2>0, <2>1, <2>2, <2>3, <2>4, <2>5, <2>6, <2>7, <2>8, ZenonT(30) DEF Next, Step
<1> QED  BY Zenon, <1>1, <1>2

(* Nobody but the goroutine that has it gives an updater's lock back.      *)
LEMMA HoldStep ==
  ASSUME Types, OpsInv, NewestInv, JobInv, RunInv, HoldsLock, Next,
         \A i \in Insts, n \in Locks : ~LockLost(i, n)
  PROVE  HoldsLock'
<1> SUFFICES ASSUME NEW j \in Insts, NEW w \in Updaters, job'[j][w].pc \in Working
             PROVE  lock'[w] = j
  BY Zenon DEF HoldsLock
<1>0. job[j][w] \in Jobs /\ w \in Locks /\ lock \in [Locks -> Insts \union {None}]  BY Zenon DEF Types, Locks
<1>1. job[j][w].pc \in Working \/ lock'[w] = j
  <2>1. CASE DriveUpdater(j, w)  BY <2>1, DriveOrder, Zenon
  <2>2. CASE job'[j][w] = job[j][w]  BY Zenon, <2>2
  <2>3. CASE job'[j][w] = [job[j][w] EXCEPT !.lost = TRUE]  BY Zenon, <1>0, <2>3 DEF Jobs
  <2>4. CASE job'[j][w] = NoJob \/ job'[j][w] = [NoJob EXCEPT !.pc = "queued"]
    BY <2>4 DEF NoJob, Working
  <2> QED  BY <2>1, <2>2, <2>3, <2>4, GoroutineCases, Zenon
<1>2. ASSUME job[j][w].pc \in Working PROVE lock'[w] = j
  <2>0. lock[w] = j /\ pc[j] \in {"stub", "run"} /\ j # None
    BY Zenon, <1>2, UpdatesAssumption DEF HoldsLock, RunInv, Working
  <2>1. CASE UNCHANGED lock  BY Zenon, <2>0, <2>1
  <2>2. ASSUME NEW i \in Insts, NEW u \in Updaters, DriveUpdater(i, u) PROVE lock'[w] = j
    <3>1. CASE TryLock(i, u)
      <4>1. UNCHANGED lock \/ (lock[u] = None /\ lock' = [lock EXCEPT ![u] = i])
        BY <3>1, Zenon DEF TryLock, Refused
      <4> QED  BY Zenon, <1>0, <2>0, <4>1
    <3>2. CASE Status(i, u)
      <4>1. lock' = [lock EXCEPT ![u] = IF @ = i THEN None ELSE @]  BY Zenon, <3>2 DEF Status
      <4>2. Moves(i, u, NoJob)  BY <3>2, DriveMoves, ZenonT(30)
      <4>3. NoJob.pc \notin Working  BY Zenon DEF NoJob, Working
      <4>4. ~(i = j /\ u = w)  BY <4>2, <4>3, Zenon DEF Moves
      <4> QED  BY Zenon, <1>0, <2>0, <4>1, <4>4
    <3>3. CASE UNCHANGED lock  BY Zenon, <2>0, <3>3
    <3> QED
      BY <2>2, <3>1, <3>2, <3>3, Zenon DEF DriveUpdater, Acquire, Exclude, GetFingerprint, Fetch, Create,
         Insert, Assoc, Commit, JobError
  <2>3. ASSUME NEW i \in Insts, Wait(i) PROVE lock'[w] = j
    <3>1. \/ UNCHANGED lock
          \/ /\ lock["garbage-collection"] = None
             /\ lock' = [lock EXCEPT !["garbage-collection"] = i]
      BY <2>3, Zenon DEF Wait, Refused
    <3> QED  BY Zenon, <1>0, <2>0, <3>1
  <2>4. ASSUME NEW i \in Insts, GC(i) PROVE lock'[w] = j
    <3>1. pc[i] \in {"eligible", "delete", "distinct", "cleanup"}
      BY <2>4, Zenon DEF GC, EligibleUpdateOpts, DeleteOps, DistinctUpdaters, GCError, GCReturn,
         SelectOrphans, VulnCleanup, CleanupError
    <3>2. i # j  BY Zenon, <2>0, <3>1
    <3>3. \/ UNCHANGED lock
          \/ lock' = [lock EXCEPT !["garbage-collection"] = IF @ = i THEN None ELSE @]
      BY <2>4, Zenon DEF GC, EligibleUpdateOpts, DeleteOps, DistinctUpdaters, GCError, GCReturn,
         SelectOrphans, VulnCleanup, CleanupError, EndGC
    <3> QED  BY Zenon, <1>0, <2>0, <3>2, <3>3
  <2>5. ASSUME NEW i \in Insts, Crash(i) PROVE lock'[w] = j
    <3>1. i # j
      <4>1. ASSUME i = j PROVE FALSE
        <5>1. job'[j][w] = NoJob  BY <2>5, <4>1, CrashShape, Zenon
        <5> QED  BY <5>1 DEF NoJob, Working
      <4> QED  BY <4>1, Zenon
    <3>2. lock' = [n \in Locks |-> IF lock[n] = i THEN None ELSE lock[n]]  BY Zenon, <2>5 DEF Crash
    <3> QED  BY Zenon, <1>0, <2>0, <3>1, <3>2
  <2>6. ASSUME NEW i \in Insts, Tick(i) \/ RunWithout(i) \/ StubStatus(i) \/ Stop(i) PROVE UNCHANGED lock
    BY <2>6, Zenon DEF Tick, Run, RunStub, RunWithout, StubStatus, Stop
  <2>7. ASSUME NEW u \in Updaters, Publish(u) PROVE UNCHANGED lock  BY Zenon, <2>7 DEF Publish
  <2> QED
    BY <2>1, <2>2, <2>3, <2>4, <2>5, <2>6, <2>7, Zenon DEF Next, Step
<1> QED  BY Zenon, <1>1, <1>2

(* Under its lock an updater compares with the newest operation.           *)
LEMMA FreshStep ==
  ASSUME Types, OpsInv, NewestInv, JobInv, HoldsLock, FreshInv, Ordered, Next
  PROVE  FreshInv'
<1> SUFFICES ASSUME NEW j \in Insts, NEW w \in Updaters
             PROVE  /\ job'[j][w].pc = "fetch" =>
                         job'[j][w].prev <= up'[w] /\ \A o \in Ops(w)' : o.fp <= job'[j][w].prev
                    /\ job'[j][w].pc = "create" => \A o \in Ops(w)' : o.fp < job'[j][w].fp
  BY Zenon DEF FreshInv
<1> DEFINE r == job[j][w]
           n == job'[j][w]
<1>0. r \in Jobs /\ n \in Jobs  BY TypesStep DEF Types
<1>u. up[w] <= up'[w] /\ up[w] \in Nat /\ up'[w] \in Nat  BY Zenon, UpGrows
<1>f. \A o \in Ops(w) : o.fp \in Nat /\ o.fp <= up[w] /\ o.id \in Nat
  BY Zenon DEF Ops, Types, OpRows, OpsInv
<1>1. ASSUME n.pc = "fetch" \/ n.pc = "create" PROVE Ops(w)' \subseteq Ops(w)
  <2>1. ASSUME NEW i \in Insts, Adds(i, w) PROVE FALSE
    <3>1. job[i][w].pc = "create" /\ DriveUpdater(i, w)  BY Zenon, <2>1 DEF Adds, DriveUpdater
    <3>2. r.pc \in {"fetch", "create"} \/ GetFingerprint(j, w)
      <4>1. CASE DriveUpdater(j, w)  BY <1>1, <4>1, DriveOrder, Zenon
      <4>2. CASE n = r  BY Zenon, <1>1, <4>2
      <4>3. CASE n = [r EXCEPT !.lost = TRUE]  BY ZenonT(30), <1>0, <1>1, <4>3 DEF Jobs
      <4>4. CASE n = NoJob \/ n = [NoJob EXCEPT !.pc = "queued"]  BY <1>1, <4>4 DEF NoJob
      <4> QED  BY <4>1, <4>2, <4>3, <4>4, GoroutineCases, Zenon
    <3>3. r.pc \in Working  BY Zenon, <3>2 DEF Working, GetFingerprint
    <3>4. i = j  BY Zenon, <3>1, <3>3 DEF HoldsLock, Working
    <3>5. \/ Moves(i, w, [job[i][w] EXCEPT !.pc = "insert", !.op = nextid, !.pos = 1])
          \/ Moves(i, w, [job[i][w] EXCEPT !.pc = "status", !.rows = {}, !.links = {}, !.ok = FALSE])
      BY <2>1, DriveMoves, Zenon DEF Adds
    <3>6. n.pc \in {"insert", "status"}  BY Zenon, <1>0, <3>4, <3>5 DEF Moves, Jobs
    <3> QED  BY Zenon, <1>1, <3>6
  <2>2. ASSUME NEW i \in Insts, NEW u \in Updaters, NEW d \in {Now, PutBack}, Adds(i, u),
               update_operation' = update_operation \union {NewRow(i, u, d)}
        PROVE  Ops(w)' \subseteq Ops(w)
    <3>1. u # w /\ NewRow(i, u, d).updater = u  BY <2>1, <2>2, Zenon DEF NewRow
    <3> QED  BY <2>2, <3>1, Zenon DEF Ops
  <2>3. CASE update_operation' \subseteq update_operation  BY Zenon, <2>3 DEF Ops
  <2>4. \/ update_operation' \subseteq update_operation
        \/ \E i \in Insts, u \in Updaters, d \in {Now, PutBack} :
             Adds(i, u) /\ update_operation' = update_operation \union {NewRow(i, u, d)}
    BY OpsCases, Zenon
  <2> QED  BY <2>2, <2>3, <2>4, Zenon
<1>2. CASE n.pc = r.pc /\ n.prev = r.prev /\ n.fp = r.fp
  <2>1. /\ r.pc = "fetch" => r.prev <= up[w] /\ \A o \in Ops(w) : o.fp <= r.prev
        /\ r.pc = "create" => \A o \in Ops(w) : o.fp < r.fp
    BY Zenon DEF FreshInv
  <2>2. r.prev \in Nat  BY Zenon, <1>0 DEF Jobs
  <2> HIDE DEF r, n
  <2>3. /\ n.pc = "fetch" => n.prev <= up'[w] /\ \A o \in Ops(w)' : o.fp <= n.prev
        /\ n.pc = "create" => \A o \in Ops(w)' : o.fp < n.fp
    BY <1>1, <1>2, <1>u, <2>1, <2>2
  <2> QED  BY <2>3, Zenon DEF n
<1>3. CASE DriveUpdater(j, w)
  <2>1. ASSUME n.pc = "fetch"
        PROVE  n.prev <= up'[w] /\ \A o \in Ops(w)' : o.fp <= n.prev
    <3>1. n.prev = IF Ops(w) = {} THEN 0 ELSE LatestOp(w).fp  BY <1>3, <2>1, DriveOrder, ZenonT(30)
    <3> HIDE DEF n
    <3>2. CASE Ops(w) = {}  BY <1>1, <1>u, <2>1, <3>1, <3>2
    <3>3. CASE Ops(w) # {}
      <4> DEFINE l == LatestOp(w)
      <4>1. l \in Ops(w) /\ \A x \in Ops(w) : x.id <= l.id  BY Zenon, <3>3, Latest
      <4> HIDE DEF l
      <4>2. \A o \in Ops(w) : o.fp <= l.fp
        <5> SUFFICES ASSUME NEW o \in Ops(w) PROVE o.fp <= l.fp  BY Zenon
        <5>1. /\ o \in update_operation /\ l \in update_operation /\ o.updater = l.updater
              /\ o.id <= l.id /\ o.id \in Nat /\ l.id \in Nat /\ o.fp \in Nat /\ l.fp \in Nat
          BY Zenon, <1>f, <4>1 DEF Ops
        <5>2. CASE o.id = l.id
          <6>1. o = l  BY <5>1, <5>2, Zenon DEF OpsInv
          <6> QED  BY <5>1, <6>1
        <5>3. CASE o.id < l.id
          <6>1. o.fp < l.fp  BY <5>1, <5>3, Zenon DEF Ordered
          <6> QED  BY <5>1, <6>1
        <5> QED  BY <5>1, <5>2, <5>3
      <4>3. n.prev = l.fp  BY Zenon, <3>1, <3>3 DEF l
      <4>4. l.fp <= up[w] /\ l.fp \in Nat  BY <1>f, <4>1, Zenon
      <4> QED  BY <1>1, <1>u, <2>1, <4>2, <4>3, <4>4
    <3> QED  BY Zenon, <3>2, <3>3
  <2>2. ASSUME n.pc = "create" PROVE \A o \in Ops(w)' : o.fp < n.fp
    <3>1. r.pc = "fetch" /\ r.prev # up[w] /\ n.fp = up[w]  BY <1>3, <2>2, DriveOrder, ZenonT(30)
    <3>2. r.prev <= up[w] /\ \A o \in Ops(w) : o.fp <= r.prev  BY Zenon, <3>1 DEF FreshInv
    <3>3. r.prev \in Nat  BY Zenon, <1>0 DEF Jobs
    <3> HIDE DEF n, r
    <3> QED  BY <1>1, <1>u, <1>f, <2>2, <3>1, <3>2, <3>3
  <2> QED  BY <2>1, <2>2, Zenon
<1>4. CASE n = [r EXCEPT !.lost = TRUE]
  <2>1. n.pc = r.pc /\ n.prev = r.prev /\ n.fp = r.fp  BY Zenon, <1>0, <1>4 DEF Jobs
  <2> QED  BY <1>2, <2>1, Zenon
<1>5. CASE n = NoJob \/ n = [NoJob EXCEPT !.pc = "queued"]
  <2>1. n.pc # "fetch" /\ n.pc # "create"  BY <1>5 DEF NoJob
  <2> QED  BY <2>1, Zenon
<1>6. CASE n = r  BY <1>2, <1>6, Zenon
<1> QED  BY <1>3, <1>4, <1>5, <1>6, GoroutineCases, Zenon

(* An operation is added behind what its updater has seen.                 *)
LEMMA OrderedStep ==
  ASSUME Types, OpsInv, FreshInv, Ordered, Next
  PROVE  Ordered'
<1>1. ASSUME update_operation' \subseteq update_operation PROVE Ordered'
  BY Zenon, <1>1 DEF Ordered
<1>2. ASSUME NEW i \in Insts, NEW u \in Updaters, NEW d \in {Now, PutBack}, Adds(i, u),
             update_operation' = update_operation \union {NewRow(i, u, d)}
      PROVE  Ordered'
  <2> DEFINE n == NewRow(i, u, d)
  <2>1. n.id = nextid /\ n.updater = u /\ n.fp = job[i][u].fp  BY Zenon DEF NewRow
  <2>2. \A o \in Ops(u) : o.fp < job[i][u].fp  BY <1>2, Zenon DEF FreshInv, Adds
  <2>3. \A o \in update_operation : o.id \in Nat /\ o.id < nextid /\ nextid \in Nat
    BY Zenon DEF OpsInv, Types, OpRows
  <2>4. update_operation' = update_operation \union {n}  BY <1>2, Zenon
  <2> HIDE DEF n
  <2>5. \A o \in update_operation : ~(n.id < o.id) /\ (o.updater = n.updater => o.fp < n.fp)
    BY <2>1, <2>2, <2>3, SMTT(30) DEF Ops
  <2>6. ~(n.id < n.id)  BY <2>1 DEF Types
  <2> QED  BY <2>4, <2>5, <2>6, Zenon DEF Ordered
<1> QED  BY <1>1, <1>2, OpsCases, Zenon

(* What garbage collection has selected stays behind the newest Keep.      *)
GCInv == \A i \in Insts : \A o \in gc[i].ops : Cardinality(Later(o)) >= Keep

Tables ==
  Types /\ OpsInv /\ JobInv /\ LinkInv /\ GCRows /\ GCInv /\ IsFiniteSet(update_operation)

-----------------------------------------------------------------------------
(* A set of natural numbers with an element has a least one.               *)
LEMMA LeastNat ==
  ASSUME NEW T \in SUBSET Nat, T # {}
  PROVE  \E x \in T : \A y \in T : x <= y
<1> DEFINE R == {p \in Nat \X Nat : p[1] < p[2]}
<1>1. IsWellFoundedOn(R, Nat)
  BY Zenon, NatLessThanWellFounded DEF OpToRel
<1> HIDE DEF R
<1>2. PICK x \in T : \A y \in T : <<y, x>> \notin R
  BY <1>1, WFMin, Zenon
<1>3. ASSUME NEW y \in T PROVE x <= y
  <2>1. <<y, x>> \notin R  BY Zenon, <1>2
  <2>2. <<y, x>> \in Nat \X Nat /\ x \in Nat /\ y \in Nat  BY Zenon
  <2>3. ~(y < x)  BY Zenon, <2>1, <2>2 DEF R
  <2> QED  BY <2>2, <2>3
<1> QED  BY Zenon, <1>3

(* A bounded set of natural numbers with an element has a greatest one.    *)
LEMMA GreatestNat ==
  ASSUME NEW T \in SUBSET Nat, T # {}, NEW n \in Nat, \A t \in T : t <= n
  PROVE  \E x \in T : \A y \in T : y <= x
<1> DEFINE D == {m \in Nat : \E t \in T : m = n - t}
<1>1. D \in SUBSET Nat  BY Zenon
<1>2. PICK t \in T : TRUE  BY Zenon
<1>3. n - t \in D  BY <1>2
<1>4. PICK d \in D : \A e \in D : d <= e  BY <1>1, <1>3, LeastNat, Zenon
<1>5. PICK x \in T : d = n - x  BY Zenon, <1>4
<1>6. ASSUME NEW y \in T PROVE y <= x
  <2>1. n - y \in D  OBVIOUS
  <2>2. d <= n - y  BY <2>1, <1>4, Zenon
  <2> QED  BY <2>2, <1>5
<1> QED  BY Zenon, <1>6

(* Of some operations one has the greatest id.                             *)
LEMMA Newest ==
  ASSUME Types, OpsInv, NEW S \in SUBSET update_operation, S # {}
  PROVE  \E o \in S : \A x \in S : x.id <= o.id
<1> DEFINE T == {n \in Nat : \E o \in S : o.id = n}
<1>1. \A o \in S : o.id \in Nat /\ o.id <= nextid  BY DEF Types, OpsInv, OpRows
<1>2. nextid \in Nat  BY Zenon DEF Types
<1>3. T \in SUBSET Nat /\ T # {} /\ \A n \in T : n <= nextid  BY Zenon, <1>1
<1>4. \E n \in T : \A m \in T : m <= n  BY <1>2, <1>3, GreatestNat, Zenon
<1> QED  BY Zenon, <1>1, <1>4

(* An updater with operations has a newest one.                            *)
LEMMA HasNewest ==
  ASSUME Types, OpsInv
  PROVE  NewestInv
<1> SUFFICES ASSUME NEW u \in Updaters, Ops(u) # {} PROVE \E o \in Ops(u) : Newer(o) = {}
  BY Zenon DEF NewestInv
<1>1. Ops(u) \in SUBSET update_operation  BY Zenon DEF Ops
<1>2. PICK o \in Ops(u) : \A x \in Ops(u) : x.id <= o.id  BY <1>1, Newest, Zenon
<1>3. \A x \in update_operation : x.id \in Nat  BY Zenon DEF Types, OpRows
<1>4. Newer(o) = {}  BY <1>1, <1>2, <1>3 DEF Newer, Ops
<1> QED  BY Zenon, <1>4

(* Of some operations one has the latest date.                             *)
LEMMA LatestDate ==
  ASSUME Types, OpsInv, NEW S \in SUBSET update_operation, S # {}
  PROVE  \E o \in S : \A x \in S : x.date <= o.date
<1> DEFINE T == {n \in Nat : \E o \in S : o.date = n}
<1>1. \A o \in S : o.date \in Nat /\ o.date <= 2 * nextid  BY Zenon DEF Types, OpsInv, OpRows
<1>2. 2 * nextid \in Nat  BY DEF Types
<1>3. T \in SUBSET Nat /\ T # {} /\ \A n \in T : n <= 2 * nextid  BY Zenon, <1>1
<1>4. \E n \in T : \A m \in T : m <= n  BY <1>2, <1>3, GreatestNat, Zenon
<1> QED  BY Zenon, <1>1, <1>4

(* Deleting operations that each have Keep later ones leaves every other   *)
(* one, deleted or not, with as many as it had or with Keep.               *)
LEMMA KeepLatest ==
  ASSUME Types, OpsInv, IsFiniteSet(update_operation), NEW S, \A o \in S : Cardinality(Later(o)) >= Keep,
         update_operation' = update_operation \ S,
         NEW o, Cardinality(Later(o)) >= Keep, o.date \in Nat
  PROVE  Cardinality(Later(o)') >= Keep
<1> DEFINE N == Later(o)
<1>1. N \in SUBSET update_operation  BY Zenon DEF Later, Ops
<1>2. Later(o)' = N \ S  BY Zenon DEF Later, Ops
<1>3. CASE N \intersect S = {}
  <2>1. Later(o)' = N  BY Zenon, <1>2, <1>3
  <2> QED  BY Zenon, <2>1
<1>4. CASE N \intersect S # {}
  <2>1. PICK y \in N \intersect S : \A x \in N \intersect S : x.date <= y.date
    <3> HIDE DEF N
    <3> QED  BY <1>1, <1>4, LatestDate, Zenon
  <2>2. Later(y) \subseteq N \ S
    <3> SUFFICES ASSUME NEW x \in Later(y) PROVE x \in N /\ x \notin S
      BY Zenon
    <3>1. /\ x \in update_operation /\ x.updater = y.updater /\ x.date > y.date
          /\ y.updater = o.updater /\ y.date > o.date /\ y \in update_operation
      BY Zenon DEF Later, Ops
    <3>2. x.date \in Nat /\ y.date \in Nat  BY Zenon, <3>1 DEF Types, OpRows
    <3>3. x \in N  BY <3>1, <3>2 DEF Later, Ops
    <3>4. ~(x.date <= y.date)  BY <3>1, <3>2
    <3> QED  BY Zenon, <2>1, <3>3, <3>4
  <2>3. IsFiniteSet(N \ S)  BY Zenon, <1>1, FS_Subset
  <2>4. Cardinality(Later(y)) <= Cardinality(N \ S)  BY Zenon, <2>2, <2>3, FS_Subset
  <2>5. Cardinality(Later(y)) \in Nat /\ Cardinality(N \ S) \in Nat
    BY Zenon, <2>2, <2>3, FS_Subset, FS_CardinalityType
  <2>6. Cardinality(Later(y)) >= Keep  BY Zenon, <2>1
  <2> HIDE DEF N
  <2>7. Keep \in Nat  BY Zenon, UpdatesAssumption
  <2>8. Cardinality(N \ S) >= Keep  BY <2>4, <2>5, <2>6, <2>7
  <2> QED  BY Zenon, <1>2, <2>8
<1> QED  BY Zenon, <1>3, <1>4

(* One operation is added at a time.                                       *)
LEMMA FiniteStep ==
  ASSUME Tables, Next
  PROVE  IsFiniteSet(update_operation')
<1>1. IsFiniteSet(update_operation)  BY Zenon DEF Tables
<1>2. ASSUME NEW o, update_operation' = update_operation \union {o}
      PROVE  IsFiniteSet(update_operation')
  BY ZenonT(30), <1>1, <1>2, FS_AddElement, SMTT(30)
<1>3. ASSUME update_operation' \subseteq update_operation PROVE IsFiniteSet(update_operation')
  BY ZenonT(30), <1>1, <1>3, FS_Subset, SMTT(30)
<1>4. \/ update_operation' \subseteq update_operation
      \/ \E o : update_operation' = update_operation \union {o}
  BY OpsCases, Zenon
<1> QED  BY <1>2, <1>3, <1>4, Zenon

(* An operation that has Keep later ones goes on having them.              *)
LEMMA LaterStep ==
  ASSUME Tables, Next, NEW o \in OpRows, Cardinality(Later(o)) >= Keep
  PROVE  Cardinality(Later(o)') >= Keep
<1>0. Types /\ OpsInv /\ GCInv /\ IsFiniteSet(update_operation) /\ o.date \in Nat  BY Zenon DEF Tables, OpRows
<1>1. ASSUME update_operation' = update_operation PROVE Later(o)' = Later(o)
  BY Zenon, <1>1 DEF Later, Ops
<1>2. ASSUME NEW i \in Insts, NEW u \in Updaters, Adds(i, u)
      PROVE  Cardinality(Later(o)') >= Keep
  <2>1. update_operation \subseteq update_operation'  BY <1>2, Zenon DEF Adds
  <2>2. Later(o) \subseteq Later(o)' /\ Later(o)' \subseteq update_operation'  BY Zenon, <2>1 DEF Later, Ops
  <2>3. IsFiniteSet(update_operation')  BY Zenon, FiniteStep
  <2>4. IsFiniteSet(Later(o)')  BY ZenonT(30), <2>2, <2>3, FS_Subset, SMTT(30)
  <2>5. Cardinality(Later(o)) <= Cardinality(Later(o)')  BY Zenon, <2>2, <2>4, FS_Subset, SMTT(30)
  <2>6. Cardinality(Later(o)) \in Nat /\ Cardinality(Later(o)') \in Nat
    BY Zenon, <2>2, <2>4, FS_Subset, FS_CardinalityType, SMTT(30)
  <2>7. Keep \in Nat  BY Zenon, UpdatesAssumption
  <2> QED  BY <2>5, <2>6, <2>7
<1>3. ASSUME NEW i \in Insts, NEW u \in Updaters, Commits(i, u) \/ VulnCleanup(i, u)
      PROVE  update_operation' = update_operation
  BY <1>3, Zenon DEF Commits, CommitTx, VulnCleanup, DeleteVulns
<1>4. ASSUME NEW i \in Insts, DeleteOps(i) PROVE Cardinality(Later(o)') >= Keep
  <2>1. update_operation' = update_operation \ gc[i].ops
    BY <1>4, Zenon DEF DeleteOps, DeleteUpdateOperations
  <2>2. \A x \in gc[i].ops : Cardinality(Later(x)) >= Keep  BY <1>0, Zenon DEF GCInv
  <2> QED  BY <1>0, <2>1, <2>2, KeepLatest, ZenonT(30)
<1>5. ASSUME TablesSame PROVE update_operation' = update_operation  BY <1>5, Zenon DEF TablesSame
<1> QED  BY <1>1, <1>2, <1>3, <1>4, <1>5, StoreStep, ZenonT(30)

(* What was selected stays behind the latest Keep, whatever is added or    *)
(* deleted before the statement that deletes it.                           *)
LEMMA GCStep ==
  ASSUME Tables, Next
  PROVE  GCInv'
<1> SUFFICES ASSUME NEW i \in Insts, NEW o \in gc'[i].ops PROVE Cardinality(Later(o)') >= Keep
  BY Zenon DEF GCInv
<1>0. Types /\ GCInv  BY Zenon DEF Tables
<1>1. CASE o \in gc[i].ops
  <2>1. gc[i] \in GCs  BY Zenon, <1>0 DEF Types
  <2>2. o \in OpRows  BY Zenon, <1>1, <2>1 DEF GCs
  <2>3. Cardinality(Later(o)) >= Keep  BY <1>0, <1>1, Zenon DEF GCInv
  <2> QED  BY <2>2, <2>3, LaterStep, Zenon
<1>2. CASE o \in Eligible(Keep)
  <2>1. o \in OpRows /\ Cardinality(Later(o)) >= Keep  BY <1>0, <1>2, Zenon DEF Eligible, Types
  <2> QED  BY Zenon, <2>1, LaterStep
<1> QED  BY <1>0, <1>1, <1>2, GCOpsCases, Zenon

-----------------------------------------------------------------------------
(* The inductive invariant of the tables and of the goroutines that write  *)
(* them: whatever fails, links refer to rows and operations that exist, a  *)
(* transaction holds the contents of its version up to its position, and   *)
(* what garbage collection is about to delete has Keep later operations.   *)
THEOREM TablesInvariant == Spec => []Tables
<1>1. Init => Tables
  <2> SUFFICES ASSUME Init PROVE Tables  BY Zenon
  <2>0. NoJob \in Jobs  BY Zenon DEF NoJob, Jobs, JobPCs
  <2>1. NoGC \in GCs /\ NoGC.ops = {}  BY Zenon DEF NoGC, GCs
  <2>2. \A u \in Updaters : Len(feed[u]) \in Nat /\ 1 \in 1..Len(feed[u])  BY UpdatesAssumption
  <2>3. Types
    <3>1. trouble \in 0..MaxTrouble  BY UpdatesAssumption DEF Init
    <3>2. up \in [Updaters -> Nat] /\ \A u \in Updaters : up[u] \in 1..Len(feed[u])  BY Zenon, <2>2 DEF Init
    <3>3. job \in [Insts -> [Updaters -> Jobs]] /\ gc \in [Insts -> GCs]
      BY <2>0, <2>1, Zenon DEF Init
    <3>4. lock \in [Locks -> Insts \union {None}]  BY Zenon DEF Init
    <3> QED  BY <3>1, <3>2, <3>3, <3>4, SMTT(30) DEF Init, StoreInit, Types
  <2>4. OpsInv /\ IsFiniteSet(update_operation)  BY Zenon, FS_EmptySet DEF Init, StoreInit, OpsInv
  <2>5. Quiet(NoJob)  BY Zenon DEF Quiet, NoJob
  <2>6. JobInv
    <3> SUFFICES ASSUME NEW i \in Insts, NEW u \in Updaters PROVE JobOK(u, job[i][u])
      BY Zenon DEF JobInv
    <3>1. job[i][u] = NoJob  BY Zenon DEF Init
    <3> QED  BY <2>5, <3>1, Zenon DEF JobOK, Progress, Quiet
  <2>7. LinkInv  BY Zenon DEF Init, StoreInit, LinkInv
  <2>8. GCRows /\ GCInv  BY <2>1, Zenon DEF Init, GCRows, GCInv
  <2> QED  BY <2>3, <2>4, <2>6, <2>7, <2>8, Zenon DEF Tables
<1>2. Tables /\ [Next]_vars => Tables'
  <2>1. ASSUME Tables, Next PROVE Tables'
    <3>1. Types /\ OpsInv /\ JobInv /\ LinkInv /\ GCRows  BY Zenon, <2>1 DEF Tables
    <3>2. NewestInv  BY Zenon, <3>1, HasNewest
    <3>3. Types' /\ OpsInv' /\ JobInv'  BY <2>1, <3>1, <3>2, TypesStep, OpsStep, JobStep, Zenon
    <3>4. LinkInv' /\ GCRows'  BY <2>1, <3>1, LinkStep, GCRowsStep, Zenon
    <3>5. GCInv' /\ IsFiniteSet(update_operation')  BY Zenon, <2>1, GCStep, FiniteStep
    <3> QED  BY <3>3, <3>4, <3>5, Zenon DEF Tables
  <2>2. ASSUME Tables, UNCHANGED vars PROVE Tables'
    <3>1. UNCHANGED <<update_operation, nextid, vuln, uo_vuln, updater_status, up, pc, job, gc, lock, trouble>>
      BY <2>2, Zenon DEF vars, store, env
    <3>2. Types'  BY Zenon, <2>2, <3>1 DEF Tables, Types
    <3>3. OpsInv' /\ LinkInv'  BY Zenon, <2>2, <3>1 DEF Tables, OpsInv, LinkInv
    <3>4. JobInv'  BY <2>2, <3>1, Zenon DEF Tables, JobInv, JobOK
    <3>5. \A o : Later(o)' = Later(o)  BY Zenon, <3>1 DEF Later, Ops
    <3>6. GCRows' /\ GCInv' /\ IsFiniteSet(update_operation')
      BY <2>2, <3>1, <3>5, Zenon DEF Tables, GCRows, GCInv
    <3> QED  BY Zenon, <3>2, <3>3, <3>4, <3>6 DEF Tables
  <2> QED  BY Zenon, <2>1, <2>2
<1> QED  BY <1>1, <1>2, PTL DEF Spec

(* Foreign keys and types: no failed call, lost lock, crash or collection  *)
(* leaves a link to a row or an operation that is gone.                    *)
THEOREM TablesTyped == Spec => []TypeOK
<1>1. Tables => TypeOK
  <2> SUFFICES ASSUME Tables PROVE TypeOK  BY Zenon
  <2>1. Types /\ OpsInv /\ LinkInv  BY Zenon DEF Tables
  <2>2. nextid \in Nat  BY Zenon, <2>1 DEF Types
  <2>3. ASSUME NEW o \in update_operation
        PROVE  /\ o \in [id : 1..(nextid - 1), updater : Updaters, fp : Nat \ {0}, date : Nat]
               /\ o.fp \in 1..up[o.updater]
    <3>1. o \in OpRows /\ o.id < nextid /\ o.fp <= up[o.updater]  BY Zenon, <2>1 DEF Types, OpsInv
    <3>2. o.id \in Nat \ {0} /\ o.fp \in Nat \ {0} /\ o.updater \in Updaters  BY Zenon, <3>1 DEF OpRows
    <3>3. o.id \in 1..(nextid - 1)  BY <2>2, <3>1, <3>2
    <3>4. up[o.updater] \in Nat  BY Zenon, <2>1, <3>2 DEF Types
    <3>5. o.fp \in 1..up[o.updater]  BY <3>1, <3>2, <3>4
    <3>6. o \in [id : 1..(nextid - 1), updater : Updaters, fp : Nat \ {0}, date : Nat]
      BY <3>1, <3>3, Zenon DEF OpRows
    <3> QED  BY <3>5, <3>6, Zenon
  <2>4. \A x \in uo_vuln : x[2] \in Vulns /\ vuln[x[2]] # NoRow /\ \E o \in update_operation : o.id = x[1]
    <3>1. \A x \in uo_vuln : x[2] \in Vulns  BY Zenon, <2>1 DEF Types
    <3> QED  BY <2>1, <3>1, Zenon DEF LinkInv
  <2> QED  BY <2>1, <2>3, <2>4, Zenon DEF TypeOK, Types
<1> QED  BY <1>1, TablesInvariant, PTL

(* Garbage collection never deletes one of the latest Keep operations of   *)
(* an updater: an operation goes only while Keep later ones stay, though   *)
(* other instances add and delete operations between the statement that    *)
(* selects and the one that deletes, with or without the lock.             *)
THEOREM LatestKept == Spec => GCKeeps
<1> DEFINE Behind == \A o \in update_operation \ update_operation' :
             Cardinality({x \in update_operation' : x.updater = o.updater /\ x.date > o.date}) >= Keep
<1>1. Tables /\ [Next]_vars => Behind
  <2> SUFFICES ASSUME Tables, [Next]_vars, NEW o \in update_operation \ update_operation'
               PROVE  Cardinality({x \in update_operation' : x.updater = o.updater /\ x.date > o.date}) >= Keep
    BY Zenon
  <2>1. Next  BY Zenon DEF vars, store
  <2>2. PICK i \in Insts : DeleteOps(i)
    BY <2>1, OpsCases, Zenon
  <2>3. o \in gc[i].ops /\ o \in OpRows
    BY Zenon, <2>2 DEF DeleteOps, DeleteUpdateOperations, Tables, Types
  <2>4. Cardinality(Later(o)) >= Keep  BY <2>3, Zenon DEF Tables, GCInv
  <2>5. Cardinality(Later(o)') >= Keep  BY <2>1, <2>3, <2>4, LaterStep, Zenon
  <2>6. Later(o)' = {x \in update_operation' : x.updater = o.updater /\ x.date > o.date}
    BY Zenon DEF Later, Ops
  <2> QED  BY Zenon, <2>5, <2>6
<1>2. Behind => [Behind]_vars  BY Zenon
<1> QED  BY <1>1, <1>2, TablesInvariant, PTL DEF Spec, GCKeeps

(* Operations hold whole updates, for any number of instances, updaters    *)
(* and vulnerabilities and with any faults: what an operation refers to    *)
(* comes in one step, all of its version, though calls fail, commits go    *)
(* unanswered, locks are lost and processes die; it changes afterwards     *)
(* only by a collection, of rows that no operation referred to when they   *)
(* were selected.  Nothing is assumed about the order of the two           *)
(* statements of vulnCleanup and the transactions of the others.           *)
THEOREM WholeOperations == Spec => WholeUpdates
<1> DEFINE Inv == Tables /\ OwnInv
           Whole == \A o \in update_operation \intersect update_operation' :
                      Linked(o.id)' # Linked(o.id) => Loads(o) \/ Collected(o)
           Selected == \A i \in Insts, u \in Updaters : \A v \in gc'[i].seen[u] \ gc[i].seen[u] :
                         \A o \in update_operation : v \notin Linked(o.id)
<1>1. Init => OwnInv
  <2> SUFFICES ASSUME Init PROVE OwnInv  BY Zenon
  <2>1. \A i \in Insts, u \in Updaters : job[i][u] = NoJob  BY Zenon DEF Init
  <2>2. ~Writes(NoJob)  BY Zenon DEF NoJob, Writes
  <2> QED  BY Zenon, <2>1, <2>2 DEF OwnInv
<1>2. Tables /\ OwnInv /\ [Next]_vars => OwnInv'
  <2>1. ASSUME Tables, OwnInv, Next PROVE OwnInv'
    <3>1. Types /\ OpsInv /\ JobInv /\ LinkInv /\ NewestInv  BY Zenon, <2>1, HasNewest DEF Tables
    <3> QED  BY Zenon, <2>1, <3>1, OwnStep
  <2>2. ASSUME OwnInv, UNCHANGED vars PROVE OwnInv'
    <3>1. uo_vuln' = uo_vuln /\ job' = job  BY <2>2, Zenon DEF vars, store
    <3> QED  BY <2>2, <3>1, SMT DEF OwnInv, Writes
  <2> QED  BY <2>1, <2>2, Zenon
<1>3. Tables /\ OwnInv /\ [Next]_vars => [Whole /\ Selected]_vars
  <2> SUFFICES ASSUME Tables, OwnInv, Next PROVE Whole /\ Selected  BY Zenon
  <2>1. Types /\ OpsInv /\ JobInv /\ GCRows /\ NewestInv  BY Zenon, HasNewest DEF Tables
  <2>2. Whole  BY Zenon, <2>1, LinkedStep
  <2>3. ASSUME NEW i \in Insts, NEW u \in Updaters, NEW v \in gc'[i].seen[u] \ gc[i].seen[u],
               NEW o \in update_operation
        PROVE  v \notin Linked(o.id)
    <3>1. v \in Orphans(u)  BY Zenon, <2>1, <2>3, SeenCases
    <3>2. \A x \in uo_vuln : x[2] # v  BY Zenon, <3>1 DEF Orphans
    <3> QED  BY Zenon, <3>2 DEF Linked
  <2> QED  BY Zenon, <2>2, <2>3
<1> HIDE DEF Whole, Selected
<1>4. [][Whole /\ Selected]_vars => WholeUpdates  BY PTL DEF WholeUpdates, Whole, Selected
<1> QED  BY <1>1, <1>2, <1>3, <1>4, TablesInvariant, PTL DEF Spec

(* No lock is lost while its holder works.                                 *)
LocksKept == [][\A i \in Insts, n \in Locks : ~LockLost(i, n)]_vars

(* Operations of one updater are in the order of what its source           *)
(* published, and none is loaded twice, for any number of instances and    *)
(* through failed calls, failed transactions, ended contexts and crashes,  *)
(* as long as the locks of libvuln/updates are kept.                       *)
THEOREM UpdatesOrdered == Spec /\ LocksKept => []Ordered
<1> DEFINE Kept == \A i \in Insts, n \in Locks : ~LockLost(i, n)
           Inv == RunInv /\ HoldsLock /\ FreshInv /\ Ordered
<1>1. Init => Inv
  <2> SUFFICES ASSUME Init PROVE Inv  BY Zenon
  <2>1. \A i \in Insts, u \in Updaters : job[i][u] = NoJob  BY Zenon DEF Init
  <2>2. NoJob.pc = "none"  BY Zenon DEF NoJob
  <2>3. RunInv /\ HoldsLock /\ FreshInv
    BY Zenon, <2>1, <2>2 DEF RunInv, HoldsLock, FreshInv, Working
  <2>4. Ordered  BY Zenon DEF Init, StoreInit, Ordered
  <2> QED  BY Zenon, <2>3, <2>4
<1>2. Tables /\ Inv /\ [Next]_vars /\ [Kept]_vars => Inv'
  <2>1. ASSUME Tables, Inv, Next, Kept PROVE Inv'
    <3>1. Types /\ OpsInv /\ JobInv /\ NewestInv  BY Zenon, <2>1, HasNewest DEF Tables
    <3>2. RunInv'  BY Zenon, <2>1, <3>1, RunStep
    <3>3. HoldsLock'  BY Zenon, <2>1, <3>1, HoldStep
    <3>4. FreshInv'  BY <2>1, <3>1, FreshStep, Zenon
    <3>5. Ordered'  BY <2>1, <3>1, OrderedStep, Zenon
    <3> QED  BY <3>2, <3>3, <3>4, <3>5, Zenon
  <2>2. ASSUME Inv, UNCHANGED vars PROVE Inv'
    <3>1. UNCHANGED <<update_operation, up, pc, job, lock>>  BY <2>2, Zenon DEF vars, store, env
    <3>2. RunInv' /\ HoldsLock'  BY <2>2, <3>1, Zenon DEF RunInv, HoldsLock
    <3>3. FreshInv' /\ Ordered'  BY <2>2, <3>1, Zenon DEF FreshInv, Ordered, Ops
    <3> QED  BY Zenon, <3>2, <3>3
  <2> HIDE DEF Inv, Kept
  <2> QED  BY <2>1, <2>2, Zenon
<1>3. Inv => Ordered  BY Zenon
<1> HIDE DEF Inv
<1> QED  BY <1>1, <1>2, <1>3, TablesInvariant, PTL DEF Spec, LocksKept
=============================================================================
