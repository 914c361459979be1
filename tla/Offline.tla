------------------------------- MODULE Offline -------------------------------
(***************************************************************************)
(* Offline updates: updaters run against a jsonblob.Store, its Store       *)
(* method writes the entries out, and OfflineImport loads the file into    *)
(* the database on the other side.  Importers take no lock.                *)
(***************************************************************************)
EXTENDS VulnStore, SequencesExt, FiniteSetsExt

CONSTANTS
  Importers,   \* processes that call OfflineImport
  Feed,        \* what an updater's source publishes: sequences of vulnerabilities, by version
  MaxEntries,  \* bound on the entries of the jsonblob.Store
  MaxImports,  \* bound on the calls of OfflineImport
  MaxTrouble   \* bound on failed store calls and on readers that do not give the whole file

ASSUME OfflineAssumption == {MaxEntries, MaxImports, MaxTrouble} \subseteq Nat

VARIABLES
  blob,     \* the jsonblob.Store: its entries, in the order they were made
  feed,     \* the version each updater's source publishes
  file,     \* what was written out, one diskEntry per vulnerability
  imp,      \* the importers
  began,    \* calls of OfflineImport
  trouble

vars == <<store, blob, feed, file, imp, began, trouble>>

NoEntry == [updater |-> "", fp |-> 0, vulns |-> <<>>]
Loader0 == [start |-> 1, pos |-> 0, cur |-> 0, err |-> "", e |-> NoEntry]
Idle == [pc |-> "idle", ops |-> {}, loader |-> Loader0, id |-> 0, seen |-> <<>>, in |-> <<>>, broken |-> FALSE]

Init ==
  /\ StoreInit
  /\ blob = <<>> /\ feed = [u \in Updaters |-> 1] /\ file = <<>>
  /\ imp = [i \in Importers |-> Idle]
  /\ began = 0 /\ trouble = 0

Blob == UNCHANGED <<blob, feed, file>>

-----------------------------------------------------------------------------
(* jsonblob.Store.  An updater that runs asks for the operations of its    *)
(* name: copyops sorts them by date, oldest first, so that its previous    *)
(* fingerprint is that of the first entry.                                 *)
GetUpdateOperations(u, kind) ==
  SelectSeq([r \in DOMAIN blob |-> blob[r] @@ [ref |-> r]], LAMBDA e : e.updater = u /\ e.kind = kind)

Unchanged(u) ==
  LET ops == GetUpdateOperations(u, "vulnerability")
  IN  ops # <<>> /\ ops[1].fp = feed[u]

UpdateVulnerabilities(u) ==
  /\ Len(blob) < MaxEntries /\ ~Unchanged(u)
  /\ blob' = Append(blob, [updater |-> u, kind |-> "vulnerability", fp |-> feed[u], vulns |-> Feed[u][feed[u]]])
  /\ UNCHANGED <<store, feed, file, imp, began, trouble>>

UpdateEnrichments(u) ==
  /\ Len(blob) < MaxEntries
  /\ blob' = Append(blob, [updater |-> u, kind |-> "enrichment", fp |-> feed[u], vulns |-> <<>>])
  /\ UNCHANGED <<store, feed, file, imp, began, trouble>>

(* The source publishes its next version. *)
Publish(u) ==
  /\ feed[u] < Len(Feed[u])
  /\ feed' = [feed EXCEPT ![u] = @ + 1]
  /\ UNCHANGED <<store, blob, file, imp, began, trouble>>

(* Store.Store: an entry after the other, in the order of a Go map, and    *)
(* for each of its vulnerabilities a line.                                 *)
Lines(r) == [k \in DOMAIN blob[r].vulns |->
  [ref |-> r, updater |-> blob[r].updater, fp |-> blob[r].fp, vuln |-> blob[r].vulns[k]]]

StoreOut ==
  /\ \E order \in SetToSeqs(DOMAIN blob) : file' = FlattenSeq([k \in DOMAIN order |-> Lines(order[k])])
  /\ file # file'
  /\ UNCHANGED <<store, blob, feed, imp, began, trouble>>

-----------------------------------------------------------------------------
(* Loader.Next, on a loader l of the lines in: the lines up to the next    *)
(* one of another reference are the next entry.  So are those up to the    *)
(* end, whether Decode reports io.EOF there or an error, because the lines *)
(* are broken off: Next reports true once more, and false from then on.    *)
EntryOf(in, a, b) ==
  IF b < a THEN NoEntry
  ELSE [updater |-> in[a].updater, fp |-> in[a].fp, vulns |-> [k \in 1..(b - a + 1) |-> in[a + k - 1].vuln]]

(* Mutant: an entry ends where the updater changes. *)
LoaderNextByUpdater(l, in, broken) ==
  LET cur == IF l.cur = 0 /\ in # <<>> THEN in[1].ref ELSE l.cur
      other == {k \in (l.pos + 1)..Len(in) : in[k].updater # in[l.start].updater}
  IN  IF other # {}
      THEN [l EXCEPT !.e = EntryOf(in, l.start, Min(other) - 1),
                     !.start = Min(other), !.pos = Min(other), !.cur = in[Min(other)].ref]
      ELSE [l EXCEPT !.e = EntryOf(in, l.start, Len(in)), !.pos = Len(in), !.cur = cur,
                     !.err = IF broken THEN "bad" ELSE "EOF"]

LoaderNext(l, in, broken) ==
  LET cur == IF l.cur = 0 /\ in # <<>> THEN in[1].ref ELSE l.cur
      other == {k \in (l.pos + 1)..Len(in) : in[k].ref # cur}
  IN  IF other # {}
      THEN [l EXCEPT !.e = EntryOf(in, l.start, Min(other) - 1),
                     !.start = Min(other), !.pos = Min(other), !.cur = in[Min(other)].ref]
      ELSE [l EXCEPT !.e = EntryOf(in, l.start, Len(in)), !.pos = Len(in), !.cur = cur,
                     !.err = IF broken THEN "bad" ELSE "EOF"]

-----------------------------------------------------------------------------
(* OfflineImport.  The operations are read once, before the first entry.   *)
(* The reader gives the whole file, or the lines before some point, where  *)
(* it ends or breaks off.                                                  *)
Begin(i) ==
  /\ imp[i].pc \in {"idle", "done", "failed", "panic"} /\ began < MaxImports
  /\ \E cut \in 0..Len(file), broken \in BOOLEAN :
       /\ IF cut = Len(file) /\ ~broken THEN UNCHANGED trouble
          ELSE trouble < MaxTrouble /\ trouble' = trouble + 1
       /\ imp' = [imp EXCEPT ![i] = [Idle EXCEPT !.pc = "next", !.ops = update_operation,
                                                 !.in = SubSeq(file, 1, cut), !.broken = broken]]
  /\ began' = began + 1
  /\ UNCHANGED store /\ Blob

(* An entry, which is nil when there was no line. *)
Next_(i) ==
  /\ imp[i].pc = "next" /\ imp[i].loader.err = ""
  /\ LET l == LoaderNext(imp[i].loader, imp[i].in, imp[i].broken)
     IN  imp' = [imp EXCEPT ![i].loader = l, ![i].seen = Append(@, l.e),
           ![i].pc = IF l.e = NoEntry THEN "panic" ELSE "entry"]
  /\ UNCHANGED <<store, began, trouble>> /\ Blob

Known(i) == \E o \in imp[i].ops : o.updater = imp[i].loader.e.updater /\ o.fp = imp[i].loader.e.fp

Skip(i) ==
  /\ imp[i].pc = "entry" /\ Known(i)
  /\ imp' = [imp EXCEPT ![i].pc = "next"]
  /\ UNCHANGED <<store, began, trouble>> /\ Blob

Create(i) ==
  /\ imp[i].pc = "entry" /\ ~Known(i)
  /\ CreateOp(imp[i].loader.e.updater, imp[i].loader.e.fp, Now)
  /\ imp' = [imp EXCEPT ![i].pc = "load", ![i].id = nextid]
  /\ UNCHANGED <<began, trouble>> /\ Blob

(* Mutant: only the vulnerabilities that are new are linked to the operation. *)
LoadNewLinks(i) ==
  /\ imp[i].pc = "load"
  /\ LET new == {v \in ToSet(imp[i].loader.e.vulns) : vuln[v] = NoRow}
     IN  CommitTx(imp[i].loader.e.updater, imp[i].id, new, new)
  /\ imp' = [imp EXCEPT ![i].pc = "next"]
  /\ UNCHANGED <<began, trouble>> /\ Blob

(* The transaction with the vulnerabilities; rows that exist are kept. *)
Load(i) ==
  /\ imp[i].pc = "load"
  /\ LET e == imp[i].loader.e
     IN  CommitTx(e.updater, imp[i].id, {v \in ToSet(e.vulns) : vuln[v] = NoRow}, ToSet(e.vulns))
  /\ imp' = [imp EXCEPT ![i].pc = "next"]
  /\ UNCHANGED <<began, trouble>> /\ Blob

(* A store call that fails: GetUpdateOperations, or one of the two parts   *)
(* of UpdateVulnerabilities.  The process may as well end there.           *)
Fails(i) ==
  /\ \/ imp[i].pc = "next" /\ imp[i].loader = Loader0
     \/ imp[i].pc = "entry" /\ ~Known(i)
     \/ imp[i].pc = "load"
  /\ trouble < MaxTrouble
  /\ trouble' = trouble + 1
  /\ imp' = [imp EXCEPT ![i].pc = "failed"]
  /\ UNCHANGED <<store, began>> /\ Blob

(* Next reported false: Err is nil at io.EOF only. *)
Return(i) ==
  /\ imp[i].pc = "next" /\ imp[i].loader.err # ""
  /\ imp' = [imp EXCEPT ![i].pc = IF imp[i].loader.err = "EOF" THEN "done" ELSE "failed"]
  /\ UNCHANGED <<store, began, trouble>> /\ Blob

Producer(u) == UpdateVulnerabilities(u) \/ UpdateEnrichments(u) \/ Publish(u)
Import(i) == Begin(i) \/ Next_(i) \/ Skip(i) \/ Create(i) \/ Load(i) \/ Fails(i) \/ Return(i)

Next == (\E u \in Updaters : Producer(u)) \/ StoreOut \/ (\E i \in Importers : Import(i))

Spec == Init /\ [][Next]_vars

-----------------------------------------------------------------------------
TypeOK ==
  /\ Len(blob) <= MaxEntries /\ began \in 0..MaxImports /\ trouble \in 0..MaxTrouble
  /\ \A i \in Importers : imp[i].pc \in {"idle", "next", "entry", "load", "done", "failed", "panic"}
  /\ \A x \in uo_vuln : (\E o \in update_operation : o.id = x[1]) /\ vuln[x[2]] # NoRow

(* The entries a file's lines are of, each with its reference. *)
Written(f) ==
  LET refs == {f[k].ref : k \in DOMAIN f}
      lines(r) == SelectSeq(f, LAMBDA d : d.ref = r)
  IN  {[updater |-> lines(r)[1].updater, fp |-> lines(r)[1].fp,
        vulns |-> [k \in DOMAIN lines(r) |-> lines(r)[k].vuln], ref |-> r] : r \in refs}

(* Store.Store and Loader.Next (jsonblob.go:104 "It's the inverse of       *)
(* Load"): an import that returned nil has seen every entry of the lines   *)
(* it was given once and whole, and nothing else, whatever the order of    *)
(* the entries and however many share an updater; and the store has each   *)
(* of them as an operation, found or made.                                 *)
RoundTrip ==
  \A i \in Importers : imp[i].pc = "done" =>
    LET ws == Written(imp[i].in)
        same(e, w) == e.updater = w.updater /\ e.fp = w.fp /\ e.vulns = w.vulns
    IN  /\ Len(imp[i].seen) = Cardinality(ws)
        /\ \A w \in ws :
             /\ Cardinality({k \in DOMAIN imp[i].seen : same(imp[i].seen[k], w)}) =
                Cardinality({x \in ws : same(x, w)})
             /\ \E o \in update_operation : o.updater = w.updater /\ o.fp = w.fp

(* An operation that does not have the vulnerabilities its updater         *)
(* published with that fingerprint, and that nobody is about to load.      *)
Loading(id) == \E i \in Importers : imp[i].pc = "load" /\ imp[i].id = id
Spoiled == {o \in update_operation : ~Loading(o.id) /\ Linked(o.id) # ToSet(Feed[o.updater][o.fp])}

(* updatevulnerabilities.go:97, one transaction: importers at work at the  *)
(* same time do not spoil each other's operations.  Each one that is not   *)
(* whole goes back to a failed store call or to a reader that did not give *)
(* the whole file, and it has no vulnerability of another entry.           *)
ImportsWhole ==
  /\ TypeOK
  /\ Cardinality(Spoiled) <= trouble
  /\ \A o \in update_operation : Linked(o.id) \subseteq ToSet(Feed[o.updater][o.fp])
=============================================================================
