----------------------------- MODULE FetchArena -----------------------------
(***************************************************************************)
(* libindex/fetcher.go: the RemoteFetchArena that downloads layers for     *)
(* concurrent Index calls, and the FetchProxy each call holds.             *)
(*                                                                         *)
(* A download ("flight") is shared through singleflight and writes a       *)
(* temporary file.  The first task to take the arena's mutex afterwards    *)
(* renames it to its permanent name; every task adds one reference and     *)
(* the proxy's Close takes them back one digest at a time.                 *)
(***************************************************************************)
EXTENDS Naturals, Sequences, FiniteSets

CONSTANTS
  Proxies,      \* one per Index call
  Layers,       \* digests
  manifest,     \* the layers a proxy is asked to realize, in order
  MaxFlight,    \* bound: downloads started
  Flaky,        \* bound: layers whose download or rename may fail by itself
  Cancellable,  \* bound: proxies whose parent context may end
  ArenaCloses   \* bound: whether RemoteFetchArena.Close may be called

ASSUME FetchArenaAssumption ==
  /\ IsFiniteSet(Proxies)
  /\ manifest \in [Proxies -> Seq(Layers)]
  /\ MaxFlight \in Nat
  /\ Flaky \subseteq Layers /\ Cancellable \subseteq Proxies
  /\ ArenaCloses \in BOOLEAN

VARIABLES
  proxy,   \* FetchProxy: "new", "fetching", "ready", "failed", "closing", "closed"
  at,      \* position of Close in the proxy's list of digests
  done,    \* the errgroup's context is done
  task,    \* fetchOne per proxy and position
  on,      \* the flight whose result a task waits for or has
  flight,  \* downloads in the order they started, with the proxy whose context they use
  sf,      \* singleflight.Group: the flight of a layer, 0 when there is none
  temp,    \* flights whose temporary file exists
  perm,    \* layers whose permanent file exists
  rc,      \* RemoteFetchArena.rc, 0 when absent
  arena    \* "open" or "closed"

vars == <<proxy, at, done, task, on, flight, sf, temp, perm, rc, arena>>
files == <<temp, perm, rc, arena>>

Tasks == UNION {{<<p, i>> : i \in 1..Len(manifest[p])} : p \in Proxies}

Layer(t) == manifest[t[1]][t[2]]

TasksOf(p) == {t \in Tasks : t[1] = p}

TaskStates == {"idle", "start", "wait", "got", "ok", "err"}

FlightRecs == [st : {"running", "done", "failed"}, layer : Layers, owner : Proxies]

Init ==
  /\ proxy = [p \in Proxies |-> "new"]
  /\ at = [p \in Proxies |-> 1]
  /\ done = [p \in Proxies |-> FALSE]
  /\ task = [t \in Tasks |-> "idle"]
  /\ on = [t \in Tasks |-> 0]
  /\ flight = <<>>
  /\ sf = [l \in Layers |-> 0]
  /\ temp = {} /\ perm = {}
  /\ rc = [l \in Layers |-> 0]
  /\ arena = "open"

(* Realize: one fetchOne per layer.                                        *)
Realize(p) ==
  /\ proxy[p] = "new"
  /\ proxy' = [proxy EXCEPT ![p] = "fetching"]
  /\ task' = [t \in Tasks |-> IF t[1] = p THEN "start" ELSE task[t]]
  /\ UNCHANGED <<at, done, on, flight, sf, files>>

(* sf.DoChan: join the flight of this layer, or start one.  realizeLayer   *)
(* opens its temporary file first and runs under the caller's context.     *)
DoChan(t) ==
  LET l == Layer(t)
  IN /\ task[t] = "start"
     /\ task' = [task EXCEPT ![t] = "wait"]
     /\ \/ /\ sf[l] # 0
           /\ on' = [on EXCEPT ![t] = sf[l]]
           /\ UNCHANGED <<flight, sf, temp>>
        \/ /\ sf[l] = 0 /\ Len(flight) < MaxFlight
           /\ flight' = Append(flight, [st |-> "running", layer |-> l, owner |-> t[1]])
           /\ on' = [on EXCEPT ![t] = Len(flight) + 1]
           /\ sf' = [sf EXCEPT ![l] = Len(flight) + 1]
           /\ temp' = temp \union {Len(flight) + 1}
     /\ UNCHANGED <<proxy, at, done, perm, rc, arena>>

(* realizeLayer returns.  singleflight drops the call unless Forget has    *)
(* already replaced it.                                                    *)
Land(f, st) ==
  /\ flight[f].st = "running"
  /\ flight' = [flight EXCEPT ![f].st = st]
  /\ sf' = [sf EXCEPT ![flight[f].layer] = IF @ = f THEN 0 ELSE @]

RealizeLayer(f) ==
  /\ Land(f, "done")
  /\ UNCHANGED <<proxy, at, done, task, on, files>>

(* The request, the checksum or the tar check fails, or the context of the *)
(* proxy that started the flight is done: the temporary file is removed.   *)
RealizeLayerError(f) ==
  /\ flight[f].layer \in Flaky \/ done[flight[f].owner]
  /\ Land(f, "failed")
  /\ temp' = temp \ {f}
  /\ UNCHANGED <<proxy, at, done, task, on, perm, rc, arena>>

(* fetchOne's select: the flight's result.                                 *)
Result(t) ==
  /\ task[t] = "wait" /\ flight[on[t]].st = "done"
  /\ task' = [task EXCEPT ![t] = "got"]
  /\ UNCHANGED <<proxy, at, done, on, flight, sf, files>>

(* fetchOne's select: the flight's error or ctx.Done.  The first error of  *)
(* the group cancels the group's context.                                  *)
Failure(t) ==
  /\ task[t] = "wait"
  /\ flight[on[t]].st = "failed" \/ done[t[1]]
  /\ task' = [task EXCEPT ![t] = "err"]
  /\ done' = [done EXCEPT ![t[1]] = TRUE]
  /\ UNCHANGED <<proxy, at, on, flight, sf, files>>

(* fetchOne under the mutex: the layer has no reference yet, this flight's *)
(* file becomes the permanent one.                                         *)
Install(t) ==
  LET l == Layer(t)
  IN /\ task[t] = "got" /\ rc[l] = 0 /\ on[t] \in temp
     /\ temp' = temp \ {on[t]}
     /\ perm' = perm \union {l}
     /\ rc' = [rc EXCEPT ![l] = 1]
     /\ task' = [task EXCEPT ![t] = "ok"]
     /\ UNCHANGED <<proxy, at, done, on, flight, sf, arena>>

(* os.Rename fails: the group is cancelled and the temporary file stays.   *)
RenameError(t) ==
  /\ task[t] = "got" /\ rc[Layer(t)] = 0 /\ on[t] \in temp
  /\ Layer(t) \in Flaky
  /\ task' = [task EXCEPT ![t] = "err"]
  /\ done' = [done EXCEPT ![t[1]] = TRUE]
  /\ UNCHANGED <<proxy, at, on, flight, sf, files>>

(* Mutant: the caller goes back to waiting on the flight it already has.   *)
RedoSame(t) ==
  /\ task[t] = "got" /\ rc[Layer(t)] = 0 /\ on[t] \notin temp
  /\ task' = [task EXCEPT ![t] = "wait"]
  /\ UNCHANGED <<proxy, at, done, on, flight, sf, files>>

(* fetchOne under the mutex: another task of the flight renamed the file   *)
(* and its proxy has removed it since.  Start over.                        *)
Redo(t) ==
  /\ task[t] = "got" /\ rc[Layer(t)] = 0 /\ on[t] \notin temp
  /\ task' = [task EXCEPT ![t] = "start"]
  /\ UNCHANGED <<proxy, at, done, on, flight, sf, files>>

(* Mutant: only the task that renames the file counts itself.              *)
ShareUncounted(t) ==
  /\ task[t] = "got" /\ rc[Layer(t)] > 0
  /\ task' = [task EXCEPT ![t] = "ok"]
  /\ UNCHANGED <<proxy, at, done, on, flight, sf, files>>

(* fetchOne under the mutex: the layer is there, add a reference.          *)
Share(t) ==
  /\ task[t] = "got" /\ rc[Layer(t)] > 0
  /\ rc' = [rc EXCEPT ![Layer(t)] = @ + 1]
  /\ task' = [task EXCEPT ![t] = "ok"]
  /\ UNCHANGED <<proxy, at, done, on, flight, sf, temp, perm, arena>>

(* g.Wait returns when every task has; it cancels the group's context.     *)
RealizeReturn(p) ==
  /\ proxy[p] = "fetching"
  /\ \A t \in TasksOf(p) : task[t] \in {"ok", "err"}
  /\ proxy' = [proxy EXCEPT ![p] = IF \E t \in TasksOf(p) : task[t] = "err"
                                   THEN "failed" ELSE "ready"]
  /\ done' = [done EXCEPT ![p] = TRUE]
  /\ UNCHANGED <<at, task, on, flight, sf, files>>

(* FetchProxy.Close: forget the digests one by one.  The controller may    *)
(* end without Realize, and then there are none.                           *)
Close(p) ==
  /\ proxy[p] \in {"new", "ready", "failed"}
  /\ proxy' = [proxy EXCEPT ![p] = IF @ = "new" THEN "closed" ELSE "closing"]
  /\ UNCHANGED <<at, done, task, on, flight, sf, files>>

(* Mutant: the last reference leaves the file behind.                      *)
DropRefKeepFile(l) ==
  /\ rc' = [rc EXCEPT ![l] = IF @ = 0 THEN 0 ELSE @ - 1]
  /\ sf' = [sf EXCEPT ![l] = IF rc[l] = 1 THEN 0 ELSE @]
  /\ UNCHANGED perm

(* forget: drop one reference; the last one removes the file and makes     *)
(* singleflight forget the digest.                                         *)
DropRef(l) ==
  /\ rc' = [rc EXCEPT ![l] = IF @ = 0 THEN 0 ELSE @ - 1]
  /\ perm' = IF rc[l] = 1 THEN perm \ {l} ELSE perm
  /\ sf' = [sf EXCEPT ![l] = IF rc[l] = 1 THEN 0 ELSE @]

Forget(p) ==
  /\ proxy[p] = "closing" /\ at[p] <= Len(manifest[p])
  /\ DropRef(manifest[p][at[p]])
  /\ at' = [at EXCEPT ![p] = @ + 1]
  /\ UNCHANGED <<proxy, done, task, on, flight, temp, arena>>

CloseReturn(p) ==
  /\ proxy[p] = "closing" /\ at[p] > Len(manifest[p])
  /\ proxy' = [proxy EXCEPT ![p] = "closed"]
  /\ UNCHANGED <<at, done, task, on, flight, sf, files>>

(* RemoteFetchArena.Close, whoever still uses the files.                   *)
CloseArena ==
  /\ ArenaCloses /\ arena = "open"
  /\ arena' = "closed"
  /\ rc' = [l \in Layers |-> 0]
  /\ perm' = perm \ {l \in Layers : rc[l] > 0}
  /\ sf' = [l \in Layers |-> IF rc[l] > 0 THEN 0 ELSE sf[l]]
  /\ UNCHANGED <<proxy, at, done, task, on, flight, temp>>

(* The caller of Index goes away while its layers are being fetched.       *)
Cancel(p) ==
  /\ p \in Cancellable /\ proxy[p] = "fetching" /\ ~done[p]
  /\ done' = [done EXCEPT ![p] = TRUE]
  /\ UNCHANGED <<proxy, at, task, on, flight, sf, files>>

-----------------------------------------------------------------------------
FetchOne(t) ==
  \/ DoChan(t) \/ Result(t) \/ Failure(t) \/ Install(t)
  \/ RenameError(t) \/ Redo(t) \/ Share(t)

Download(f) == RealizeLayer(f) \/ RealizeLayerError(f)

ProxyStep(p) == RealizeReturn(p) \/ Forget(p) \/ CloseReturn(p)

Next ==
  \/ \E t \in Tasks : FetchOne(t)
  \/ \E f \in 1..Len(flight) : Download(f)
  \/ \E p \in Proxies : Realize(p) \/ Close(p) \/ Cancel(p) \/ ProxyStep(p)
  \/ CloseArena

Spec == Init /\ [][Next]_vars

(* Goroutines run and downloads end; nobody has to call Realize or Close.  *)
FairSpec ==
  /\ Spec
  /\ \A t \in Tasks : WF_vars(FetchOne(t))
  /\ \A f \in 1..MaxFlight : WF_vars(f <= Len(flight) /\ Download(f))
  /\ \A p \in Proxies : WF_vars(ProxyStep(p))

-----------------------------------------------------------------------------
(* Every variable stays in its type; a reference count is never negative.  *)
TypeOK ==
  /\ proxy \in [Proxies -> {"new", "fetching", "ready", "failed", "closing", "closed"}]
  /\ at \in [Proxies -> Nat \ {0}]
  /\ done \in [Proxies -> BOOLEAN]
  /\ task \in [Tasks -> TaskStates]
  /\ on \in [Tasks -> 0..MaxFlight]
  /\ flight \in Seq(FlightRecs) /\ Len(flight) <= MaxFlight
  /\ sf \in [Layers -> 0..MaxFlight]
  /\ temp \subseteq 1..MaxFlight
  /\ perm \subseteq Layers
  /\ rc \in [Layers -> Nat]
  /\ arena \in {"open", "closed"}

(* forget, fetchOne and Close keep the map and the directory in step: a    *)
(* permanent file exists exactly for the digests that have a reference.    *)
RcFile == \A l \in Layers : rc[l] > 0 <=> l \in perm

(* The arena's records are well formed and agree with its directory.       *)
Consistent == TypeOK /\ RcFile

(* The references a layer should have: one per task that took one and that *)
(* its proxy has not given back.                                           *)
Refs(l) == {t \in Tasks : task[t] = "ok" /\ Layer(t) = l /\ t[2] >= at[t[1]]}

NoFailure == \A t \in Tasks : task[t] # "err"

InUseFile == \A p \in Proxies : proxy[p] = "ready" => \A t \in TasksOf(p) : Layer(t) \in perm

(* As long as no fetch has failed, a layer's file stays in place from the  *)
(* moment Realize returns until the proxy is closed, whoever else fetches, *)
(* shares and forgets that layer.                                          *)
InUse == NoFailure /\ arena = "open" => InUseFile

(* The count is exact as long as no fetch has failed.                      *)
RefsExact ==
  NoFailure /\ arena = "open" => \A l \in Layers : rc[l] = Cardinality(Refs(l))

(* fetcher.go:34, "only removes them once all the users have gone away".   *)
LayerKept == arena = "open" => InUseFile

(* Every Realize returns, through shared flights, failed flights and files *)
(* that are removed between the end of a flight and the mutex.             *)
RealizeReturns ==
  \A p \in Proxies : proxy[p] = "fetching" ~> proxy[p] \in {"ready", "failed"}
=============================================================================
