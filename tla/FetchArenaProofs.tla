-------------------------- MODULE FetchArenaProofs --------------------------
(***************************************************************************)
(* The reference counts of the fetch arena, for any number of proxies,     *)
(* layers and downloads.  RefsExact is the heart: a count is the number of *)
(* references taken and not given back.  Life ties a proxy's phase to its  *)
(* tasks, so that each forget gives back a reference the proxy has.        *)
(***************************************************************************)
EXTENDS FetchArena, FiniteSetTheorems, TLAPS

(* The part of the type invariant the counts need.                         *)
CountType ==
  /\ proxy \in [Proxies -> {"new", "fetching", "ready", "failed", "closing", "closed"}]
  /\ at \in [Proxies -> Nat \ {0}]
  /\ task \in [Tasks -> TaskStates]
  /\ perm \subseteq Layers
  /\ rc \in [Layers -> Nat]
  /\ arena \in {"open", "closed"}

(* A proxy has no references before Realize, gives none back before Close, *)
(* and without failures is closed only after all its tasks succeeded.      *)
Phase(p) ==
  /\ proxy[p] \in {"new", "fetching", "ready", "failed"} => at[p] = 1
  /\ proxy[p] = "new" => \A t \in TasksOf(p) : task[t] = "idle"
  /\ proxy[p] = "ready" => \A t \in TasksOf(p) : task[t] = "ok"
  /\ proxy[p] \in {"failed", "closing"} =>
       (\A t \in TasksOf(p) : task[t] = "ok") \/ ~NoFailure
  /\ proxy[p] = "closed" =>
       (\A t \in TasksOf(p) : task[t] \in {"idle", "ok"}) \/ ~NoFailure

Life == \A p \in Proxies : Phase(p)

Counts == CountType /\ RcFile /\ Life /\ RefsExact

(* The range of a function on a finite set is finite.                      *)
LEMMA FiniteRange ==
  ASSUME NEW S, IsFiniteSet(S), NEW T, NEW f \in [S -> T], \A y \in T : \E x \in S : f[x] = y
  PROVE  IsFiniteSet(T)
<1>1. f \in Surjection(S, T)  BY DEF Surjection
<1> QED  BY <1>1, FS_Surjection

(* There are finitely many tasks.                                          *)
LEMMA TasksFinite == IsFiniteSet(Tasks)
<1> DEFINE R(p) == {<<p, i>> : i \in 1..Len(manifest[p])}
           S == {R(p) : p \in Proxies}
<1>1. IsFiniteSet(S)
  <2> DEFINE g == [p \in Proxies |-> R(p)]
  <2> HIDE DEF R
  <2>1. g \in [Proxies -> S]  OBVIOUS
  <2>2. \A y \in S : \E p \in Proxies : g[p] = y  OBVIOUS
  <2>3. IsFiniteSet(Proxies)  BY FetchArenaAssumption
  <2> HIDE DEF g, S
  <2> QED  BY <2>1, <2>2, <2>3, FiniteRange
<1>2. ASSUME NEW p \in Proxies PROVE IsFiniteSet(R(p))
  <2> DEFINE I == 1..Len(manifest[p])
             g == [i \in I |-> <<p, i>>]
  <2>1. Len(manifest[p]) \in Nat  BY FetchArenaAssumption
  <2>2. IsFiniteSet(I)  BY <2>1, FS_Interval
  <2> HIDE DEF I
  <2>3. R(p) = {<<p, i>> : i \in I}  BY DEF I
  <2>4. g \in [I -> R(p)]  BY Zenon, <2>3
  <2>5. \A y \in R(p) : \E i \in I : g[i] = y  BY <2>3
  <2> HIDE DEF g, R
  <2> QED  BY <2>2, <2>4, <2>5, FiniteRange
<1>3. \A T \in S : IsFiniteSet(T)
  <2> HIDE DEF R
  <2> QED  BY <1>2, Zenon
<1>4. Tasks = UNION S  BY DEF Tasks
<1> HIDE DEF S
<1> QED  BY <1>1, <1>3, <1>4, FS_UNION

(* A task is a proxy and a position of its manifest.                       *)
LEMMA TaskShape ==
  /\ \A t \in Tasks : /\ t[1] \in Proxies /\ t[2] \in 1..Len(manifest[t[1]])
                      /\ t = <<t[1], t[2]>> /\ Layer(t) \in Layers
  /\ \A p \in Proxies : \A i \in 1..Len(manifest[p]) : <<p, i>> \in Tasks
<1>1. ASSUME NEW t \in Tasks
      PROVE  /\ t[1] \in Proxies /\ t[2] \in 1..Len(manifest[t[1]])
             /\ t = <<t[1], t[2]>> /\ Layer(t) \in Layers
  <2>1. PICK p \in Proxies : \E i \in 1..Len(manifest[p]) : t = <<p, i>>
    BY Zenon DEF Tasks
  <2>2. PICK i \in 1..Len(manifest[p]) : t = <<p, i>>  BY <2>1
  <2>3. manifest[p] \in Seq(Layers)  BY FetchArenaAssumption
  <2>4. manifest[p][i] \in Layers  BY <2>3
  <2> QED  BY <2>2, <2>4 DEF Layer
<1>2. ASSUME NEW p \in Proxies, NEW i \in 1..Len(manifest[p]) PROVE <<p, i>> \in Tasks
  <2>1. <<p, i>> \in {<<p, j>> : j \in 1..Len(manifest[p])}  OBVIOUS
  <2> QED  BY <2>1 DEF Tasks
<1> QED  BY <1>1, <1>2

(* Every step keeps the types the counts need.                             *)
LEMMA CountTypeStep ==
  ASSUME CountType, Next PROVE CountType'
<1> USE DEF TaskStates
<1>1. ASSUME NEW t \in Tasks, DoChan(t) PROVE CountType'
  BY <1>1 DEF DoChan, CountType
<1>2. ASSUME NEW t \in Tasks, Result(t) PROVE CountType'
  BY <1>2 DEF Result, CountType, files
<1>3. ASSUME NEW t \in Tasks, Failure(t) PROVE CountType'
  BY <1>3 DEF Failure, CountType, files
<1>4. ASSUME NEW t \in Tasks, Install(t) PROVE CountType'
  BY <1>4, TaskShape DEF Install, CountType
<1>5. ASSUME NEW t \in Tasks, RenameError(t) PROVE CountType'
  BY <1>5 DEF RenameError, CountType, files
<1>6. ASSUME NEW t \in Tasks, Redo(t) PROVE CountType'
  BY <1>6 DEF Redo, CountType, files
<1>7. ASSUME NEW t \in Tasks, Share(t) PROVE CountType'
  BY <1>7, TaskShape DEF Share, CountType
<1>8. ASSUME NEW f \in 1..Len(flight), Download(f) PROVE CountType'
  BY <1>8 DEF Download, RealizeLayer, RealizeLayerError, CountType, files
<1>9. ASSUME NEW p \in Proxies, Realize(p) PROVE CountType'
  BY <1>9 DEF Realize, CountType, files
<1>10. ASSUME NEW p \in Proxies, Close(p) PROVE CountType'
  BY <1>10 DEF Close, CountType, files
<1>11. ASSUME NEW p \in Proxies, Cancel(p) PROVE CountType'
  BY <1>11 DEF Cancel, CountType, files
<1>12. ASSUME NEW p \in Proxies, RealizeReturn(p) PROVE CountType'
  BY <1>12 DEF RealizeReturn, CountType, files
<1>13. ASSUME NEW p \in Proxies, Forget(p) PROVE CountType'
  <2>1. at[p] \in 1..Len(manifest[p])  BY <1>13, FetchArenaAssumption DEF Forget, CountType
  <2>2. PICK l \in Layers : l = manifest[p][at[p]]  BY <2>1, FetchArenaAssumption
  <2>3. DropRef(l)  BY <1>13, <2>2 DEF Forget
  <2>4. rc' \in [Layers -> Nat] /\ perm' \subseteq Layers  BY <2>3 DEF DropRef, CountType
  <2>5. at' \in [Proxies -> Nat \ {0}]  BY <1>13 DEF Forget, CountType
  <2> QED  BY <1>13, <2>4, <2>5 DEF Forget, CountType
<1>14. ASSUME NEW p \in Proxies, CloseReturn(p) PROVE CountType'
  BY <1>14 DEF CloseReturn, CountType, files
<1>15. ASSUME CloseArena PROVE CountType'
  BY <1>15 DEF CloseArena, CountType
<1> QED
  BY <1>1, <1>2, <1>3, <1>4, <1>5, <1>6, <1>7, <1>8, <1>9, <1>10, <1>11, <1>12, <1>13,
     <1>14, <1>15 DEF Next, FetchOne, ProxyStep

(* A permanent file exists exactly while its digest is counted.            *)
LEMMA RcFileStep ==
  ASSUME CountType, RcFile, Next PROVE RcFile'
<1>1. ASSUME NEW t \in Tasks, FetchOne(t) PROVE RcFile'
  <2>1. CASE DoChan(t)  BY <2>1 DEF DoChan, RcFile
  <2>2. CASE Result(t) \/ Failure(t) \/ RenameError(t) \/ Redo(t)
    BY <2>2 DEF Result, Failure, RenameError, Redo, RcFile, files
  <2>3. CASE Install(t)  BY <2>3, TaskShape DEF Install, RcFile, CountType
  <2>4. CASE Share(t)  BY <2>4, TaskShape DEF Share, RcFile, CountType
  <2> QED  BY <1>1, <2>1, <2>2, <2>3, <2>4 DEF FetchOne
<1>2. ASSUME NEW f \in 1..Len(flight), Download(f) PROVE RcFile'
  BY <1>2 DEF Download, RealizeLayer, RealizeLayerError, RcFile, files
<1>3. ASSUME NEW p \in Proxies,
             Realize(p) \/ Close(p) \/ Cancel(p) \/ RealizeReturn(p) \/ CloseReturn(p)
      PROVE  RcFile'
  BY <1>3 DEF Realize, Close, Cancel, RealizeReturn, CloseReturn, RcFile, files
<1>4. ASSUME NEW p \in Proxies, Forget(p) PROVE RcFile'
  <2>1. at[p] \in 1..Len(manifest[p])  BY <1>4, FetchArenaAssumption DEF Forget, CountType
  <2>2. PICK l \in Layers : l = manifest[p][at[p]]  BY <2>1, FetchArenaAssumption
  <2>3. DropRef(l)  BY <1>4, <2>2 DEF Forget
  <2> QED  BY <2>3 DEF DropRef, RcFile, CountType
<1>5. ASSUME CloseArena PROVE RcFile'
  BY <1>5 DEF CloseArena, RcFile, CountType
<1> QED  BY <1>1, <1>2, <1>3, <1>4, <1>5 DEF Next, ProxyStep

(* fetchOne never takes an error back, and Realize starts idle tasks only. *)
LEMMA FailureStays ==
  ASSUME CountType, Life, Next, NoFailure' PROVE NoFailure
<1> SUFFICES ASSUME NEW u \in Tasks, task[u] = "err" PROVE task'[u] = "err"
  BY DEF NoFailure
<1> USE DEF CountType
<1>1. ASSUME NEW t \in Tasks, FetchOne(t) PROVE task'[u] = "err"
  BY <1>1 DEF FetchOne, DoChan, Result, Failure, Install, RenameError, Redo, Share
<1>2. ASSUME NEW p \in Proxies, Realize(p) PROVE task'[u] = "err"
  <2>1. u[1] # p  BY <1>2 DEF Realize, Life, Phase, TasksOf
  <2> QED  BY <1>2, <2>1 DEF Realize
<1>3. ASSUME UNCHANGED task PROVE task'[u] = "err"
  BY <1>3
<1>4. \/ \E t \in Tasks : FetchOne(t)
      \/ \E p \in Proxies : Realize(p)
      \/ UNCHANGED task
  BY DEF Next, Download, RealizeLayer, RealizeLayerError, Close, Cancel, ProxyStep,
         RealizeReturn, Forget, CloseReturn, CloseArena
<1> QED  BY <1>1, <1>2, <1>3, <1>4

(* Every step keeps the ties between a proxy's phase and its tasks.        *)
LEMMA LifeStep ==
  ASSUME CountType, Life, Next PROVE Life'
<1> SUFFICES ASSUME NEW q \in Proxies PROVE Phase(q)'
  BY DEF Life
<1>0. NoFailure' => NoFailure  BY FailureStays
<1> HIDE DEF NoFailure
<1>1. ASSUME NEW t \in Tasks, FetchOne(t),
             UNCHANGED <<proxy, at>>,
             \A u \in Tasks : task[u] \in {"idle", "ok"} => task'[u] = task[u]
      PROVE  Phase(q)'
  BY <1>0, <1>1 DEF Life, Phase, TasksOf
<1>2. ASSUME NEW t \in Tasks, FetchOne(t)
      PROVE  /\ UNCHANGED <<proxy, at>>
             /\ \A u \in Tasks : task[u] \in {"idle", "ok"} => task'[u] = task[u]
  BY <1>2 DEF FetchOne, DoChan, Result, Failure, Install, RenameError, Redo, Share, CountType
<1>3. CASE \E t \in Tasks : FetchOne(t)
  BY <1>1, <1>2, <1>3
<1>4. CASE UNCHANGED <<proxy, at, task>>
  BY <1>0, <1>4 DEF Life, Phase
<1>5. ASSUME NEW p \in Proxies, Realize(p) PROVE Phase(q)'
  BY <1>0, <1>5 DEF Realize, Life, Phase, TasksOf, CountType
<1>6. ASSUME NEW p \in Proxies, Close(p) \/ CloseReturn(p) PROVE Phase(q)'
  BY <1>0, <1>6 DEF Close, CloseReturn, Life, Phase, CountType
<1>7. ASSUME NEW p \in Proxies, RealizeReturn(p) PROVE Phase(q)'
  <2>1. (\E t \in TasksOf(p) : task[t] = "err") => ~NoFailure'
    BY <1>7, <1>0 DEF NoFailure, TasksOf
  <2> QED  BY <1>0, <1>7, <2>1 DEF RealizeReturn, Life, Phase, CountType
<1>8. ASSUME NEW p \in Proxies, Forget(p) PROVE Phase(q)'
  BY <1>0, <1>8 DEF Forget, Life, Phase, CountType
<1>9. \/ \E t \in Tasks : FetchOne(t)
      \/ \E p \in Proxies : Realize(p) \/ (Close(p) \/ CloseReturn(p)) \/ RealizeReturn(p) \/ Forget(p)
      \/ UNCHANGED <<proxy, at, task>>
  BY DEF Next, Download, RealizeLayer, RealizeLayerError, Cancel, ProxyStep, CloseArena
<1> QED  BY <1>3, <1>4, <1>5, <1>6, <1>7, <1>8, <1>9

(* A task that takes a reference joins the references of its layer, and of *)
(* no other layer.                                                         *)
LEMMA TakeRef ==
  ASSUME CountType, Life, NEW t \in Tasks, task[t] = "got", UNCHANGED at,
         task' = [task EXCEPT ![t] = "ok"], NEW l \in Layers, NoFailure
  PROVE  /\ l = Layer(t) => Cardinality(Refs(l)') = Cardinality(Refs(l)) + 1
         /\ l # Layer(t) => Refs(l)' = Refs(l)
<1>1. at[t[1]] = 1 /\ t[2] >= 1
  <2>1. t[1] \in Proxies /\ t[2] \in 1..Len(manifest[t[1]])  BY TaskShape
  <2>2. proxy[t[1]] \notin {"new", "ready", "failed", "closing"}
    BY <2>1 DEF Life, Phase, TasksOf
  <2>3. proxy[t[1]] # "closed"
    BY <2>1 DEF Life, Phase, TasksOf
  <2> QED  BY <2>1, <2>2, <2>3 DEF Life, Phase, CountType
<1>2. IsFiniteSet(Refs(l))  BY TasksFinite, FS_Subset DEF Refs
<1>3. l = Layer(t) => Refs(l)' = Refs(l) \union {t} /\ t \notin Refs(l)
  BY <1>1 DEF Refs, CountType, Layer
<1>4. l # Layer(t) => Refs(l)' = Refs(l)
  BY DEF Refs, CountType, Layer
<1> QED  BY <1>2, <1>3, <1>4, FS_AddElement

(* Forget gives back the reference at its position.                        *)
LEMMA GiveRef ==
  ASSUME CountType, Life, NoFailure, NEW p \in Proxies, Forget(p), NEW l \in Layers
  PROVE  LET k == manifest[p][at[p]]
         IN  /\ l = k => Cardinality(Refs(l)') = Cardinality(Refs(l)) - 1
                         /\ Cardinality(Refs(l)) \in Nat \ {0}
             /\ l # k => Refs(l)' = Refs(l)
<1>1. PICK i \in Nat \ {0} : i = at[p]  BY DEF CountType
<1>2. i \in 1..Len(manifest[p])  BY <1>1, FetchArenaAssumption DEF Forget
<1> DEFINE t == <<p, i>>
<1>3. t \in Tasks /\ t \in TasksOf(p)  BY <1>2, TaskShape DEF TasksOf
<1>4. task[t] = "ok"  BY <1>3 DEF Forget, Life, Phase
<1>5. task' = task /\ at' = [at EXCEPT ![p] = i + 1]  BY <1>1 DEF Forget
<1>6. IsFiniteSet(Refs(l))  BY TasksFinite, FS_Subset DEF Refs
<1>7. Layer(t) = manifest[p][i]  BY DEF Layer
<1>8. ASSUME NEW u \in Tasks, u # t
      PROVE  u[2] >= at'[u[1]] <=> u[2] >= at[u[1]]
  <2>1. u[1] \in Proxies /\ u[2] \in Nat /\ u = <<u[1], u[2]>>  BY TaskShape
  <2>2. u[1] = p => u[2] # i  BY <1>8, <2>1
  <2>3. CASE u[1] = p  BY <2>1, <2>2, <2>3, <1>1, <1>5 DEF CountType
  <2>4. CASE u[1] # p  BY <2>1, <2>4, <1>5 DEF CountType
  <2> QED  BY <2>3, <2>4
<1>9. ~(t[2] >= at'[t[1]]) /\ t[2] >= at[t[1]]  BY <1>1, <1>5 DEF CountType
<1> HIDE DEF t
<1>10. Refs(l)' = Refs(l) \ {t}
  <2>1. \A u \in Tasks : u # t => (u \in Refs(l)' <=> u \in Refs(l))
    BY <1>5, <1>8 DEF Refs, Layer
  <2>2. t \notin Refs(l)'  BY <1>9 DEF Refs
  <2>3. Refs(l)' \subseteq Tasks /\ Refs(l) \subseteq Tasks  BY DEF Refs
  <2> QED  BY <2>1, <2>2, <2>3
<1>11. l = Layer(t) => t \in Refs(l)  BY <1>3, <1>4, <1>9 DEF Refs
<1>12. l # Layer(t) => t \notin Refs(l)  BY DEF Refs
<1>13. l = Layer(t) => Cardinality(Refs(l)) # 0  BY <1>6, <1>11, FS_EmptySet
<1>14. Cardinality(Refs(l)) \in Nat  BY <1>6, FS_CardinalityType
<1>15. l = Layer(t) => Cardinality(Refs(l)') = Cardinality(Refs(l)) - 1
  <2>1. l = Layer(t) => Cardinality(Refs(l) \ {t}) = Cardinality(Refs(l)) - 1
    BY Zenon, <1>6, <1>11, FS_RemoveElement
  <2> QED  BY <1>10, <2>1
<1> QED  BY <1>1, <1>7, <1>10, <1>12, <1>13, <1>14, <1>15

(* As long as no fetch fails, every step keeps the counts exact.           *)
LEMMA RefsExactStep ==
  ASSUME CountType, Life, RefsExact, Next PROVE RefsExact'
<1> SUFFICES ASSUME NoFailure', arena' = "open", NEW l \in Layers
             PROVE  rc'[l] = Cardinality(Refs(l)')
  BY DEF RefsExact
<1>1. NoFailure  BY FailureStays
<1>2. arena = "open"
  BY ZenonT(60) DEF Next, FetchOne, DoChan, Result, Failure, Install, RenameError, Redo, Share,
         Download, RealizeLayer, RealizeLayerError, Realize, Close, Cancel, ProxyStep,
         RealizeReturn, Forget, CloseReturn, CloseArena, files
<1>3. rc[l] = Cardinality(Refs(l))  BY <1>1, <1>2 DEF RefsExact
<1>4. ASSUME NEW t \in Tasks, Install(t) \/ Share(t) PROVE rc'[l] = Cardinality(Refs(l)')
  <2>1. Layer(t) \in Layers  BY TaskShape
  <2>2. rc' = [rc EXCEPT ![Layer(t)] = @ + 1]
    BY <1>4, <2>1 DEF Install, Share, CountType
  <2>3. /\ l = Layer(t) => Cardinality(Refs(l)') = Cardinality(Refs(l)) + 1
        /\ l # Layer(t) => Refs(l)' = Refs(l)
    BY <1>1, <1>4, TakeRef DEF Install, Share
  <2> QED  BY <1>3, <2>1, <2>2, <2>3 DEF CountType
<1>5. ASSUME NEW p \in Proxies, Forget(p) PROVE rc'[l] = Cardinality(Refs(l)')
  <2>1. PICK k : k = manifest[p][at[p]]  OBVIOUS
  <2>2. DropRef(k)  BY <1>5, <2>1 DEF Forget
  <2>3. /\ l = k => Cardinality(Refs(l)') = Cardinality(Refs(l)) - 1
                    /\ Cardinality(Refs(l)) \in Nat \ {0}
        /\ l # k => Refs(l)' = Refs(l)
    BY <1>1, <1>5, <2>1, GiveRef
  <2>4. l = k => rc'[l] = rc[l] - 1  BY <1>3, <2>2, <2>3 DEF DropRef, CountType
  <2>5. l # k => rc'[l] = rc[l]  BY <2>2 DEF DropRef, CountType
  <2> QED  BY <1>3, <2>3, <2>4, <2>5
<1>6. ASSUME UNCHANGED <<rc, at>>, \A u \in Tasks : task'[u] = "ok" <=> task[u] = "ok"
      PROVE  rc'[l] = Cardinality(Refs(l)')
  <2>1. Refs(l)' = Refs(l)  BY SMTT(90), <1>6 DEF Refs, Layer
  <2> QED  BY <1>3, <1>6, <2>1
<1>7. ASSUME NEW t \in Tasks, DoChan(t) \/ Result(t) \/ Failure(t) \/ RenameError(t) \/ Redo(t)
      PROVE  UNCHANGED <<rc, at>> /\ \A u \in Tasks : task'[u] = "ok" <=> task[u] = "ok"
  BY SMTT(90), <1>7 DEF DoChan, Result, Failure, RenameError, Redo, files, CountType
<1>8. ASSUME NEW p \in Proxies, Realize(p)
      PROVE  UNCHANGED <<rc, at>> /\ \A u \in Tasks : task'[u] = "ok" <=> task[u] = "ok"
  BY <1>8 DEF Realize, files, Life, Phase, TasksOf
<1>9. ASSUME UNCHANGED <<rc, at, task>>
      PROVE  UNCHANGED <<rc, at>> /\ \A u \in Tasks : task'[u] = "ok" <=> task[u] = "ok"
  BY <1>9
<1>10. \/ \E t \in Tasks : Install(t) \/ Share(t)
       \/ \E t \in Tasks : DoChan(t) \/ Result(t) \/ Failure(t) \/ RenameError(t) \/ Redo(t)
       \/ \E p \in Proxies : Forget(p)
       \/ \E p \in Proxies : Realize(p)
       \/ UNCHANGED <<rc, at, task>>
  BY <1>2 DEF Next, FetchOne, Download, RealizeLayer, RealizeLayerError, Close, Cancel,
              ProxyStep, RealizeReturn, CloseReturn, CloseArena, files
<1> QED  BY <1>4, <1>5, <1>6, <1>7, <1>8, <1>9, <1>10

(* Initially nothing is counted.                                           *)
LEMMA InitCounts ==
  ASSUME Init PROVE Counts
<1>1. CountType /\ RcFile /\ Life
  BY DEF Init, CountType, RcFile, Life, Phase, TaskStates, TasksOf
<1>2. ASSUME NEW l \in Layers PROVE rc[l] = Cardinality(Refs(l))
  <2>1. Refs(l) = {}  BY DEF Refs, Init
  <2> QED  BY <2>1, FS_EmptySet DEF Init
<1> QED  BY <1>1, <1>2 DEF Counts, RefsExact

(* Types, files, phases and exact counts are an invariant of the arena.    *)
THEOREM CountsInvariant == Spec => []Counts
<1>1. Init => Counts  BY InitCounts
<1>2. Counts /\ [Next]_vars => Counts'
  <2>1. ASSUME Counts, Next PROVE Counts'
    BY <2>1, CountTypeStep, RcFileStep, LifeStep, RefsExactStep DEF Counts
  <2>2. ASSUME Counts, UNCHANGED vars PROVE Counts'
    BY <2>2 DEF Counts, CountType, RcFile, Life, Phase, NoFailure, RefsExact, Refs, vars
  <2> QED  BY <2>1, <2>2
<1> QED  BY <1>1, <1>2, PTL DEF Spec

(* The types of downloads: a task's flight and a digest's flight have      *)
(* numbers a download has had, or 0.                                       *)
FlightType ==
  /\ done \in [Proxies -> BOOLEAN]
  /\ on \in [Tasks -> 0..MaxFlight]
  /\ flight \in Seq(FlightRecs) /\ Len(flight) <= MaxFlight
  /\ sf \in [Layers -> 0..MaxFlight]
  /\ temp \subseteq 1..MaxFlight

(* Every step keeps the types of downloads.                                *)
LEMMA FlightTypeStep ==
  ASSUME CountType, FlightType, Next PROVE FlightType'
<1>0. MaxFlight \in Nat  BY FetchArenaAssumption
<1>1. ASSUME NEW t \in Tasks, DoChan(t) PROVE FlightType'
  <2>1. Layer(t) \in Layers /\ t[1] \in Proxies  BY TaskShape
  <2>2. CASE sf[Layer(t)] # 0
    <3>1. UNCHANGED <<done, flight, sf, temp>> /\ on' = [on EXCEPT ![t] = sf[Layer(t)]]
      BY <1>1, <2>2 DEF DoChan
    <3> QED  BY <2>1, <3>1 DEF FlightType
  <2>3. CASE sf[Layer(t)] = 0
    <3> DEFINE rec == [st |-> "running", layer |-> Layer(t), owner |-> t[1]]
               n == Len(flight) + 1
    <3>1. /\ done' = done /\ Len(flight) < MaxFlight /\ flight' = Append(flight, rec)
          /\ on' = [on EXCEPT ![t] = n] /\ sf' = [sf EXCEPT ![Layer(t)] = n]
          /\ temp' = temp \union {n}
      BY <1>1, <2>3 DEF DoChan
    <3>2. rec \in FlightRecs  BY <2>1 DEF FlightRecs
    <3>3. n \in 1..MaxFlight  BY <1>0, <3>1 DEF FlightType
    <3> HIDE DEF rec
    <3>4. flight' \in Seq(FlightRecs) /\ Len(flight') = n  BY <3>1, <3>2 DEF FlightType
    <3> HIDE DEF n
    <3> QED  BY <1>0, <2>1, <3>1, <3>3, <3>4 DEF FlightType
  <2> QED  BY <2>2, <2>3
<1>2. ASSUME NEW t \in Tasks, Install(t) PROVE FlightType'
  BY <1>2, Zenon DEF Install, FlightType
<1>3. ASSUME NEW t \in Tasks, Failure(t) \/ RenameError(t) PROVE FlightType'
  <2>1. t[1] \in Proxies  BY TaskShape
  <2> QED  BY <1>3, <2>1, Zenon DEF Failure, RenameError, FlightType, files
<1>4. ASSUME NEW t \in Tasks, Result(t) \/ Redo(t) \/ Share(t) PROVE FlightType'
  BY <1>4, Zenon DEF Result, Redo, Share, FlightType, files
<1>5. ASSUME NEW f \in 1..Len(flight), NEW st \in {"done", "failed"}, Land(f, st)
      PROVE  /\ flight' \in Seq(FlightRecs) /\ Len(flight') = Len(flight)
             /\ sf' \in [Layers -> 0..MaxFlight]
  <2>1. flight[f] \in FlightRecs  BY DEF FlightType
  <2>2. flight' = [flight EXCEPT ![f] = [flight[f] EXCEPT !.st = st]]  BY <1>5 DEF Land
  <2>3. [flight[f] EXCEPT !.st = st] \in FlightRecs  BY <2>1 DEF FlightRecs
  <2>4. flight' \in Seq(FlightRecs) /\ Len(flight') = Len(flight)
    BY <2>2, <2>3 DEF FlightType
  <2> QED  BY <1>0, <1>5, <2>1, <2>4 DEF Land, FlightType, FlightRecs
<1>6. ASSUME NEW f \in 1..Len(flight), Download(f) PROVE FlightType'
  <2>1. CASE RealizeLayer(f)  BY <1>5, <2>1 DEF RealizeLayer, FlightType, files
  <2>2. CASE RealizeLayerError(f)  BY <1>5, <2>2 DEF RealizeLayerError, FlightType
  <2> QED  BY <1>6, <2>1, <2>2 DEF Download
<1>7. ASSUME NEW p \in Proxies, Realize(p) \/ Close(p) \/ Cancel(p) \/ RealizeReturn(p) \/ CloseReturn(p)
      PROVE  FlightType'
  BY <1>7, Zenon DEF Realize, Close, Cancel, RealizeReturn, CloseReturn, FlightType, files
<1>8. ASSUME NEW p \in Proxies, Forget(p) PROVE FlightType'
  <2>1. PICK l : DropRef(l)  BY <1>8 DEF Forget
  <2>2. sf \in [Layers -> 0..MaxFlight] /\ 0 \in 0..MaxFlight  BY <1>0 DEF FlightType
  <2>3. PICK k \in {0, sf[l]} : sf' = [sf EXCEPT ![l] = k]  BY <2>1, Zenon DEF DropRef
  <2>4. sf' \in [Layers -> 0..MaxFlight]  BY <2>2, <2>3, Zenon
  <2> QED  BY <1>8, <2>4, Zenon DEF Forget, FlightType
<1>9. ASSUME CloseArena PROVE FlightType'
  BY <1>0, <1>9 DEF CloseArena, FlightType
<1> QED
  BY <1>1, <1>2, <1>3, <1>4, <1>6, <1>7, <1>8, <1>9 DEF Next, FetchOne, ProxyStep

(* The arena's records stay well formed, and its directory holds exactly   *)
(* the files rc counts, through shared, failed and repeated downloads.     *)
THEOREM ArenaConsistent == Spec => []Consistent
<1>1. Init => FlightType /\ CountType
  BY FetchArenaAssumption, InitCounts DEF Init, FlightType, Counts
<1>2. FlightType /\ CountType /\ [Next]_vars => (FlightType /\ CountType)'
  <2>1. ASSUME FlightType, CountType, Next PROVE FlightType' /\ CountType'
    BY <2>1, FlightTypeStep, CountTypeStep
  <2>2. ASSUME FlightType, CountType, UNCHANGED vars PROVE FlightType' /\ CountType'
    BY <2>2 DEF FlightType, CountType, vars
  <2> QED  BY <2>1, <2>2
<1>3. FlightType /\ Counts => Consistent
  BY DEF FlightType, Counts, CountType, Consistent, TypeOK
<1>4. Counts => CountType  BY DEF Counts
<1> QED  BY <1>1, <1>2, <1>3, <1>4, CountsInvariant, PTL DEF Spec

(* Without failed fetches, rc counts the references taken by fetchOne and  *)
(* not yet given back by Close.                                            *)
THEOREM CountsExact == Spec => []RefsExact
<1>1. Counts => RefsExact  BY DEF Counts
<1> QED  BY <1>1, CountsInvariant, PTL

(* Without failed fetches, the file of a layer stays for as long as some   *)
(* proxy that realized it is not closed.                                   *)
THEOREM FileInUse == Spec => []InUse
<1>1. Counts => InUse
  <2> SUFFICES ASSUME Counts, NoFailure, arena = "open", NEW p \in Proxies,
                      proxy[p] = "ready", NEW t \in TasksOf(p)
               PROVE  Layer(t) \in perm
    BY DEF InUse, InUseFile
  <2>1. t \in Tasks /\ t[1] = p /\ task[t] = "ok" /\ at[p] = 1
    BY DEF Counts, Life, Phase, TasksOf
  <2>2. t[2] \in Nat /\ t[2] >= 1 /\ Layer(t) \in Layers  BY <2>1, TaskShape
  <2>3. t \in Refs(Layer(t))  BY <2>1, <2>2 DEF Refs
  <2>4. IsFiniteSet(Refs(Layer(t)))  BY TasksFinite, FS_Subset DEF Refs
  <2>5. Cardinality(Refs(Layer(t))) \in Nat \ {0}
    BY <2>3, <2>4, FS_EmptySet, FS_CardinalityType
  <2>6. rc[Layer(t)] > 0  BY <2>2, <2>5 DEF Counts, RefsExact
  <2> QED  BY <2>2, <2>6 DEF Counts, RcFile
<1> QED  BY <1>1, CountsInvariant, PTL
=============================================================================
