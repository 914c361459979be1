---------------------------- MODULE MatchProofs -----------------------------
(***************************************************************************)
(* The reports of libvuln's Scan, for any matchers, enrichers, workers and *)
(* inputs and any number of failed calls.                                  *)
(***************************************************************************)
EXTENDS Match, TLAPS

USE MatchAssumption

PCs == {"idle", "run", "send", "done", "failed"}

(* All that some matcher may find, and what a report may say.              *)
Finds == UNION {Results(m) : m \in Range(MatcherSeq)}
Sayable == UNION {Pairs(res) : res \in Finds}

(* The goroutines: a pool, or one per matcher.                             *)
Goroutines == IF enriched THEN Workers ELSE 1..Len(MatcherSeq)
Channel == IF phase = "match" THEN Finds ELSE Range(Enrichers)

Types ==
  /\ phase \in {"match", "enrich", "returned"} /\ enriched \in BOOLEAN /\ open \in BOOLEAN
  /\ failed \in BOOLEAN /\ ended \in BOOLEAN /\ faults \in 0..MaxFault
  /\ next \in 0..Len(Pool)
  /\ worker \in [Goroutines -> [pc : PCs, job : Nat, res : Finds \union {<<>>}]]
  /\ vr \in [pv : SUBSET Sayable, enrichments : SUBSET Range(Enrichers)]
  /\ ch \in Seq(Channel) /\ (enriched => Len(ch) <= lim)
  /\ ~enriched => next = 0 /\ open /\ phase # "enrich"

Busy(w) == worker[w].pc \in {"run", "send"}

(* A worker at work has a job of its pool, and has what it sends from it.  *)
JobInv ==
  /\ phase # "returned" => \A w \in Goroutines : Busy(w) => worker[w].job \in 1..Len(Pool)
  /\ phase = "match" => \A w \in Goroutines :
       worker[w].pc = "send" => worker[w].res \in Results(MatcherSeq[worker[w].job])

(* Where the result of a matcher that was handed over is: still with its   *)
(* worker, on the channel, or in the report; or there was an error.        *)
Under(i) == \E w \in Goroutines : worker[w].job = i /\ Busy(w)
Sent(i) == \E k \in 1..Len(ch) : ch[k] \in Results(MatcherSeq[i])
Told(i) == \E res \in Results(MatcherSeq[i]) : Pairs(res) \subseteq vr.pv
Given == IF enriched THEN next ELSE Len(MatcherSeq)
MatchHeld(i) == failed \/ Under(i) \/ Sent(i) \/ Told(i)
MatchInv == phase = "match" => \A i \in 1..Given : MatchHeld(i)

(* The same of an enricher; one that fails is passed over.                 *)
Enriching(i) == \E k \in 1..Len(ch) : ch[k] = Enrichers[i]
EnrichHeld(i) ==
  failed \/ ended \/ faults > 0 \/ Under(i) \/ Enriching(i) \/ Enrichers[i] \in vr.enrichments
EnrichInv == phase = "enrich" => \A i \in 1..next : EnrichHeld(i)

(* The sender stops before its end only when the context has ended.        *)
ClosedInv == (phase # "returned" /\ ~open) => next = Len(Pool) \/ ended \/ failed

(* What the two pools have achieved.                                       *)
ToldInv == (phase # "match" /\ ~failed /\ ~ended) => \A i \in 1..Len(MatcherSeq) : Told(i)
EnrichedInv ==
  (phase = "returned" /\ enriched /\ ~failed /\ ~ended /\ faults = 0) =>
    \A i \in 1..Len(Enrichers) : Enrichers[i] \in vr.enrichments

IInv == Types /\ JobInv /\ MatchInv /\ EnrichInv /\ ClosedInv /\ ToldInv /\ EnrichedInv

-----------------------------------------------------------------------------
(* What matchers find depends on the input alone, which does not change.   *)
LEMMA SameFinds ==
  ASSUME UNCHANGED input
  PROVE  /\ \A m : Results(m)' = Results(m)
         /\ Finds' = Finds /\ Sayable' = Sayable
<1>1. \A m : Results(m)' = Results(m)  BY Zenon DEF Results, records
<1>2. Finds' = Finds  BY Zenon, <1>1 DEF Finds
<1> QED  BY Zenon, <1>1, <1>2 DEF Sayable

(* What a matcher finds is among all that may be found and said.           *)
LEMMA FindsOf ==
  ASSUME NEW i \in 1..Len(MatcherSeq)
  PROVE  Results(MatcherSeq[i]) \subseteq Finds /\ \A res \in Results(MatcherSeq[i]) : Pairs(res) \subseteq Sayable
<1>1. MatcherSeq[i] \in Range(MatcherSeq)  BY DEF Range
<1>2. Results(MatcherSeq[i]) \subseteq Finds  BY Zenon, <1>1 DEF Finds
<1> QED  BY Zenon, <1>2 DEF Sayable

(* The invariant holds when Scan is called.                                *)
LEMMA InitInv == Init => IInv
<1> SUFFICES ASSUME Init PROVE IInv  BY Zenon
<1> USE DEF Init
<1>1. worker \in [Goroutines -> [pc : PCs, job : Nat, res : Finds \union {<<>>}]]
  BY DEF Goroutines, PCs, Idle
<1>2. ch \in Seq(Channel) /\ Len(ch) = 0  OBVIOUS
<1>3. Len(MatcherSeq) \in Nat /\ lim \in Nat  BY DEF lim
<1>4. Types
  <2>1. vr \in [pv : SUBSET Sayable, enrichments : SUBSET Range(Enrichers)]  BY Zenon
  <2>2. next \in 0..Len(Pool) /\ faults \in 0..MaxFault /\ Len(ch) <= lim  BY <1>2, <1>3 DEF Pool
  <2>3. /\ phase \in {"match", "enrich", "returned"} /\ enriched \in BOOLEAN /\ open \in BOOLEAN
        /\ failed \in BOOLEAN /\ ended \in BOOLEAN /\ next = 0 /\ open /\ phase # "enrich"
    BY Zenon
  <2> HIDE DEF Init
  <2> QED  BY Zenon, <1>1, <1>2, <2>1, <2>2, <2>3 DEF Types
<1>5. JobInv  BY Zenon DEF JobInv, Goroutines, Busy, Pool, Idle
<1>6. MatchInv
  <2>1. CASE enriched  BY <2>1 DEF MatchInv, Given
  <2>2. CASE ~enriched
    <3> SUFFICES ASSUME NEW i \in 1..Len(MatcherSeq) PROVE Under(i)  BY Zenon, <2>2 DEF MatchInv, MatchHeld, Given
    <3> QED  BY Zenon, <2>2 DEF Under, Goroutines, Busy
  <2> QED  BY Zenon, <2>1, <2>2
<1> QED  BY Zenon, <1>4, <1>5, <1>6 DEF IInv, EnrichInv, ClosedInv, ToldInv, EnrichedInv

(* What a step of a call leaves as it is.                                  *)
LEMMA SameCall ==
  ASSUME Call
  PROVE  /\ Goroutines' = Goroutines /\ Pool' = Pool /\ Channel' = Channel
         /\ Finds' = Finds /\ Sayable' = Sayable /\ \A m : Results(m)' = Results(m)
  BY Zenon, SameFinds DEF Call, Goroutines, Pool, Channel

WorkerRec == [pc : PCs, job : Nat, res : Finds \union {<<>>}]
Changed(w, rec) == worker' = [worker EXCEPT ![w] = rec]

(* One goroutine's record changes, and nothing else of the goroutines.     *)
LEMMA WorkerType ==
  ASSUME Types, Call, NEW w \in Goroutines, NEW rec \in WorkerRec, Changed(w, rec)
  PROVE  /\ worker' \in [Goroutines -> WorkerRec]
         /\ worker'[w] = rec /\ \A x \in Goroutines : x # w => worker'[x] = worker[x]
  BY Zenon DEF Types, Changed, WorkerRec

(* A worker without a result of matcher i is not the one that i is with.   *)
LEMMA StillUnder ==
  ASSUME Call, NEW w \in Goroutines, \A x \in Goroutines : x # w => worker'[x] = worker[x],
         NEW i, Under(i),
         (Busy(w) /\ worker[w].job = i) => (Busy(w)' /\ worker'[w].job = i)
  PROVE  Under(i)'
<1>1. Goroutines' = Goroutines  BY Zenon, SameCall
<1>2. PICK x \in Goroutines : worker[x].job = i /\ Busy(x)  BY Zenon DEF Under
<1>3. CASE x = w  BY Zenon, <1>1, <1>2, <1>3 DEF Under
<1>4. CASE x # w
  <2>1. worker'[x] = worker[x]  BY Zenon, <1>2, <1>4
  <2>2. worker'[x].job = i /\ Busy(x)'  BY Zenon, <1>2, <2>1 DEF Busy
  <2> QED  BY Zenon, <1>1, <1>2, <2>2 DEF Under
<1> QED  BY Zenon, <1>3, <1>4

(* A step within a pool: what was reported stays, and a result that is     *)
(* held somewhere is so after it.                                          *)
Onward ==
  /\ Call /\ vr.pv \subseteq vr'.pv /\ vr.enrichments \subseteq vr'.enrichments
  /\ (failed => failed') /\ (ended => ended') /\ faults' >= faults

(* A step within one phase: the five parts make the invariant.             *)
LEMMA CallStep ==
  ASSUME IInv, Onward, Types', JobInv', ClosedInv', MatchInv', EnrichInv'
  PROVE  IInv'
<1>1. \A i : Told(i) => Told(i)'  BY Zenon, SameCall DEF Onward, Told
<1>2. ToldInv'  BY Zenon, <1>1 DEF IInv, Onward, Call, ToldInv
<1>3. faults \in Nat /\ faults' \in Nat  BY DEF IInv, Types
<1>4. EnrichedInv'  BY <1>3 DEF IInv, Onward, Call, EnrichedInv
<1> QED  BY Zenon, <1>2, <1>4 DEF IInv

(* The sender hands the next matcher or enricher to an idle worker.        *)
LEMMA SendStep ==
  ASSUME IInv, NEW w \in DOMAIN worker, Send(w)
  PROVE  IInv'
<1>0. /\ Types /\ JobInv /\ MatchInv /\ EnrichInv
      /\ Call /\ w \in Goroutines /\ worker \in [Goroutines -> WorkerRec]
  BY Zenon DEF IInv, Types, Send, WorkerRec
<1>1. PICK n : n = next  BY Zenon
<1> DEFINE rec == [pc |-> "run", job |-> n + 1, res |-> <<>>]
<1>2. /\ enriched /\ open /\ phase # "returned" /\ n < Len(Pool) /\ worker[w].pc = "idle"
      /\ next' = n + 1 /\ Changed(w, rec) /\ UNCHANGED <<input, enriched, phase, open, ch, vr, failed, ended, faults>>
  BY Zenon, <1>1 DEF Send, Call, Changed
<1>3. n \in Nat /\ Len(Pool) \in Nat /\ faults \in Nat  BY <1>0, <1>1 DEF Types, Pool
<1>4. rec \in WorkerRec  BY <1>3 DEF WorkerRec, PCs
<1>5. /\ worker' \in [Goroutines -> WorkerRec]
      /\ worker'[w] = rec /\ \A x \in Goroutines : x # w => worker'[x] = worker[x]
  BY Zenon, <1>0, <1>2, <1>4, WorkerType
<1>6. next' \in 0..Len(Pool) /\ 1..next' = 1..n \union {n + 1} /\ n + 1 \in 1..Len(Pool)
  BY <1>2, <1>3
<1>7. ~Busy(w) /\ Busy(w)'  BY <1>2, <1>5 DEF Busy
<1>8. Types'  BY Zenon, <1>0, <1>2, <1>5, <1>6, SameCall DEF Types, WorkerRec
<1>9. JobInv'  BY <1>0, <1>2, <1>5, <1>6, <1>7, SameCall DEF JobInv, Busy
<1>10. \A i \in 1..n : Under(i) => Under(i)'  BY Zenon, <1>0, <1>5, <1>7, StillUnder
<1>11. Under(n + 1)'
  <2>1. worker'[w].job = n + 1 /\ w \in Goroutines'  BY <1>0, <1>5, SameCall
  <2> QED  BY Zenon, <1>7, <2>1 DEF Under
<1>12. \A i : (Sent(i) => Sent(i)') /\ (Told(i) => Told(i)') /\ (Enriching(i) => Enriching(i)')
  BY Zenon, <1>0, <1>2, SameCall DEF Sent, Told, Enriching
<1>13. MatchInv'
  <2>1. phase = "match" => \A i \in 1..n : MatchHeld(i)  BY Zenon, <1>0, <1>1, <1>2 DEF MatchInv, Given
  <2>2. phase = "match" => \A i \in 1..n : MatchHeld(i)'  BY Zenon, <1>2, <1>10, <1>12, <2>1 DEF MatchHeld
  <2>3. Given' = next'  BY Zenon, <1>2 DEF Given
  <2> QED  BY Zenon, <1>2, <1>6, <1>11, <2>2, <2>3 DEF MatchInv, MatchHeld
<1>14. EnrichInv'
  <2>1. phase = "enrich" => \A i \in 1..n : EnrichHeld(i)'
    BY Zenon, <1>0, <1>1, <1>2, <1>10, <1>12 DEF EnrichInv, EnrichHeld
  <2> QED  BY Zenon, <1>2, <1>6, <1>11, <2>1 DEF EnrichInv, EnrichHeld
<1>15. ClosedInv'  BY Zenon, <1>2 DEF ClosedInv
<1>16. Onward  BY <1>0, <1>2, <1>3 DEF Onward
<1> QED  BY Zenon, <1>2, <1>8, <1>9, <1>13, <1>14, <1>15, <1>16, CallStep

(* The sender stops, or the caller's context ends.                         *)
LEMMA StopStep ==
  ASSUME IInv, CloseSend \/ ContextEnds
  PROVE  IInv'
<1>0. Types /\ JobInv /\ MatchInv /\ EnrichInv /\ ClosedInv  BY Zenon DEF IInv
<1>1. /\ UNCHANGED <<input, enriched, phase, next, worker, ch, vr, failed>> /\ phase # "returned"
      /\ (ended => ended') /\ faults' \in 0..MaxFault /\ faults' >= faults /\ ended' \in BOOLEAN /\ open' \in BOOLEAN
      /\ ~enriched => open'
  <2>0. faults \in 0..MaxFault /\ ended \in BOOLEAN /\ open \in BOOLEAN /\ (~enriched => open)
        /\ faults >= faults
    BY <1>0 DEF Types
  <2>1. CASE CloseSend  BY Zenon, <2>0, <2>1 DEF CloseSend, Call
  <2>2. CASE ContextEnds  BY <2>0, <2>2 DEF ContextEnds, CanFail
  <2> QED  BY Zenon, <2>1, <2>2
<1>2. Onward  BY Zenon, <1>1 DEF Onward, Call
<1>3. Types'  BY Zenon, <1>0, <1>1, <1>2, SameCall DEF Types, Onward
<1>4. JobInv'  BY Zenon, <1>0, <1>1, <1>2, SameCall DEF JobInv, Busy, Onward
<1>5. \A i : (Under(i) => Under(i)') /\ (Sent(i) => Sent(i)') /\ (Told(i) => Told(i)') /\ (Enriching(i) => Enriching(i)')
  BY Zenon, <1>1, <1>2, SameCall DEF Under, Busy, Sent, Told, Enriching, Onward
<1>6. MatchInv'  BY Zenon, <1>0, <1>1, <1>5 DEF MatchInv, MatchHeld, Given
<1>7. EnrichInv'  BY <1>0, <1>1, <1>5 DEF EnrichInv, EnrichHeld, Types
<1>8. ClosedInv'
  <2>1. CASE CloseSend  BY Zenon, <1>0, <1>1, <1>2, <2>1, SameCall DEF CloseSend, ClosedInv, Done, Onward
  <2>2. CASE ContextEnds  BY Zenon, <1>0, <1>1, <1>2, <2>2, SameCall DEF ContextEnds, ClosedInv, Onward
  <2> QED  BY Zenon, <2>1, <2>2
<1> QED  BY Zenon, <1>1, <1>2, <1>3, <1>4, <1>6, <1>7, <1>8, CallStep

(* A goroutine returns an error.                                           *)
LEMMA FailStep ==
  ASSUME IInv, NEW w \in DOMAIN worker, Changed(w, [worker[w] EXCEPT !.pc = "failed"]), failed' = TRUE,
         Call, UNCHANGED <<next, open, ch, vr, ended>>, faults' \in 0..MaxFault, faults' >= faults
  PROVE  IInv'
<1> DEFINE rec == [worker[w] EXCEPT !.pc = "failed"]
<1>0. Types /\ JobInv /\ w \in Goroutines /\ worker \in [Goroutines -> WorkerRec]
  BY Zenon DEF IInv, Types, WorkerRec
<1>1. rec \in WorkerRec /\ rec.pc = "failed"  BY Zenon, <1>0 DEF WorkerRec, PCs
<1>2. /\ worker' \in [Goroutines -> WorkerRec]
      /\ worker'[w] = rec /\ \A x \in Goroutines : x # w => worker'[x] = worker[x]
  BY Zenon, <1>0, <1>1, WorkerType
<1> HIDE DEF rec
<1>3. Types'  BY Zenon, <1>0, <1>2, SameCall DEF Types, WorkerRec, Call
<1>4. JobInv'  BY Zenon, <1>0, <1>1, <1>2, SameCall DEF JobInv, Busy, Call
<1>5. MatchInv' /\ EnrichInv' /\ ClosedInv'
  BY Zenon DEF MatchInv, MatchHeld, EnrichInv, EnrichHeld, ClosedInv
<1>6. Onward  BY Zenon DEF Onward
<1> QED  BY Zenon, <1>3, <1>4, <1>5, <1>6, CallStep

(* A worker returns with an error or with its context.                     *)
LEMMA AbortStep ==
  ASSUME IInv, NEW w \in DOMAIN worker, Aborts(w) \/ MatchFails(w)
  PROVE  IInv'
<1>1. faults \in 0..MaxFault  BY Zenon DEF IInv, Types
<1>2. faults' \in 0..MaxFault /\ faults' >= faults  BY <1>1 DEF Aborts, MatchFails, CanFail
<1>3. /\ Changed(w, [worker[w] EXCEPT !.pc = "failed"]) /\ failed' = TRUE
      /\ Call /\ UNCHANGED <<next, open, ch, vr, ended>>
  BY Zenon DEF Aborts, MatchFails, Changed
<1> QED  BY Zenon, <1>2, <1>3, FailStep

(* A goroutine moves on, with its job or without one: a step that delivers *)
(* nothing and that loses no result.                                       *)
LEMMA MoveStep ==
  ASSUME IInv, NEW w \in DOMAIN worker, NEW rec \in WorkerRec, Changed(w, rec),
         Call, UNCHANGED <<next, open, ch, vr, failed, ended>>, faults' \in 0..MaxFault, faults' >= faults,
         rec.pc \in {"run", "send"} => Busy(w) /\ rec.job = worker[w].job,
         phase = "match" /\ rec.pc = "send" => rec.res \in Results(MatcherSeq[rec.job]),
         Busy(w) => \/ rec.pc \in {"run", "send"}
                    \/ phase = "enrich" /\ (ended \/ failed \/ faults' > 0)
  PROVE  IInv'
<1>0. /\ Types /\ JobInv /\ MatchInv /\ EnrichInv /\ ClosedInv
      /\ w \in Goroutines /\ worker \in [Goroutines -> WorkerRec] /\ faults \in Nat
  BY DEF IInv, Types, WorkerRec
<1>1. /\ worker' \in [Goroutines -> WorkerRec]
      /\ worker'[w] = rec /\ \A x \in Goroutines : x # w => worker'[x] = worker[x]
  BY Zenon, <1>0, WorkerType
<1>2. Types'  BY Zenon, <1>0, <1>1, SameCall DEF Types, WorkerRec, Call
<1>3. JobInv'  BY Zenon, <1>0, <1>1, SameCall DEF JobInv, Busy, Call
<1>4. \A i : (Sent(i) => Sent(i)') /\ (Told(i) => Told(i)') /\ (Enriching(i) => Enriching(i)')
  BY Zenon, SameCall DEF Sent, Told, Enriching
<1>5. ASSUME NEW i, Under(i), ~(phase = "enrich" /\ (ended \/ failed \/ faults' > 0)) PROVE Under(i)'
  <2>1. Busy(w) => Busy(w)' /\ worker'[w].job = worker[w].job  BY Zenon, <1>1, <1>5 DEF Busy
  <2> QED  BY Zenon, <1>0, <1>1, <1>5, <2>1, StillUnder
<1>6. MatchInv'  BY Zenon, <1>0, <1>4, <1>5 DEF MatchInv, MatchHeld, Given, Call
<1>7. EnrichInv'  BY <1>0, <1>4, <1>5 DEF EnrichInv, EnrichHeld, Call
<1>8. ClosedInv'  BY Zenon, <1>0, SameCall DEF ClosedInv, Call
<1>9. Onward  BY Zenon DEF Onward
<1> QED  BY Zenon, <1>2, <1>3, <1>6, <1>7, <1>8, <1>9, CallStep

(* A worker's matcher or enricher returns.                                 *)
LEMMA MatchesStep ==
  ASSUME IInv, NEW w \in DOMAIN worker, Matches(w)
  PROVE  IInv'
<1>0. Types /\ JobInv /\ w \in Goroutines /\ worker \in [Goroutines -> WorkerRec] /\ faults \in 0..MaxFault
  BY Zenon DEF IInv, Types, WorkerRec
<1>1. /\ phase = "match" /\ worker[w].pc = "run" /\ Call
      /\ UNCHANGED <<next, open, ch, vr, ended, faults>>
  BY Zenon DEF Matches
<1>2. PICK res \in ControllerMatch(MatcherSeq[worker[w].job], input.vulns, input.advice, records) :
       IF res = Error
       THEN worker' = [worker EXCEPT ![w].pc = "failed"] /\ failed' = TRUE
       ELSE worker' = [worker EXCEPT ![w].pc = "send", ![w].res = res] /\ UNCHANGED failed
  BY Zenon DEF Matches
<1>3. faults' \in 0..MaxFault /\ faults' >= faults  BY <1>0, <1>1
<1>4. CASE res = Error
  <2>1. Changed(w, [worker[w] EXCEPT !.pc = "failed"]) /\ failed' = TRUE  BY Zenon, <1>2, <1>4 DEF Changed
  <2> QED  BY Zenon, <1>1, <1>3, <2>1, FailStep
<1>5. CASE res # Error
  <2> DEFINE rec == [worker[w] EXCEPT !.pc = "send", !.res = res]
  <2>1. worker[w].job \in 1..Len(MatcherSeq) /\ Busy(w)  BY Zenon, <1>0, <1>1 DEF JobInv, Busy, Pool
  <2>2. res \in Results(MatcherSeq[worker[w].job])  BY Zenon, <1>2, <1>5 DEF Results
  <2>3. res \in Finds  BY Zenon, <2>1, <2>2, FindsOf
  <2>4. rec \in WorkerRec /\ rec.pc = "send" /\ rec.job = worker[w].job /\ rec.res = res
    BY Zenon, <1>0, <2>3 DEF WorkerRec, PCs
  <2>5. Changed(w, rec) /\ UNCHANGED failed  BY Zenon, <1>2, <1>5 DEF Changed
  <2> HIDE DEF rec
  <2> QED  BY Zenon, <1>1, <1>3, <2>1, <2>2, <2>4, <2>5, MoveStep
<1> QED  BY Zenon, <1>4, <1>5

(* A worker finds its channel closed; an enricher has something to report, *)
(* or is passed over.                                                      *)
LEMMA OtherStep ==
  ASSUME IInv, NEW w \in DOMAIN worker, Ends(w) \/ Enriches(w) \/ EnrichNothing(w)
  PROVE  IInv'
<1>0. Types /\ w \in Goroutines /\ worker[w] \in WorkerRec /\ faults \in 0..MaxFault
  BY Zenon DEF IInv, Types, WorkerRec
<1>1. CASE Ends(w)
  <2> DEFINE rec == [worker[w] EXCEPT !.pc = "done"]
  <2>1. rec \in WorkerRec /\ rec.pc = "done"  BY Zenon, <1>0 DEF WorkerRec, PCs
  <2>2. ~Busy(w) /\ Changed(w, rec) /\ Call /\ UNCHANGED <<next, open, ch, vr, failed, ended, faults>>
    BY Zenon, <1>1 DEF Ends, Busy, Changed
  <2> HIDE DEF rec
  <2>3. faults' \in 0..MaxFault /\ faults' >= faults  BY <1>0, <2>2
  <2> QED  BY Zenon, <2>1, <2>2, <2>3, MoveStep
<1>2. CASE Enriches(w)
  <2> DEFINE rec == [worker[w] EXCEPT !.pc = "send"]
  <2>1. rec \in WorkerRec /\ rec.pc = "send" /\ rec.job = worker[w].job  BY Zenon, <1>0 DEF WorkerRec, PCs
  <2>2. /\ phase = "enrich" /\ Busy(w) /\ Changed(w, rec) /\ Call
        /\ UNCHANGED <<next, open, ch, vr, failed, ended, faults>>
    BY Zenon, <1>2 DEF Enriches, Busy, Changed
  <2> HIDE DEF rec
  <2>3. faults' \in 0..MaxFault /\ faults' >= faults  BY <1>0, <2>2
  <2> QED  BY Zenon, <2>1, <2>2, <2>3, MoveStep
<1>3. CASE EnrichNothing(w)
  <2> DEFINE rec == [worker[w] EXCEPT !.pc = "idle"]
  <2>1. rec \in WorkerRec /\ rec.pc = "idle"  BY Zenon, <1>0 DEF WorkerRec, PCs
  <2>2. phase = "enrich" /\ Changed(w, rec) /\ Call /\ UNCHANGED <<next, open, ch, vr, failed, ended>>
    BY Zenon, <1>3 DEF EnrichNothing, Changed
  <2> HIDE DEF rec
  <2>3. faults' \in 0..MaxFault /\ faults' >= faults /\ (ended \/ failed \/ faults' > 0)
    BY <1>0, <1>3 DEF EnrichNothing, CanFail, Done
  <2> QED  BY Zenon, <2>1, <2>2, <2>3, MoveStep
<1> QED  BY Zenon, <1>1, <1>2, <1>3

(* What is put on the channel is at its end, behind what was there.        *)
LEMMA AppendKeeps ==
  ASSUME NEW S, NEW c \in Seq(S), NEW e \in S
  PROVE  /\ Append(c, e) \in Seq(S) /\ Len(Append(c, e)) = Len(c) + 1
         /\ \A k \in 1..Len(c) : k \in 1..Len(Append(c, e)) /\ Append(c, e)[k] = c[k]
         /\ Len(c) + 1 \in 1..Len(Append(c, e)) /\ Append(c, e)[Len(c) + 1] = e
  OBVIOUS

(* What is taken off the channel was its first; the rest moves up.         *)
LEMMA TailKeeps ==
  ASSUME NEW S, NEW c \in Seq(S), c # <<>>
  PROVE  /\ Head(c) \in S /\ Head(c) = c[1] /\ Tail(c) \in Seq(S) /\ Len(Tail(c)) = Len(c) - 1
         /\ \A k \in 1..Len(c) : k = 1 \/ (k - 1 \in 1..Len(Tail(c)) /\ Tail(c)[k - 1] = c[k])
<1>1. Len(c) \in Nat /\ Len(c) > 0  OBVIOUS
<1> QED  BY <1>1

(* A goroutine delivers: the result of its job goes from it to the channel. *)
LEMMA DeliverStep ==
  ASSUME IInv, NEW w \in DOMAIN worker, NEW rec \in WorkerRec, Changed(w, rec), rec.pc \notin {"run", "send"},
         Busy(w), NEW e \in Channel, ch' = Append(ch, e), enriched => Len(ch) < lim,
         phase = "match" => e \in Results(MatcherSeq[worker[w].job]),
         phase = "enrich" => e = Enrichers[worker[w].job],
         Call, UNCHANGED <<next, open, vr, failed, ended, faults>>
  PROVE  IInv'
<1>0. /\ Types /\ JobInv /\ MatchInv /\ EnrichInv /\ ClosedInv /\ ch \in Seq(Channel)
      /\ w \in Goroutines /\ worker \in [Goroutines -> WorkerRec] /\ faults \in Nat
  BY DEF IInv, Types, WorkerRec
<1>1. /\ worker' \in [Goroutines -> WorkerRec]
      /\ worker'[w] = rec /\ \A x \in Goroutines : x # w => worker'[x] = worker[x]
  BY Zenon, <1>0, WorkerType
<1>2. /\ ch' \in Seq(Channel) /\ Len(ch') = Len(ch) + 1 /\ Len(ch) \in Nat
      /\ \A k \in 1..Len(ch) : k \in 1..Len(ch') /\ ch'[k] = ch[k]
      /\ Len(ch) + 1 \in 1..Len(ch') /\ ch'[Len(ch) + 1] = e
  BY <1>0, AppendKeeps
<1>3. enriched => Len(ch') <= lim  BY <1>2 DEF lim
<1>4. Types'  BY Zenon, <1>0, <1>1, <1>2, <1>3, SameCall DEF Types, WorkerRec, Call, lim
<1>5. JobInv'
  <2>0. Goroutines' = Goroutines /\ Pool' = Pool /\ phase' = phase /\ \A m : Results(m)' = Results(m)
    BY Zenon, SameCall DEF Call
  <2>1. ASSUME phase' # "returned", NEW x \in Goroutines, Busy(x)' PROVE worker'[x].job \in 1..Len(Pool)
    <3>1. x # w /\ worker'[x] = worker[x]  BY Zenon, <1>1, <2>1 DEF Busy
    <3> QED  BY Zenon, <1>0, <2>0, <2>1, <3>1 DEF JobInv, Busy
  <2>2. ASSUME phase' = "match", NEW x \in Goroutines, worker'[x].pc = "send"
        PROVE  worker'[x].res \in Results(MatcherSeq[worker'[x].job])
    <3>1. x # w /\ worker'[x] = worker[x]  BY Zenon, <1>1, <2>2
    <3> QED  BY Zenon, <1>0, <2>0, <2>2, <3>1 DEF JobInv
  <2> QED  BY Zenon, <2>0, <2>1, <2>2 DEF JobInv
<1>6. \A i : (Sent(i) => Sent(i)') /\ (Told(i) => Told(i)') /\ (Enriching(i) => Enriching(i)')
  BY Zenon, <1>2, SameCall DEF Sent, Told, Enriching
<1>7. PICK j : j = worker[w].job  BY Zenon
<1>8. ASSUME NEW i, Under(i) PROVE Under(i)' \/ i = j
  BY Zenon, <1>0, <1>1, <1>7, <1>8, StillUnder
<1>9. MatchInv'
  <2>1. phase = "match" => Sent(j)'  BY Zenon, <1>2, <1>7, SameCall DEF Sent
  <2>2. \A i : phase = "match" /\ MatchHeld(i) => MatchHeld(i)'  BY Zenon, <1>6, <1>8, <2>1 DEF MatchHeld
  <2> QED  BY Zenon, <1>0, <2>2 DEF MatchInv, Given, Call
<1>10. EnrichInv'
  <2>1. phase = "enrich" => Enriching(j)'  BY Zenon, <1>2, <1>7 DEF Enriching
  <2>2. \A i : phase = "enrich" /\ EnrichHeld(i) => EnrichHeld(i)'  BY Zenon, <1>6, <1>8, <2>1 DEF EnrichHeld
  <2> QED  BY Zenon, <1>0, <2>2 DEF EnrichInv, Call
<1>11. ClosedInv'  BY Zenon, <1>0, SameCall DEF ClosedInv, Call
<1>12. Onward  BY <1>0 DEF Onward
<1> QED  BY Zenon, <1>4, <1>5, <1>9, <1>10, <1>11, <1>12, CallStep

(* A worker puts its result on the channel.                                *)
LEMMA DeliversStep ==
  ASSUME IInv, NEW w \in DOMAIN worker, Deliver(w) \/ DeliverEnrichment(w)
  PROVE  IInv'
<1>0. Types /\ JobInv /\ w \in Goroutines /\ worker[w] \in WorkerRec /\ faults \in 0..MaxFault
  BY Zenon DEF IInv, Types, WorkerRec
<1>1. CASE Deliver(w)
  <2> DEFINE rec == [pc |-> IF enriched THEN "idle" ELSE "done", job |-> 0, res |-> <<>>]
  <2>1. rec \in WorkerRec /\ rec.pc \notin {"run", "send"}  BY Zenon DEF WorkerRec, PCs
  <2>2. /\ phase = "match" /\ worker[w].pc = "send" /\ (enriched => Len(ch) < lim)
        /\ ch' = Append(ch, worker[w].res) /\ Changed(w, rec)
        /\ Call /\ UNCHANGED <<next, open, vr, failed, ended, faults>>
    BY Zenon, <1>1 DEF Deliver, Changed
  <2> HIDE DEF rec
  <2>3. Busy(w) /\ worker[w].job \in 1..Len(MatcherSeq) /\ worker[w].res \in Results(MatcherSeq[worker[w].job])
    BY Zenon, <1>0, <2>2 DEF JobInv, Busy, Pool
  <2>4. worker[w].res \in Channel  BY Zenon, <2>2, <2>3, FindsOf DEF Channel
  <2> QED  BY Zenon, <2>1, <2>2, <2>3, <2>4, DeliverStep
<1>2. CASE DeliverEnrichment(w)
  <2>1. /\ phase = "enrich" /\ worker[w].pc = "send" /\ Call /\ UNCHANGED <<next, open, vr, ended, faults>>
    BY Zenon, <1>2 DEF DeliverEnrichment
  <2>2. Busy(w) /\ worker[w].job \in 1..Len(Enrichers)  BY Zenon, <1>0, <2>1 DEF JobInv, Busy, Pool
  <2>3. CASE /\ Len(ch) < lim /\ ch' = Append(ch, Enrichers[worker[w].job])
             /\ worker' = [worker EXCEPT ![w].pc = "idle"] /\ UNCHANGED failed
    <3> DEFINE rec == [worker[w] EXCEPT !.pc = "idle"]
    <3>1. rec \in WorkerRec /\ rec.pc \notin {"run", "send"}  BY Zenon, <1>0 DEF WorkerRec, PCs
    <3>2. Changed(w, rec)  BY Zenon, <2>3 DEF Changed
    <3> HIDE DEF rec
    <3>3. Enrichers[worker[w].job] \in Channel  BY <2>1, <2>2 DEF Channel, Range
    <3> QED  BY Zenon, <2>1, <2>2, <2>3, <3>1, <3>2, <3>3, DeliverStep
  <2>4. CASE worker' = [worker EXCEPT ![w].pc = "failed"] /\ failed' = TRUE /\ UNCHANGED ch
    <3>1. Changed(w, [worker[w] EXCEPT !.pc = "failed"])  BY Zenon, <2>4 DEF Changed
    <3>2. faults' \in 0..MaxFault /\ faults' >= faults  BY <1>0, <2>1
    <3> QED  BY Zenon, <2>1, <2>4, <3>1, <3>2, FailStep
  <2> QED  BY Zenon, <1>2, <2>3, <2>4 DEF DeliverEnrichment
<1> QED  BY Zenon, <1>1, <1>2

(* The collector takes a result off the channel and into the report.       *)
LEMMA CollectStep ==
  ASSUME IInv, Collect
  PROVE  IInv'
<1>0. /\ Types /\ JobInv /\ MatchInv /\ ClosedInv /\ ch \in Seq(Finds) /\ phase = "match" /\ ch # <<>> /\ Call
      /\ vr \in [pv : SUBSET Sayable, enrichments : SUBSET Range(Enrichers)]
      /\ ch' = Tail(ch) /\ UNCHANGED <<next, open, worker, failed, ended, faults>> /\ faults \in Nat
  BY DEF IInv, Types, Collect, Channel
<1>1. /\ Head(ch) \in Finds /\ Head(ch) = ch[1] /\ ch' \in Seq(Finds) /\ Len(ch') = Len(ch) - 1
      /\ \A k \in 1..Len(ch) : k = 1 \/ (k - 1 \in 1..Len(ch') /\ ch'[k - 1] = ch[k])
  BY Zenon, <1>0, TailKeeps
<1>2. vr' = [vr EXCEPT !.pv = @ \cup Pairs(Head(ch))]  BY Zenon DEF Collect, Pairs
<1>3. Pairs(Head(ch)) \subseteq Sayable  BY Zenon, <1>1 DEF Sayable
<1>4. /\ vr' \in [pv : SUBSET Sayable, enrichments : SUBSET Range(Enrichers)]
      /\ vr.pv \subseteq vr'.pv /\ Pairs(Head(ch)) \subseteq vr'.pv /\ vr'.enrichments = vr.enrichments
  BY Zenon, <1>0, <1>2, <1>3
<1>5. Types'
  <2>1. enriched => Len(ch') <= lim  BY <1>0, <1>1 DEF Types, lim
  <2> QED  BY Zenon, <1>0, <1>1, <1>4, <2>1, SameCall DEF Types, Channel, Call, lim
<1>6. JobInv'  BY Zenon, <1>0, SameCall DEF JobInv, Busy, Call
<1>7. \A i : (Under(i) => Under(i)') /\ (Told(i) => Told(i)')
  BY Zenon, <1>0, <1>4, SameCall DEF Under, Busy, Told
<1>8. \A i : Sent(i) => Sent(i)' \/ Told(i)'
  <2> SUFFICES ASSUME NEW i, Sent(i) PROVE Sent(i)' \/ Told(i)'  BY Zenon
  <2>1. PICK k \in 1..Len(ch) : ch[k] \in Results(MatcherSeq[i])  BY Zenon DEF Sent
  <2>2. CASE k = 1  BY Zenon, <1>0, <1>1, <1>4, <2>1, <2>2, SameCall DEF Told
  <2>3. CASE k # 1  BY Zenon, <1>0, <1>1, <2>1, <2>3, SameCall DEF Sent
  <2> QED  BY Zenon, <2>2, <2>3
<1>9. MatchInv'  BY Zenon, <1>0, <1>7, <1>8 DEF MatchInv, MatchHeld, Given, Call
<1>10. EnrichInv' /\ ClosedInv'  BY Zenon, <1>0, SameCall DEF EnrichInv, ClosedInv, Call
<1>11. Onward  BY <1>0, <1>4 DEF Onward
<1> QED  BY Zenon, <1>5, <1>6, <1>9, <1>10, <1>11, CallStep

(* The collector takes an enrichment off the channel.                      *)
LEMMA CollectEnrichmentStep ==
  ASSUME IInv, CollectEnrichment
  PROVE  IInv'
<1>0. /\ Types /\ JobInv /\ EnrichInv /\ ClosedInv /\ ch \in Seq(Range(Enrichers)) /\ phase = "enrich"
      /\ ch # <<>> /\ Call /\ vr \in [pv : SUBSET Sayable, enrichments : SUBSET Range(Enrichers)]
      /\ ch' = Tail(ch) /\ UNCHANGED <<next, open, worker, failed, ended, faults>> /\ faults \in Nat
  BY DEF IInv, Types, CollectEnrichment, Channel
<1>1. /\ Head(ch) \in Range(Enrichers) /\ Head(ch) = ch[1] /\ ch' \in Seq(Range(Enrichers))
      /\ Len(ch') = Len(ch) - 1
      /\ \A k \in 1..Len(ch) : k = 1 \/ (k - 1 \in 1..Len(ch') /\ ch'[k - 1] = ch[k])
  BY Zenon, <1>0, TailKeeps
<1>2. vr' = [vr EXCEPT !.enrichments = @ \cup {Head(ch)}]  BY Zenon DEF CollectEnrichment
<1>3. /\ vr' \in [pv : SUBSET Sayable, enrichments : SUBSET Range(Enrichers)]
      /\ vr.enrichments \subseteq vr'.enrichments /\ Head(ch) \in vr'.enrichments /\ vr'.pv = vr.pv
  BY Zenon, <1>0, <1>1, <1>2
<1>4. Types'
  <2>1. enriched => Len(ch') <= lim  BY <1>0, <1>1 DEF Types, lim
  <2> QED  BY Zenon, <1>0, <1>1, <1>3, <2>1, SameCall DEF Types, Channel, Call, lim
<1>5. JobInv'  BY Zenon, <1>0, SameCall DEF JobInv, Busy, Call
<1>6. \A i : Under(i) => Under(i)'  BY Zenon, <1>0, SameCall DEF Under, Busy
<1>7. \A i : Enriching(i) => Enriching(i)' \/ Enrichers[i] \in vr'.enrichments
  <2> SUFFICES ASSUME NEW i, Enriching(i) PROVE Enriching(i)' \/ Enrichers[i] \in vr'.enrichments  BY Zenon
  <2>1. PICK k \in 1..Len(ch) : ch[k] = Enrichers[i]  BY Zenon DEF Enriching
  <2>2. CASE k = 1  BY Zenon, <1>1, <1>3, <2>1, <2>2
  <2>3. CASE k # 1  BY Zenon, <1>1, <2>1, <2>3 DEF Enriching
  <2> QED  BY Zenon, <2>2, <2>3
<1>8. EnrichInv'  BY Zenon, <1>0, <1>3, <1>6, <1>7 DEF EnrichInv, EnrichHeld, Call
<1>9. MatchInv' /\ ClosedInv'  BY Zenon, <1>0, SameCall DEF MatchInv, ClosedInv, Call
<1>10. Onward  BY <1>0, <1>3 DEF Onward
<1> QED  BY Zenon, <1>4, <1>5, <1>8, <1>9, <1>10, CallStep

(* When all goroutines have returned and the channel is drained, what was  *)
(* handed over is in the report.                                           *)
LEMMA Drained ==
  ASSUME Types, Finished, ch = <<>>
  PROVE  \A i : ~Under(i) /\ ~Sent(i) /\ ~Enriching(i)
<1>1. \A w \in Goroutines : ~Busy(w)  BY Zenon DEF Types, Finished, Busy
<1>2. 1..Len(ch) = {}  OBVIOUS
<1> QED  BY Zenon, <1>1, <1>2 DEF Under, Sent, Enriching

(* The matchers are done.                                                  *)
LEMMA MatchedStep ==
  ASSUME IInv, Matched
  PROVE  IInv'
<1>0. /\ Types /\ MatchInv /\ ClosedInv /\ phase = "match" /\ enriched /\ Finished /\ ~open /\ ch = <<>>
      /\ phase' = (IF failed THEN "returned" ELSE "enrich")
      /\ next' = 0 /\ open' = TRUE /\ worker' = Idle
      /\ UNCHANGED <<input, enriched, ch, vr, failed, ended, faults>>
  BY Zenon DEF IInv, Matched
<1>1. Finds' = Finds /\ Sayable' = Sayable /\ \A m : Results(m)' = Results(m)  BY Zenon, <1>0, SameFinds
<1>2. Types'
  <2>1. Idle \in [Workers -> WorkerRec]  BY Zenon DEF Idle, WorkerRec, PCs
  <2>2. Goroutines' = Workers /\ WorkerRec' = WorkerRec  BY Zenon, <1>0, <1>1 DEF Goroutines, WorkerRec
  <2>3. worker' \in [Goroutines' -> WorkerRec']  BY Zenon, <1>0, <2>1, <2>2
  <2>4. ch' \in Seq(Channel') /\ Len(ch') = 0  BY <1>0
  <2>5. next' \in 0..Len(Pool') /\ lim \in Nat  BY <1>0 DEF Pool, lim
  <2>6. phase' \in {"match", "enrich", "returned"}  BY Zenon, <1>0
  <2>7. /\ enriched' \in BOOLEAN /\ open' \in BOOLEAN /\ failed' \in BOOLEAN /\ ended' \in BOOLEAN
        /\ faults' \in 0..MaxFault /\ enriched'
        /\ vr' \in [pv : SUBSET Sayable', enrichments : SUBSET Range(Enrichers)]
    BY Zenon, <1>0, <1>1 DEF Types
  <2> QED  BY Zenon, <1>0, <2>3, <2>4, <2>5, <2>6, <2>7 DEF Types, WorkerRec, lim
<1>3. \A i \in 1..next : failed \/ Told(i)  BY Zenon, <1>0, Drained DEF MatchInv, MatchHeld, Given
<1>4. next = Len(MatcherSeq) \/ ended \/ failed  BY Zenon, <1>0 DEF ClosedInv, Pool
<1>5. ToldInv'  BY Zenon, <1>0, <1>1, <1>3, <1>4 DEF ToldInv, Told
<1>6. JobInv'
  <2>1. \A w \in Goroutines' : ~Busy(w)'  BY Zenon, <1>0 DEF Goroutines, Busy, Idle
  <2> QED  BY Zenon, <1>0, <2>1 DEF JobInv
<1>7. MatchInv' /\ EnrichInv' /\ ClosedInv' /\ EnrichedInv'
  BY <1>0 DEF MatchInv, EnrichInv, ClosedInv, EnrichedInv
<1> QED  BY Zenon, <1>2, <1>5, <1>6, <1>7 DEF IInv

(* The call returns.                                                       *)
LEMMA ReturnStep ==
  ASSUME IInv, PlainReturn \/ Enriched
  PROVE  IInv'
<1>0. /\ Types /\ MatchInv /\ EnrichInv /\ ClosedInv /\ ToldInv /\ Finished /\ ch = <<>> /\ phase' = "returned"
      /\ UNCHANGED <<input, enriched, next, open, worker, ch, vr, failed, ended, faults>>
      /\ \/ phase = "match" /\ ~enriched
         \/ phase = "enrich" /\ ~open /\ enriched
  BY Zenon DEF IInv, PlainReturn, Enriched, Types
<1>1. Finds' = Finds /\ Sayable' = Sayable /\ \A m : Results(m)' = Results(m)  BY Zenon, <1>0, SameFinds
<1>2. Types'
  <2>1. Goroutines' = Goroutines /\ WorkerRec' = WorkerRec /\ worker \in [Goroutines -> WorkerRec]
    BY Zenon, <1>0, <1>1 DEF Types, Goroutines, WorkerRec
  <2>2. ch' \in Seq(Channel') /\ Len(ch') = 0  BY <1>0
  <2>3. next' \in 0..Len(Pool') /\ lim \in Nat
    <3>1. CASE enriched  BY Zenon, <1>0, <3>1 DEF Types, Pool, lim
    <3>2. CASE ~enriched  BY <1>0, <3>2 DEF Types, Pool, lim
    <3> QED  BY Zenon, <3>1, <3>2
  <2>4. /\ enriched' \in BOOLEAN /\ open' \in BOOLEAN /\ failed' \in BOOLEAN /\ ended' \in BOOLEAN
        /\ faults' \in 0..MaxFault /\ (~enriched' => next' = 0 /\ open')
        /\ vr' \in [pv : SUBSET Sayable', enrichments : SUBSET Range(Enrichers)]
    BY Zenon, <1>0, <1>1 DEF Types
  <2>5. phase' \in {"match", "enrich", "returned"} /\ phase' # "enrich" /\ worker' \in [Goroutines' -> WorkerRec']
    BY Zenon, <1>0, <2>1
  <2> QED  BY <2>2, <2>3, <2>4, <2>5 DEF Types, WorkerRec, lim
<1>3. ToldInv'
  <2>1. CASE phase = "match"
    <3>1. \A i \in 1..Len(MatcherSeq) : failed \/ Told(i)  BY Zenon, <1>0, <2>1, Drained DEF MatchInv, MatchHeld, Given
    <3> QED  BY Zenon, <1>0, <1>1, <3>1 DEF ToldInv, Told
  <2>2. CASE phase = "enrich"  BY Zenon, <1>0, <1>1, <2>2 DEF ToldInv, Told
  <2> QED  BY Zenon, <1>0, <2>1, <2>2
<1>4. EnrichedInv'
  <2> SUFFICES ASSUME enriched, ~failed, ~ended, faults = 0 PROVE \A i \in 1..Len(Enrichers) : Enrichers[i] \in vr.enrichments
    BY Zenon, <1>0 DEF EnrichedInv
  <2>1. next = Len(Enrichers)  BY Zenon, <1>0 DEF ClosedInv, Pool
  <2>2. \A i \in 1..next : EnrichHeld(i)  BY Zenon, <1>0 DEF EnrichInv
  <2> QED  BY <1>0, <2>1, <2>2, Drained DEF EnrichHeld
<1>5. JobInv' /\ MatchInv' /\ EnrichInv' /\ ClosedInv'
  BY Zenon, <1>0 DEF JobInv, MatchInv, EnrichInv, ClosedInv
<1> QED  BY Zenon, <1>2, <1>3, <1>4, <1>5 DEF IInv

(* A step that changes nothing keeps the invariant.                        *)
LEMMA StutterStep ==
  ASSUME IInv, UNCHANGED vars
  PROVE  IInv'
<1>1. UNCHANGED <<input, enriched, phase, next, open, worker, ch, vr, failed, ended, faults>>  BY Zenon DEF vars
<1>2. Call  BY Zenon, <1>1 DEF Call
<1>3. Types'  BY Zenon, <1>1, <1>2, SameCall DEF IInv, Types
<1>4. JobInv'  BY Zenon, <1>1, <1>2, SameCall DEF IInv, JobInv, Busy
<1>5. \A i : (Under(i) => Under(i)') /\ (Sent(i) => Sent(i)') /\ (Told(i) => Told(i)') /\ (Enriching(i) => Enriching(i)')
  BY Zenon, <1>1, <1>2, SameCall DEF Under, Busy, Sent, Told, Enriching
<1>6. MatchInv' /\ EnrichInv' /\ ClosedInv'
  BY Zenon, <1>1, <1>2, <1>5, SameCall DEF IInv, MatchInv, MatchHeld, Given, EnrichInv, EnrichHeld, ClosedInv
<1>7. faults \in Nat  BY DEF IInv, Types
<1>8. Onward  BY <1>1, <1>2, <1>7 DEF Onward
<1> QED  BY Zenon, <1>3, <1>4, <1>6, <1>8, CallStep

(* Nothing a matcher found is lost between its worker and the report, and  *)
(* the sender stops short only when the call is to fail: the invariant     *)
(* that Scan's report rests on.                                            *)
THEOREM ScanInvariant == Spec => []IInv
<1>1. IInv /\ [Next]_vars => IInv'
  <2> SUFFICES ASSUME IInv, [Next]_vars PROVE IInv'  BY Zenon
  <2>1. ASSUME NEW w \in DOMAIN worker, Worker(w) PROVE IInv'
    BY Zenon, <2>1, SendStep, AbortStep, MatchesStep, DeliversStep, OtherStep DEF Worker
  <2>2. CASE Main
    BY Zenon, <2>2, StopStep, CollectStep, MatchedStep, ReturnStep, CollectEnrichmentStep DEF Main
  <2>3. CASE ContextEnds  BY Zenon, <2>3, StopStep
  <2>4. CASE UNCHANGED vars  BY Zenon, <2>4, StutterStep
  <2> QED  BY Zenon, <2>1, <2>2, <2>3, <2>4 DEF Next
<1> QED  BY <1>1, InitInv, PTL DEF Spec

(* A report that EnrichedMatch or Match returns without an error, while    *)
(* the caller's context lives, has what every matcher found, nothing that  *)
(* none found, and every enrichment when no call failed: for any number of *)
(* workers, matchers and enrichers, in whatever order the goroutines run.  *)
THEOREM CompleteReport == Spec => []ReportComplete
<1>1. IInv => ReportComplete
  <2> SUFFICES ASSUME IInv PROVE ReportComplete  BY Zenon
  <2>0. Types  BY Zenon DEF IInv
  <2>1. TypeOK  BY Zenon, <2>0 DEF Types, TypeOK, PCs
  <2>2. ASSUME Returned, ~ended PROVE AllMatched
    <3>1. \A i \in 1..Len(MatcherSeq) : Told(i)  BY Zenon, <2>2 DEF IInv, ToldInv, Returned
    <3>2. ASSUME NEW m \in Range(MatcherSeq) PROVE \E res \in Results(m) : Pairs(res) \subseteq vr.pv
      <4>1. PICK i \in 1..Len(MatcherSeq) : m = MatcherSeq[i]  BY DEF Range
      <4> QED  BY Zenon, <3>1, <4>1 DEF Told
    <3>3. vr.pv \subseteq Sayable  BY Zenon, <2>0 DEF Types
    <3> QED  BY Zenon, <3>2, <3>3 DEF AllMatched, Sayable, Finds
  <2>3. ASSUME Returned, ~ended, enriched, faults = 0 PROVE vr.enrichments = Range(Enrichers)
    <3>1. \A i \in 1..Len(Enrichers) : Enrichers[i] \in vr.enrichments  BY Zenon, <2>3 DEF IInv, EnrichedInv, Returned
    <3>2. vr.enrichments \subseteq Range(Enrichers)  BY Zenon, <2>0 DEF Types
    <3>3. \A e \in Range(Enrichers) : \E i \in 1..Len(Enrichers) : e = Enrichers[i]  BY DEF Range
    <3> QED  BY Zenon, <3>1, <3>2, <3>3
  <2> QED  BY Zenon, <2>1, <2>2, <2>3 DEF ReportComplete
<1> QED  BY <1>1, ScanInvariant, PTL
=============================================================================
