-------------------------------- MODULE Match --------------------------------
(***************************************************************************)
(* libvuln's Scan: one call of EnrichedMatch (internal/matcher/match.go)   *)
(* with its pools of matcher and enricher workers, or, for a store without *)
(* enrichments, one call of Match.                                         *)
(***************************************************************************)
EXTENDS Matchers, Sequences, Functions

CONSTANTS
  Workers,      \* the workers of a pool: lim of them
  MatcherSeq,   \* the matchers, in order
  Enrichers,    \* the enrichers, in order
  Inputs,       \* index reports with the vulnerabilities in the store
  MaxFault      \* bound on failed calls and ended contexts

ASSUME MatchAssumption ==
  /\ IsFiniteSet(Workers) /\ Cardinality(Workers) \in Nat \ {0} /\ MaxFault \in Nat
  /\ MatcherSeq \in Seq(Range(MatcherSeq)) /\ Enrichers \in Seq(Range(Enrichers))

VARIABLES
  input,    \* the report, the store's vulnerabilities and the remote service's
  enriched, \* EnrichedMatch or Match
  phase,    \* "match", "enrich", "returned"
  next,     \* matchers or enrichers handed to a worker so far
  open,     \* mCh or eCh is not closed
  worker,   \* what each worker does and with what
  ch,       \* vCh or rCh: results not collected
  vr,       \* the report built so far
  failed,   \* an error some goroutine of the errgroup returned
  ended,    \* the caller's context has ended
  faults

vars == <<input, enriched, phase, next, open, worker, ch, vr, failed, ended, faults>>

lim == Cardinality(Workers)
Pool == IF phase = "match" THEN MatcherSeq ELSE Enrichers
Idle == [w \in Workers |-> [pc |-> "idle", job |-> 0, res |-> <<>>]]
records == IndexRecords(input.report)

(* The errgroup's context: ended with the caller's or, in EnrichedMatch, by *)
(* the first error.                                                         *)
Done == ended \/ (enriched /\ failed)

(* Match starts a goroutine per matcher: `worker' then has one per matcher. *)
Init ==
  /\ input \in Inputs /\ enriched \in BOOLEAN
  /\ phase = "match" /\ next = 0 /\ open = TRUE
  /\ worker = IF enriched THEN Idle ELSE [i \in 1..Len(MatcherSeq) |-> [pc |-> "run", job |-> i, res |-> <<>>]]
  /\ ch = <<>> /\ vr = [pv |-> {}, enrichments |-> {}]
  /\ failed = FALSE /\ ended = FALSE /\ faults = 0

CanFail == faults < MaxFault
Call == UNCHANGED <<input, enriched, phase>>

-----------------------------------------------------------------------------
(* The sender: hands the next matcher or enricher to an idle worker, or    *)
(* stops when the context is done, or has handed over everything.          *)
Send(w) ==
  /\ enriched /\ open /\ phase # "returned" /\ next < Len(Pool) /\ worker[w].pc = "idle"
  /\ next' = next + 1
  /\ worker' = [worker EXCEPT ![w] = [pc |-> "run", job |-> next + 1, res |-> <<>>]]
  /\ Call /\ UNCHANGED <<open, ch, vr, failed, ended, faults>>

(* Mutant: the sender does not stop when the context is done. *)
CloseSendAll ==
  /\ enriched /\ open /\ phase # "returned"
  /\ next = Len(Pool)
  /\ open' = FALSE
  /\ Call /\ UNCHANGED <<next, worker, ch, vr, failed, ended, faults>>

CloseSend ==
  /\ enriched /\ open /\ phase # "returned"
  /\ next = Len(Pool) \/ Done
  /\ open' = FALSE
  /\ Call /\ UNCHANGED <<next, worker, ch, vr, failed, ended, faults>>

(* A matcher's worker: looks at the context, matches, delivers. *)
Aborts(w) ==
  /\ phase = "match" /\ enriched /\ worker[w].pc = "run" /\ Done
  /\ worker' = [worker EXCEPT ![w].pc = "failed"]
  /\ failed' = TRUE
  /\ Call /\ UNCHANGED <<next, open, ch, vr, ended, faults>>

(* The store's query fails only with a fault, or because the context is done. *)
Matches(w) ==
  /\ phase = "match" /\ worker[w].pc = "run" /\ ~(enriched /\ Done)
  /\ \E res \in ControllerMatch(MatcherSeq[worker[w].job], input.vulns, input.advice, records) :
       IF res = Error
       THEN /\ worker' = [worker EXCEPT ![w].pc = "failed"] /\ failed' = TRUE
       ELSE /\ worker' = [worker EXCEPT ![w].pc = "send", ![w].res = res] /\ UNCHANGED failed
  /\ Call /\ UNCHANGED <<next, open, ch, vr, ended, faults>>

MatchFails(w) ==
  /\ phase = "match" /\ worker[w].pc = "run"
  /\ LET m == MatcherSeq[worker[w].job]
     IN  m \notin {"maven", "pypi"} /\ FindInterested(m, records) # {}
  /\ \/ CanFail /\ faults' = faults + 1
     \/ Done /\ UNCHANGED faults
  /\ worker' = [worker EXCEPT ![w].pc = "failed"]
  /\ failed' = TRUE
  /\ Call /\ UNCHANGED <<next, open, ch, vr, ended>>

Deliver(w) ==
  /\ phase = "match" /\ worker[w].pc = "send" /\ (enriched => Len(ch) < lim)
  /\ ch' = Append(ch, worker[w].res)
  /\ worker' = [worker EXCEPT ![w] = [pc |-> IF enriched THEN "idle" ELSE "done", job |-> 0, res |-> <<>>]]
  /\ Call /\ UNCHANGED <<next, open, vr, failed, ended, faults>>

(* A worker that finds the channel closed ends. *)
Ends(w) ==
  /\ worker[w].pc = "idle" /\ ~open
  /\ worker' = [worker EXCEPT ![w].pc = "done"]
  /\ Call /\ UNCHANGED <<next, open, ch, vr, failed, ended, faults>>

Finished == \A w \in DOMAIN worker : worker[w].pc \in {"done", "failed"}

(* The collector attaches a result to the report. *)
Collect ==
  /\ phase = "match" /\ ch # <<>>
  /\ vr' = [vr EXCEPT !.pv = @ \cup UNION {{<<p, v.id>> : v \in Head(ch)[p]} : p \in DOMAIN Head(ch)}]
  /\ ch' = Tail(ch)
  /\ Call /\ UNCHANGED <<next, open, worker, failed, ended, faults>>

(* Mutant: results still on the channel are dropped. *)
MatchedUndrained ==
  /\ phase = "match" /\ enriched /\ Finished /\ ~open
  /\ phase' = IF failed THEN "returned" ELSE "enrich"
  /\ next' = 0 /\ open' = TRUE /\ worker' = Idle /\ ch' = <<>>
  /\ UNCHANGED <<input, enriched, vr, failed, ended, faults>>

(* mg.Wait has returned, vCh is closed and drained: vg.Wait returns too. *)
Matched ==
  /\ phase = "match" /\ enriched /\ Finished /\ ~open /\ ch = <<>>
  /\ phase' = IF failed THEN "returned" ELSE "enrich"
  /\ next' = 0 /\ open' = TRUE /\ worker' = Idle
  /\ UNCHANGED <<input, enriched, ch, vr, failed, ended, faults>>

(* Match: the error is queued before ctrlC is closed, and read after. *)
PlainReturn ==
  /\ phase = "match" /\ ~enriched /\ Finished /\ ch = <<>>
  /\ phase' = "returned"
  /\ UNCHANGED <<input, enriched, next, open, worker, ch, vr, failed, ended, faults>>

-----------------------------------------------------------------------------
(* An enricher's worker: an error, or nothing to report, is passed over. *)
Enriches(w) ==
  /\ phase = "enrich" /\ worker[w].pc = "run"
  /\ worker' = [worker EXCEPT ![w].pc = "send"]
  /\ Call /\ UNCHANGED <<next, open, ch, vr, failed, ended, faults>>

EnrichNothing(w) ==
  /\ phase = "enrich" /\ worker[w].pc = "run"
  /\ \/ CanFail /\ faults' = faults + 1
     \/ Done /\ UNCHANGED faults
  /\ worker' = [worker EXCEPT ![w].pc = "idle"]
  /\ Call /\ UNCHANGED <<next, open, ch, vr, failed, ended>>

DeliverEnrichment(w) ==
  /\ phase = "enrich" /\ worker[w].pc = "send"
  /\ \/ Len(ch) < lim /\ ch' = Append(ch, Enrichers[worker[w].job])
        /\ worker' = [worker EXCEPT ![w].pc = "idle"] /\ UNCHANGED failed
     \/ Done /\ worker' = [worker EXCEPT ![w].pc = "failed"]
        /\ failed' = TRUE /\ UNCHANGED ch
  /\ Call /\ UNCHANGED <<next, open, vr, ended, faults>>

(* The collector's map is attached when rCh is closed, by the last worker. *)
CollectEnrichment ==
  /\ phase = "enrich" /\ ch # <<>>
  /\ vr' = [vr EXCEPT !.enrichments = @ \cup {Head(ch)}]
  /\ ch' = Tail(ch)
  /\ Call /\ UNCHANGED <<next, open, worker, failed, ended, faults>>

Enriched ==
  /\ phase = "enrich" /\ Finished /\ ~open /\ ch = <<>>
  /\ phase' = "returned"
  /\ UNCHANGED <<input, enriched, next, open, worker, ch, vr, failed, ended, faults>>

(* The caller's context ends. *)
ContextEnds ==
  /\ ~ended /\ phase # "returned" /\ CanFail
  /\ ended' = TRUE /\ faults' = faults + 1
  /\ UNCHANGED <<input, enriched, phase, next, open, worker, ch, vr, failed>>

Worker(w) ==
  Send(w) \/ Aborts(w) \/ Matches(w) \/ MatchFails(w) \/ Deliver(w) \/ Ends(w)
  \/ Enriches(w) \/ EnrichNothing(w) \/ DeliverEnrichment(w)

Main == CloseSend \/ Collect \/ Matched \/ PlainReturn \/ CollectEnrichment \/ Enriched

Next == (\E w \in DOMAIN worker : Worker(w)) \/ Main \/ ContextEnds

Spec == Init /\ [][Next]_vars
(* Goroutines that can run do; nothing makes the context end. *)
FairSpec == Spec /\ WF_vars((\E w \in DOMAIN worker : Worker(w)) \/ Main)

-----------------------------------------------------------------------------
TypeOK ==
  /\ phase \in {"match", "enrich", "returned"} /\ enriched \in BOOLEAN /\ open \in BOOLEAN
  /\ next \in 0..Len(Pool) /\ (enriched => Len(ch) <= lim)
  /\ \A w \in DOMAIN worker : worker[w].pc \in {"idle", "run", "send", "done", "failed"}
  /\ failed \in BOOLEAN /\ ended \in BOOLEAN /\ faults \in 0..MaxFault

(* What a matcher may have found, asked once. *)
Results(m) == ControllerMatch(m, input.vulns, input.advice, records) \ {Error}
Pairs(res) == UNION {{<<p, v.id>> : v \in res[p]} : p \in DOMAIN res}

Returned == phase = "returned" /\ ~failed
AllMatched ==
  /\ \A m \in Range(MatcherSeq) : \E res \in Results(m) : Pairs(res) \subseteq vr.pv
  /\ vr.pv \subseteq UNION {Pairs(res) : res \in UNION {Results(m) : m \in Range(MatcherSeq)}}

(* EnrichedMatch and Match, match.go:18, "creates a VulnerabilityReport    *)
(* containing matched vulnerabilities": as long as the caller's context    *)
(* has not ended, a report returned without an error has what every        *)
(* matcher found and nothing else, and every enrichment when no call       *)
(* failed, in whatever order the goroutines ran.                           *)
ReportComplete ==
  /\ TypeOK
  /\ (Returned /\ ~ended) =>
       /\ AllMatched
       /\ (enriched /\ faults = 0) => vr.enrichments = Range(Enrichers)

(* The same of every report that comes without an error: "EnrichedMatch    *)
(* receives an IndexReport and creates a VulnerabilityReport containing    *)
(* matched vulnerabilities and any relevant enrichments" (match.go:80).    *)
ReportOrError == Returned => AllMatched

(* Scan returns: no sender, worker or collector waits for ever on a        *)
(* channel, with or without errors and an ended context.                   *)
ScanReturns == <>(phase = "returned")
=============================================================================
