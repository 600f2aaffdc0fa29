---------------------------- MODULE AnswerPipeline ----------------------------
(***************************************************************************)
(* The answer pipeline: src/skill/synthesis/orchestrate.py, from           *)
(* execute_answer_pipeline_with_trace down, with the answer cache and the  *)
(* request budget, for several requests on one event loop.                 *)
(*                                                                         *)
(* A request runs alone from one await to the next.  It awaits the         *)
(* retrieval and each probe; the call of the model backend is synchronous, *)
(* so that while one request generates no other one runs and no timer      *)
(* fires.  Retrieval itself is RetrievalRun's; here it returns or raises   *)
(* at any time, or hangs, and so does a probe.  What depends on the words  *)
(* of a query (whether a local answer can be built, a gate closes, a       *)
(* probe's hit is aligned) is a choice.                                    *)
(***************************************************************************)
EXTENDS Integers, FiniteSets

CONSTANTS
    Requests,
    Keys,              \* cache keys: normalized query and routes
    Records,           \* canonical evidence records
    RequestDeadline, SynthesisDeadline, \* of the RuntimeBudget
    Grace,             \* _REQUEST_DEADLINE_GRACE_SECONDS
    MaxProbes, ProbeTimeout, MinRemaining, \* COVERAGE_FRONTIER_...
    MinSynthesis,      \* what a probe must leave of the synthesis budget
    DesiredItems,      \* a local answer with fewer sources is worth enriching
    Overrun,           \* how late the backend may be on its timeout
    LastArrival        \* the bound on the arrival of requests

ASSUME PipelineConstants ==
    /\ {RequestDeadline, SynthesisDeadline, ProbeTimeout} \subseteq Nat \ {0}
    /\ Keys # {} /\ IsFiniteSet(Requests)
    /\ {Grace, MaxProbes, MinRemaining, MinSynthesis, DesiredItems, Overrun,
        LastArrival} \subseteq Nat

VARIABLES
    now,     \* time.perf_counter()
    request, \* the state of each request
    cache    \* ANSWER_CACHE: the answer kept for each key

vars == <<now, request, cache>>

-----------------------------------------------------------------------------
(* Answers *)

\* AnswerResponse.  clean: nothing but its status keeps it out of the cache,
\* that is retrieval succeeded without gaps and there are no notes.  long: its
\* token estimate is over the budget (told only where it decides something).
Answer(status, cites, clean, long) ==
    [status |-> status, cites |-> cites, clean |-> clean, long |-> long]
NoAnswer == Answer("none", {}, FALSE, FALSE)

Statuses == {"grounded_success", "insufficient_evidence", "retrieval_failure"}
Answers == [status : Statuses \cup {"none"}, cites : SUBSET Records,
            clean : BOOLEAN, long : BOOLEAN]

\* _build_partial_response_payload: two sources at most.
Quotable(evidence) == {c \in SUBSET evidence : Cardinality(c) <= 2}

\* The answers that own up to missing support, and quote what there is.
Insufficient(evidence) ==
    {Answer("insufficient_evidence", c, FALSE, FALSE) : c \in Quotable(evidence)}

RetrievalFailure == Answer("retrieval_failure", {}, FALSE, FALSE)
AcademicNoSupport == Answer("insufficient_evidence", {}, FALSE, FALSE)

\* _should_cache_response
ShouldCache(a) == a.status = "grounded_success" /\ a.clean

-----------------------------------------------------------------------------
(* The state of a request *)

AwaitingProbe == {"same_route_probe", "frontier_probe"}
Awaiting == {"retrieving"} \cup AwaitingProbe
InLoop == {"retrieved", "same_route", "frontier", "gates", "generating"}
Ended == {"answered", "raised"}

New == [stage |-> "new", key |-> CHOOSE k \in Keys : TRUE, start |-> 0,
        status |-> "none", \* RetrieveResponse.status
        evidence |-> {},   \* canonical_evidence
        estimated |-> {},  \* the evidence that evidence_token_estimate is of
        retrieval |-> 0,   \* retrieval_elapsed_seconds
        probed |-> 0,      \* total_probe_elapsed_seconds
        local |-> NoAnswer, left |-> 0, tried |-> FALSE, found |-> {},
        since |-> 0, due |-> 0,  \* of the probe or generation under way
        answer |-> NoAnswer, via |-> "none", phase |-> "none",
        synthesis |-> 0, finished |-> 0]

Init ==
    /\ now = 0
    /\ request = [r \in Requests |-> New]
    /\ cache = [k \in Keys |-> NoAnswer]

LoopFree == \A r \in Requests : request[r].stage \notin InLoop
At(r, stage) == request[r].stage = stage

Set(r, new) == request' = [request EXCEPT ![r] = new]
Keep == UNCHANGED <<now, cache>>

\* The request ends with this answer; what it needed on the way is dropped.
Ending(q, a, via) ==
    [stage |-> "answered", key |-> q.key, start |-> q.start, status |-> "none",
     evidence |-> q.evidence, estimated |-> q.estimated,
     retrieval |-> q.retrieval, probed |-> 0, local |-> NoAnswer,
     left |-> 0, tried |-> FALSE, found |-> {}, since |-> 0, due |-> 0,
     answer |-> a, via |-> via, phase |-> q.phase,
     synthesis |-> q.synthesis, finished |-> now]

Deliver(r, q, a) ==
    /\ Set(r, Ending(q, a, "pipeline"))
    /\ Keep

\* _maybe_cache_response, then the result
DeliverAndCache(r, q, a) ==
    /\ Set(r, Ending(q, a, "pipeline"))
    /\ cache' = IF ShouldCache(a) THEN [cache EXCEPT ![q.key] = a] ELSE cache
    /\ UNCHANGED now

\* _build_budget_enforced_response: no time or no room for a grounded answer.
DeliverWithinBudget(r, q, phase) ==
    \E a \in Insufficient(q.evidence) : Deliver(r, [q EXCEPT !.phase = phase], a)

-----------------------------------------------------------------------------
(* The budget: src/skill/orchestrator/budget.py *)

Lesser(a, b) == IF a < b THEN a ELSE b

\* remaining_request_seconds
RemainingRequest(elapsed) ==
    IF elapsed < RequestDeadline THEN RequestDeadline - elapsed ELSE 0

\* Slip: the synthesis budget alone.
FullSynthesis(elapsed) == SynthesisDeadline

\* remaining_synthesis_seconds
RemainingSynthesis(elapsed) == Lesser(SynthesisDeadline, RemainingRequest(elapsed))

\* has_budget_for_coverage_frontier_probe
HasProbeBudget(elapsed) ==
    /\ MaxProbes > 0
    /\ RemainingRequest(elapsed) >= MinRemaining + ProbeTimeout

HardCap(q) == q.start + RequestDeadline + Grace

-----------------------------------------------------------------------------
(* Arrival, retrieval and the hard cap *)

\* GroundedAnswerCache.get
Entry(k) == cache[k]

\* A cached answer within the budgets is the result; else retrieval starts.  The
\* estimate of the entry's evidence is not told: it too may be over its budget.
Arrive(r, k) ==
    /\ LoopFree /\ At(r, "new") /\ now <= LastArrival
    /\ LET q == [New EXCEPT !.key = k, !.start = now]
       IN  \/ /\ Entry(k) # NoAnswer /\ ~Entry(k).long
              /\ Set(r, Ending(q, Entry(k), "cache"))
           \/ Set(r, [q EXCEPT !.stage = "retrieving"])
    /\ Keep

\* execute_retrieval_pipeline returns.
RetrievalReturns(r, status, evidence) ==
    /\ LoopFree /\ At(r, "retrieving")
    /\ status = "failure_gaps" => evidence = {}
    /\ LET q == request[r]
       IN  Set(r, [q EXCEPT !.stage = "retrieved", !.status = status,
                            !.evidence = evidence, !.estimated = evidence,
                            !.retrieval = now - q.start])
    /\ Keep

\* What had been found is not reported.
Dropped(q) == [q EXCEPT !.evidence = {}, !.estimated = {}, !.retrieval = now - q.start]

\* An exception that nothing in the pipeline catches
Raise(r, q) ==
    /\ Set(r, [Ending(q, NoAnswer, "none") EXCEPT !.stage = "raised"])
    /\ Keep

\* A backup's payload is unreadable (ValueError), or an adapter raises a
\* CancelledError of its own: retrieval is awaited under no handler for either.
RetrievalRaises(r) ==
    /\ LoopFree /\ At(r, "retrieving")
    /\ Raise(r, Dropped(request[r]))

\* Slip: only the probes run under the cap.
CappedProbes == AwaitingProbe

\* The awaits under execute_answer_pipeline_with_trace's wait_for
Capped == Awaiting

\* asyncio.wait_for gives up: whatever was awaited is cancelled.
CapFires(r) ==
    /\ LoopFree /\ request[r].stage \in Capped
    /\ LET q == request[r]
       IN  /\ now >= HardCap(q)
           /\ Set(r, Ending([Dropped(q) EXCEPT !.phase = "request"], RetrievalFailure, "cap"))
    /\ Keep

-----------------------------------------------------------------------------
(* Local answers *)

\* What _build_local_answer_candidate or the academic fast path may build: it
\* quotes some of the evidence, or gates a weak bridge between two routes.
LocalCandidates(status, evidence) ==
    IF status \notin {"success", "partial"} THEN {}
    ELSE {a \in Insufficient(evidence) \cup
              [status : {"grounded_success"}, cites : SUBSET evidence,
               clean : BOOLEAN, long : BOOLEAN] :
            a.cites # {} /\ (a.clean => status = "success")}

NothingRetrieved(q) == q.status = "failure_gaps" /\ q.evidence = {}

\* An academic lookup may take an empty result for an insufficient one.
AnswerNothing(r) ==
    /\ At(r, "retrieved") /\ NothingRetrieved(request[r])
    /\ \E a \in {RetrievalFailure, AcademicNoSupport} : Deliver(r, request[r], a)

\* _should_attempt_same_route_enrichment allows it: a single thin answer.
MayEnrich(q, a) ==
    /\ q.status = "success"
    /\ a.status = "grounded_success"
    /\ Cardinality(a.cites) < DesiredItems

AnswerLocally(r, a) ==
    /\ At(r, "retrieved") /\ ~NothingRetrieved(request[r])
    /\ a \in LocalCandidates(request[r].status, request[r].evidence)
    /\ DeliverAndCache(r, request[r], a)

Enrich(r, a) ==
    /\ At(r, "retrieved") /\ ~NothingRetrieved(request[r])
    /\ a \in LocalCandidates(request[r].status, request[r].evidence)
    /\ MayEnrich(request[r], a)
    /\ HasProbeBudget(request[r].retrieval)
    /\ Set(r, [request[r] EXCEPT !.stage = "same_route", !.local = a, !.left = MaxProbes])
    /\ Keep

\* _should_activate_coverage_frontier: it may, given some evidence.
MayLackCoverage(q) == q.status \in {"success", "partial"} /\ q.evidence # {}

\* No local answer.  When the query spans two routes and only one is covered,
\* the other is probed, or the answer says there is no time to.
SeekCoverage(r) ==
    /\ At(r, "retrieved") /\ ~NothingRetrieved(request[r])
    /\ LET q == request[r]
       IN  /\ MayLackCoverage(q)
           /\ IF HasProbeBudget(q.retrieval)
              THEN /\ Set(r, [q EXCEPT !.stage = "frontier", !.left = MaxProbes])
                   /\ Keep
              ELSE \E a \in Insufficient(q.evidence) : Deliver(r, q, a)

GoOn(r) ==
    /\ At(r, "retrieved") /\ ~NothingRetrieved(request[r])
    /\ Set(r, [request[r] EXCEPT !.stage = "gates"])
    /\ Keep

-----------------------------------------------------------------------------
(* Probes of the same route (_maybe_apply_same_route_enrichment) and of the *)
(* complementary one (_maybe_apply_coverage_frontier)                       *)

\* Slip: the time of the probes already made is not counted.
SoFarRetrieval(q) == q.retrieval

SoFar(q) == q.retrieval + q.probed

NextTimeout(q) == Lesser(ProbeTimeout, RemainingRequest(SoFar(q)) - MinRemaining)

MayProbe(q) ==
    /\ q.left > 0
    /\ HasProbeBudget(SoFar(q))
    /\ NextTimeout(q) > 0
    /\ RemainingSynthesis(SoFar(q) + NextTimeout(q)) > MinSynthesis

\* The next source has no adapter.
SkipProbe(r) ==
    /\ request[r].stage \in {"same_route", "frontier"} /\ MayProbe(request[r])
    /\ Set(r, [request[r] EXCEPT !.left = @ - 1])
    /\ Keep

Probe(r) ==
    /\ request[r].stage \in {"same_route", "frontier"} /\ MayProbe(request[r])
    /\ LET q == request[r]
       IN  Set(r, [q EXCEPT !.stage = IF @ = "same_route" THEN "same_route_probe"
                                       ELSE "frontier_probe",
                            !.left = @ - 1, !.tried = TRUE,
                            !.since = now, !.due = now + NextTimeout(q)])
    /\ Keep

\* _select_coverage_frontier_hit: the best aligned hit that is not in the evidence
\* yet, if there is any.
MaySelect(q, hits) == Cardinality(hits) <= 1 /\ hits \cap q.evidence = {}

\* No hit, an error and a timeout are all the same to what follows.
ProbeReturns(r, hits) ==
    /\ LoopFree /\ request[r].stage \in AwaitingProbe
    /\ MaySelect(request[r], hits)
    /\ LET q == request[r]
       IN  Set(r, [q EXCEPT !.stage = IF @ = "same_route_probe" THEN "same_route"
                                       ELSE "frontier",
                            !.found = @ \cup hits, !.probed = @ + (now - q.since)])
    /\ Keep

\* The adapter raises a CancelledError of its own: no Exception, so that the
\* probe's handlers let it through.
ProbeRaises(r) ==
    /\ LoopFree /\ request[r].stage \in AwaitingProbe
    /\ Raise(r, Dropped(request[r]))

\* asyncio.wait_for gives the probe up.
ProbeTimesOut(r) == now >= request[r].due /\ ProbeReturns(r, {})

\* Slip: the new estimate is forgotten.
ProbesStale(q, evidence) ==
    [q EXCEPT !.evidence = evidence, !.retrieval = SoFar(q), !.probed = 0]

\* The probes' time is charged to retrieval, and the evidence they leave is
\* estimated anew.
Charged(q, evidence) ==
    [q EXCEPT !.evidence = evidence, !.estimated = evidence,
              !.retrieval = SoFar(q), !.probed = 0]

ProbesOver(r, stage) == At(r, stage) /\ ~MayProbe(request[r])

\* _merge_coverage_frontier_evidence: what the packing keeps of both.
Packs(evidence, hits) == (SUBSET (evidence \cup hits)) \ {{}}

\* Without a better answer the first one stands, on the evidence it was built on.
EnrichmentFails(r) ==
    /\ ProbesOver(r, "same_route")
    /\ LET q == request[r]
       IN  DeliverAndCache(r, Charged(q, q.evidence), q.local)

\* The better answer has more sources or, for as many or fewer, more key points,
\* which are not told: any answer on the merged evidence may be better.
Enriched(r) ==
    /\ ProbesOver(r, "same_route")
    /\ \E h \in request[r].found, a \in Answers :
       \E merged \in Packs(request[r].evidence, {h}) :
          /\ a \in LocalCandidates(request[r].status, merged)
          /\ DeliverAndCache(r, Charged(request[r], merged), a)

\* No source could be probed.
FrontierUntried(r) ==
    /\ ProbesOver(r, "frontier") /\ ~request[r].tried
    /\ Set(r, [request[r] EXCEPT !.stage = "gates"])
    /\ Keep

\* No probe found anything aligned, or the packing dropped it.
FrontierFails(r) ==
    /\ ProbesOver(r, "frontier") /\ request[r].tried
    /\ LET q == request[r]
       IN  \E a \in Insufficient(q.evidence) : Deliver(r, Charged(q, q.evidence), a)

\* The evidence is merged; a grounded local answer on it is the result.
FrontierMerges(r) ==
    /\ ProbesOver(r, "frontier")
    /\ \E merged \in Packs(request[r].evidence, request[r].found) :
       LET q == Charged(request[r], merged)
       IN  /\ request[r].found # {}
           /\ \/ \E a \in Insufficient(merged) : Deliver(r, q, a)
              \/ \E a \in LocalCandidates(q.status, merged) :
                    a.status = "grounded_success" /\ DeliverAndCache(r, q, a)

-----------------------------------------------------------------------------
(* Generation *)

\* _build_relevance_gated_response: the evidence does not bear on the query.
AnswerGated(r) ==
    /\ At(r, "gates") /\ request[r].evidence # {}
    /\ \E a \in Insufficient(request[r].evidence) : Deliver(r, request[r], a)

AnswerOutOfTime(r) ==
    /\ At(r, "gates") /\ RemainingSynthesis(request[r].retrieval) = 0
    /\ DeliverWithinBudget(r, request[r], "synthesis")

\* The backend is called, with a local answer held against what it makes.
Generate(r) ==
    /\ At(r, "gates") /\ RemainingSynthesis(request[r].retrieval) > 0
    /\ LET q == request[r]
       IN  \E a \in LocalCandidates(q.status, q.evidence) \cup {NoAnswer} :
             Set(r, [q EXCEPT !.stage = "generating", !.local = a, !.since = now,
                              !.due = now + RemainingSynthesis(q.retrieval)])
    /\ Keep

Timed(q) == [q EXCEPT !.synthesis = now - q.since]

\* _build_answer_response: grounded only if every key point's citations check.
Drafted(q) ==
    Insufficient(q.evidence) \cup
    {a \in [status : {"grounded_success"}, cites : SUBSET q.evidence,
            clean : BOOLEAN, long : BOOLEAN] :
        a.cites # {} /\ (a.clean => q.status = "success")}

\* _local_candidate_should_override: it must when only the local one is
\* grounded, and may when the generated one says less.
Guarded(q, a) ==
    IF q.local.status # "grounded_success" THEN {a}
    ELSE IF a.status # "grounded_success" THEN {q.local}
    ELSE {a, q.local}

\* Slip: the answer is cached before its length is checked.
SettleCachedFirst(r, q, a) ==
    /\ cache' = IF ShouldCache(a) THEN [cache EXCEPT ![q.key] = a] ELSE cache
    /\ UNCHANGED now
    /\ IF a.long
       THEN \E b \in Insufficient(q.evidence) :
               Set(r, Ending([q EXCEPT !.phase = "answer_tokens"], b, "pipeline"))
       ELSE Set(r, Ending(q, a, "pipeline"))

\* An answer over the token budget gives way to one that says so.
Settle(r, q, a) ==
    IF a.long THEN DeliverWithinBudget(r, q, "answer_tokens") ELSE DeliverAndCache(r, q, a)

GenerationReturns(r) ==
    /\ At(r, "generating")
    /\ LET q == request[r]
       IN  \E a \in Drafted(q) : \E b \in Guarded(q, a) : Settle(r, Timed(q), b)

\* ModelBackendError: no draft; what the evidence supports is quoted.
BackendFails(r) ==
    /\ At(r, "generating")
    /\ \E a \in Insufficient(request[r].evidence) : Deliver(r, Timed(request[r]), a)

\* The backend's TimeoutError, which may come before the timeout it was given.
GenerationTimesOut(r) ==
    /\ At(r, "generating")
    /\ DeliverWithinBudget(r, Timed(request[r]), "synthesis")

\* A draft that cannot be parsed: ValueError leaves the pipeline.
DraftUnreadable(r) ==
    /\ At(r, "generating")
    /\ Raise(r, Timed(request[r]))

-----------------------------------------------------------------------------
\* The clock stands still while a request runs, unless it generates, and once
\* the loop is free it goes on only when no timer has expired.
Tick ==
    /\ \E r \in Requests : request[r].stage \in Awaiting \cup InLoop
    /\ \A r \in Requests :
          LET q == request[r]
          IN  /\ q.stage \in InLoop => q.stage = "generating" /\ now < q.due + Overrun
              /\ LoopFree /\ q.stage \in Awaiting => now < HardCap(q)
              /\ LoopFree /\ q.stage \in AwaitingProbe => now < q.due
    /\ now' = now + 1
    /\ UNCHANGED <<request, cache>>

\* What r does when it has the loop
Run(r) ==
    \/ AnswerNothing(r)
    \/ \E a \in Answers : AnswerLocally(r, a) \/ Enrich(r, a)
    \/ SeekCoverage(r) \/ GoOn(r)
    \/ SkipProbe(r) \/ Probe(r)
    \/ EnrichmentFails(r) \/ Enriched(r)
    \/ FrontierUntried(r) \/ FrontierFails(r) \/ FrontierMerges(r)
    \/ AnswerGated(r) \/ AnswerOutOfTime(r) \/ Generate(r)
    \/ GenerationReturns(r) \/ BackendFails(r) \/ GenerationTimesOut(r)
    \/ DraftUnreadable(r)

\* What it is given while it waits
Wake(r) ==
    \/ \E status \in {"success", "partial", "failure_gaps"}, e \in SUBSET Records :
          RetrievalReturns(r, status, e)
    \/ \E hits \in SUBSET Records : ProbeReturns(r, hits)
    \/ RetrievalRaises(r) \/ ProbeRaises(r)

Next ==
    \/ \E r \in Requests :
          (\E k \in Keys : Arrive(r, k)) \/ Wake(r) \/ CapFires(r) \/ Run(r)
    \/ Tick

Spec == Init /\ [][Next]_vars

\* The loop runs what is ready and fires its timers, and the clock goes on;
\* neither an adapter nor retrieval ever has to return, the backend does.
Fairness ==
    /\ WF_vars(Tick)
    /\ \A r \in Requests :
          /\ WF_vars(Run(r))
          /\ WF_vars(CapFires(r))
          /\ WF_vars(ProbeTimesOut(r))

FairSpec == Spec /\ Fairness

-----------------------------------------------------------------------------
(* Properties *)

RequestStates ==
    [stage : {"new"} \cup Awaiting \cup InLoop \cup Ended, key : Keys, start : Nat,
     status : {"none", "success", "partial", "failure_gaps"},
     evidence : SUBSET Records, estimated : SUBSET Records,
     retrieval : Nat, probed : Nat, local : Answers, left : 0..MaxProbes,
     tried : BOOLEAN, found : SUBSET Records, since : Nat, due : Nat,
     answer : Answers, via : {"none", "cache", "pipeline", "cap"},
     phase : {"none", "request", "synthesis", "answer_tokens"},
     synthesis : Nat, finished : Nat]

\* Every variable has its type, and one request at most has the loop.
TypeOK ==
    /\ now \in Nat
    /\ request \in [Requests -> RequestStates]
    /\ cache \in [Keys -> Answers]
    /\ \A r, q \in Requests :
          request[r].stage \in InLoop /\ request[q].stage \in InLoop => r = q

\* The time a trace reports (retrieval, with the probes charged to it, plus
\* synthesis) is the time the request took, also when it waited for a loop
\* that another request's generation held (_build_runtime_trace).
MeasuredIsElapsed ==
    \A r \in Requests :
        LET q == request[r]
        IN  q.stage = "answered" => q.retrieval + q.synthesis = q.finished - q.start

\* Retrieval, probes and synthesis are each given what is left of one request
\* deadline: a probe leaves MinRemaining of it however many came before, and
\* the backend's timeout ends within it.
OneDeadline ==
    \A r \in Requests :
        LET q == request[r]
        IN  /\ q.stage \in AwaitingProbe => q.due <= q.start + RequestDeadline - MinRemaining
            /\ q.stage = "generating" => q.due <= q.start + RequestDeadline

\* With a backend that keeps its timeout, a request is answered within its hard
\* cap and the synthesis budget of each of the others, whose generations hold
\* the loop while its timers expire.
AnsweredInTime ==
    \A r \in Requests :
        LET q == request[r]
        IN  q.stage \in Ended =>
                q.finished <= HardCap(q) + Overrun
                              + (Cardinality(Requests) - 1) * (SynthesisDeadline + Overrun)

\* orchestrate.py:4855 and tests/test_request_deadline_guard.py:3 promise more:
\* no request outlives its hard cap, also when synthesis hangs.
WithinHardCap ==
    \A r \in Requests :
        request[r].stage \in Ended => request[r].finished <= HardCap(request[r])

\* An answer made here quotes only evidence that is reported with it, grounded
\* ones quote some, and the token estimate is of that evidence: whatever the
\* probes merged, and whichever of two candidates was delivered.
AnswerRestsOnReported ==
    \A r \in Requests :
        LET q == request[r]
        IN  q.stage = "answered" /\ q.via # "cache" =>
                /\ q.answer.cites \subseteq q.evidence
                /\ q.answer.status = "grounded_success" => q.answer.cites # {}
                /\ q.estimated = q.evidence

\* What is cached for a key was delivered to a request for it, grounded and
\* with nothing to own up to; a hit hands on such an answer, once it is there,
\* and only if it fits the budget.
CacheIsDelivered ==
    LET Delivered(k, a, t) ==
            \E r \in Requests :
                LET q == request[r]
                IN  q.via = "pipeline" /\ q.key = k /\ q.answer = a /\ q.finished <= t
    IN  /\ \A k \in Keys :
              cache[k] # NoAnswer =>
                  /\ cache[k].status = "grounded_success" /\ cache[k].clean
                  /\ Delivered(k, cache[k], now)
        /\ \A r \in Requests :
              LET q == request[r]
              IN  q.via = "cache" => ~q.answer.long /\ Delivered(q.key, q.answer, q.start)

\* Whatever retrieval and the probes do, hang included, each request that
\* arrives is answered or fails.
EveryRequestEnds ==
    \A r \in Requests : request[r].stage # "new" ~> request[r].stage \in Ended
=============================================================================
