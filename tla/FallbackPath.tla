----------------------------- MODULE FallbackPath -----------------------------
(***************************************************************************)
(* What src/skill/retrieval/engine.py does once the first wave is over:    *)
(* _run_mixed_pooled_path may answer a mixed query from the wave alone;    *)
(* else _run_standard_retrieval_path takes the steps in plan order and, for*)
(* each that failed, follows its backups one call at a time until one      *)
(* delivers, none is left, or the deadline of the whole retrieval passes.  *)
(*                                                                         *)
(* The hits of a source are known by the source they came from.  A call of *)
(* _run_source_step is one action that takes any time it is allowed to.    *)
(***************************************************************************)
EXTENDS EnginePlans

CONSTANTS
    Plans,       \* the plans run_retrieval may be given
    AstaTimeout, \* _ACADEMIC_ASTA_FALLBACK_TIMEOUT_SECONDS, in ticks
    UnwindMax    \* the longest an adapter takes to unwind when cancelled

ASSUME FallbackConstants ==
    /\ \A p \in Plans : PlanShape(p)
    /\ AstaTimeout \in Nat
    /\ UnwindMax \in Nat

VARIABLES
    plan,       \* the RetrievalPlan
    now,        \* loop.time(), zero when run_retrieval starts
    results,    \* first_wave_results, by the step's position
    stage,      \* where run_retrieval is
    at,         \* the position of the step the loop is at
    chain,      \* the locals of the while loop for that step
    attempts,   \* all_attempt_results
    found,      \* final_hits
    unresolved, \* unresolved_reasons: their order is that of the positions
    gaps,       \* unresolved_gaps
    outcome     \* the RetrievalExecutionOutcome

vars == <<plan, now, results, stage, at, chain, attempts, found, unresolved,
          gaps, outcome>>

\* A success whose hits miss the query's focus is weak; only the metadata
\* source of an academic plan is held to that (_academic_success_requires_fallback).
Delivered == {"ok", "weak"}
Results == Delivered \cup FailureReasons
CanBeWeak(p, i) == p.academic /\ p.steps[i].source = "academic_semantic_scholar"

Positions == 1..Len(plan.steps)
SourceAt(i) == plan.steps[i].source

Attempt(i, s, r) == [at |-> i, source |-> s, result |-> r]
Unresolved(i, r) == [at |-> i, reason |-> r]

NoChain == [current |-> NoBackup, reason |-> "no_hits", visited |-> {}, gaps |-> {}]
NoOutcome == [status |-> "none", reason |-> "none", gaps |-> {}, hits |-> {}]

ChainStates == [current : SourceIds \cup {NoBackup}, reason : FailureReasons,
                visited : SUBSET SourceIds, gaps : SUBSET SourceIds]
Outcomes == [status : {"none", "success", "partial", "failure_gaps"},
             reason : FailureReasons \cup {"none"},
             gaps : SUBSET SourceIds, hits : SUBSET SourceIds]

TypeOK ==
    /\ PlanShape(plan)
    /\ now \in Nat
    /\ results \in [Positions -> Results]
    /\ stage \in {"pooling", "walking", "chain", "pooled", "done", "raised"}
    /\ at \in 1..Len(plan.steps) + 1
    /\ chain \in ChainStates
    /\ attempts \in Seq([at : Positions, source : SourceIds, result : Results])
    /\ found \subseteq SourceIds
    /\ unresolved \subseteq [at : Positions, reason : FailureReasons]
    /\ gaps \subseteq SourceIds
    /\ outcome \in Outcomes

Init ==
    /\ plan \in Plans
    /\ now \in 0..plan.waveTimeout + UnwindMax
    /\ results \in [Positions -> Results]
    /\ \A i \in Positions : results[i] = "weak" => CanBeWeak(plan, i)
    /\ stage = IF plan.pooled THEN "pooling" ELSE "walking"
    /\ at = 1
    /\ chain = NoChain
    /\ attempts = << >>
    /\ found = {}
    /\ unresolved = {}
    /\ gaps = {}
    /\ outcome = NoOutcome

\* unresolved_reasons[0], of a nonempty unresolved_reasons
FirstReason(us) == (CHOOSE u \in us : \A v \in us : u.at <= v.at).reason

Verdict(status, us, gs, hits) ==
    [status |-> status, reason |-> IF us = {} THEN "none" ELSE FirstReason(us),
     gaps |-> gs, hits |-> hits]

-----------------------------------------------------------------------------
(* _run_mixed_pooled_path *)

WaveHits(supplemental) ==
    {SourceAt(i) : i \in {j \in Positions : results[j] = "ok"
                             /\ plan.steps[j].supplemental = supplemental}}

Failed == {i \in Positions : results[i] \notin Delivered}

\* _shortlist_mixed_hits: the top hit of each side and further hits by rank.
Shortlists ==
    {hits \in SUBSET (WaveHits(FALSE) \cup WaveHits(TRUE)) :
        hits \cap WaveHits(FALSE) # {} /\ hits \cap WaveHits(TRUE) # {}}

\* Both sides of the mix have a viable top hit.
Pool ==
    /\ stage = "pooling"
    /\ \E hits \in Shortlists :
        /\ unresolved' = {Unresolved(i, results[i]) : i \in Failed}
        /\ gaps' = {SourceAt(i) : i \in Failed}
        /\ found' = hits
        /\ attempts' = [i \in Positions |-> Attempt(i, SourceAt(i), results[i])]
        /\ outcome' = Verdict(IF Failed = {} THEN "success" ELSE "partial",
                              unresolved', gaps', hits)
    /\ at' = Len(plan.steps) + 1
    /\ stage' = "pooled"
    /\ UNCHANGED <<plan, now, results, chain>>

\* A side has no hits, or none that is viable.
PoolDeclines ==
    /\ stage = "pooling"
    /\ stage' = "walking"
    /\ UNCHANGED <<plan, now, results, at, chain, attempts, found, unresolved, gaps, outcome>>

-----------------------------------------------------------------------------
(* _run_standard_retrieval_path *)

OwnAttempt == Append(attempts, Attempt(at, SourceAt(at), results[at]))

\* The step delivered in the wave.
TakeHits ==
    /\ stage = "walking" /\ at \in Positions
    /\ results[at] = "ok"
    /\ attempts' = OwnAttempt
    /\ found' = found \cup {SourceAt(at)}
    /\ at' = at + 1
    /\ UNCHANGED <<plan, now, results, stage, chain, unresolved, gaps, outcome>>

\* It failed, or its hits are weak and stay provisional.
OpenChain ==
    /\ stage = "walking" /\ at \in Positions
    /\ results[at] # "ok"
    /\ attempts' = OwnAttempt
    /\ chain' = [current |-> SourceAt(at),
                 reason |-> IF results[at] = "weak" THEN "no_hits" ELSE results[at],
                 visited |-> {SourceAt(at)},
                 gaps |-> IF results[at] = "weak" THEN {} ELSE {SourceAt(at)}]
    /\ stage' = "chain"
    /\ UNCHANGED <<plan, now, results, at, found, unresolved, gaps, outcome>>

\* allowed_fallback_transitions
Target ==
    IF chain.reason \in ChainReasons THEN plan.backup[chain.current][chain.reason]
                                     ELSE NoBackup

\* Slip: the rule of mixed plans forgotten.
SkipsAstaAcademicOnly ==
    /\ Target = "academic_asta_mcp"
    /\ plan.academic
    /\ \E i \in Positions : SourceAt(i) # chain.current /\ results[i] \in Delivered

\* _skip_academic_asta_fallback: another source of the wave delivered already.
SkipsAsta ==
    /\ Target = "academic_asta_mcp"
    /\ \E i \in Positions :
        /\ SourceAt(i) # chain.current
        /\ results[i] \in Delivered
        /\ \/ plan.mixed /\ plan.steps[at].supplemental
           \/ plan.academic /\ SourceAt(i) \in Metadata

\* Slip: the sources the chain came through forgotten.
HasBackupAgain == Target \in SourceIds /\ ~SkipsAsta

HasBackup == Target \in SourceIds \ chain.visited /\ ~SkipsAsta

\* Slip: a skipped backup is passed over without leaving the loop.
ChainEndsUnlessSkipped == Target \notin SourceIds \ chain.visited

ChainEnds == ~HasBackup

\* Slip: the provisional hits forgotten.
NoProvisional == {}

\* provisional_hits
Provisional == IF results[at] = "weak" THEN {SourceAt(at)} ELSE {}

Close ==
    /\ chain' = NoChain
    /\ at' = at + 1
    /\ stage' = "walking"

\* Slip: only the last failure of the chain becomes a gap.
LastGap == {chain.current}

\* chain_gaps, where the chain is not recovered
LostGaps == chain.gaps

GiveUp(reason) ==
    /\ found' = found \cup Provisional
    /\ unresolved' = unresolved \cup {Unresolved(at, reason)}
    /\ gaps' = gaps \cup LostGaps
    /\ Close

\* The deadline comes first: also a step without a backup is then a timeout.
OutOfTime ==
    /\ stage = "chain"
    /\ now >= plan.overall
    /\ GiveUp("timeout")
    /\ UNCHANGED <<plan, now, results, attempts, outcome>>

NoBackupLeft ==
    /\ stage = "chain"
    /\ now < plan.overall
    /\ ChainEnds
    /\ GiveUp(chain.reason)
    /\ UNCHANGED <<plan, now, results, attempts, outcome>>

\* Slip: a backup may take its full per-source timeout, whatever is left.
FullTimeout(s) == plan.perSource

AtMost(a, b) == IF a <= b THEN a ELSE b

\* _fallback_timeout_seconds
CallTimeout(s) ==
    LET time == AtMost(plan.perSource, plan.overall - now) IN
    IF s = "academic_asta_mcp" THEN AtMost(time, AstaTimeout) ELSE time

\* The backup is called; a cancelled adapter may outlive its timeout a little.
CallEnds == \E d \in 0..CallTimeout(Target) + UnwindMax : now' = now + d

CallAllowed == stage = "chain" /\ now < plan.overall /\ HasBackup

BackupDelivers ==
    /\ CallAllowed
    /\ CallEnds
    /\ attempts' = Append(attempts, Attempt(at, Target, "ok"))
    /\ found' = found \cup Provisional \cup {Target}
    /\ Close
    /\ UNCHANGED <<plan, results, unresolved, gaps, outcome>>

\* Slip: the chain goes on with the reason it began with.
ReasonKept(r) == chain.reason

\* failure_reason after a backup failed with r
ReasonAfter(r) == r

BackupFails ==
    /\ CallAllowed
    /\ CallEnds
    /\ \E r \in FailureReasons :
        /\ attempts' = Append(attempts, Attempt(at, Target, r))
        /\ chain' = [current |-> Target, reason |-> ReasonAfter(r),
                     visited |-> chain.visited \cup {Target},
                     gaps |-> chain.gaps \cup {Target}]
    /\ UNCHANGED <<plan, results, stage, at, found, unresolved, gaps, outcome>>

\* A payload _normalize_hits cannot read: in the wave the task's exception was
\* turned into adapter_error, here it leaves run_retrieval.  A CancelledError of
\* the adapter does so here and there.
BackupRaises ==
    /\ CallAllowed
    /\ CallEnds
    /\ stage' = "raised"
    /\ UNCHANGED <<plan, results, at, chain, attempts, found, unresolved, gaps, outcome>>

\* Slip: any gap makes a failure.
StatusByGaps ==
    IF gaps # {} THEN "failure_gaps" ELSE IF unresolved = {} THEN "success" ELSE "partial"

FinalStatus ==
    IF found = {} THEN "failure_gaps"
    ELSE IF unresolved = {} THEN "success" ELSE "partial"

Conclude ==
    /\ stage = "walking" /\ at \notin Positions
    /\ stage' = "done"
    /\ outcome' = Verdict(FinalStatus, unresolved, gaps, found)
    /\ UNCHANGED <<plan, now, results, at, chain, attempts, found, unresolved, gaps>>

CallBackup == BackupDelivers \/ BackupFails \/ BackupRaises

Next ==
    Pool \/ PoolDeclines \/ TakeHits \/ OpenChain \/ OutOfTime \/ NoBackupLeft
        \/ CallBackup \/ Conclude

Spec == Init /\ [][Next]_vars

\* Every call is bounded by its timeout, so the coroutine is always resumed.
FairSpec == Spec /\ WF_vars(Next)

-----------------------------------------------------------------------------
(* What a retrieval promises *)

\* "Hard per-source and overall budgets" (run_retrieval's docstring), of the
\* second half: however many backups are tried one after the other, the run
\* passes its deadline by the unwinding of one adapter at most.
WithinBudget == now <= plan.overall + UnwindMax

SourcesOf(P(_)) == {attempts[k].source : k \in {j \in 1..Len(attempts) : P(attempts[j])}}
Delivers(a) == a.result \in Delivered

\* Hits that arrived are never dropped on the standard path: neither when a later
\* step fails, nor provisional ones when the better source fails too.
HitsKept == stage = "done" => outcome.hits = SourcesOf(Delivers)

Explains(a) == a.result \notin Delivered /\ \E u \in unresolved : u.at = a.at

\* The gaps are the sources that failed for a step nobody answered, all of them
\* and no other: a recovered chain leaves no gap.
GapsExplain == stage \in {"done", "pooled"} => outcome.gaps = SourcesOf(Explains)

\* What the API's RetrieveOutcome refuses is never produced: its validators would
\* turn a finished retrieval into an error.
SchemaAccepts ==
    /\ outcome.status = "failure_gaps" => outcome.gaps # {}
    /\ outcome.status = "success" => outcome.reason = "none"
    /\ outcome.status \in {"partial", "failure_gaps"} => outcome.reason \in FailureReasons

LastFor(i) ==
    LET own == {k \in 1..Len(attempts) : attempts[k].at = i} IN
    attempts[CHOOSE k \in own : \A j \in own : j <= k].result

\* The reason given is that of the last attempt for the first step left open (a
\* weak success counts as no hits), or the deadline that cut its chain.
ReasonHonest ==
    outcome.reason \in FailureReasons =>
        LET first == CHOOSE u \in unresolved : \A v \in unresolved : u.at <= v.at
            last == LastFor(first.at)
        IN  \/ outcome.reason = IF last = "weak" THEN "no_hits" ELSE last
            \/ outcome.reason = "timeout" /\ now >= plan.overall

\* No source is called twice for one retrieval: neither a chain that comes back to
\* where it was, as the industry backups do, nor the chains of two steps.
AskedOnce ==
    \A j, k \in 1..Len(attempts) : attempts[j].source = attempts[k].source => j = k

\* The metadata search of academic_asta_mcp is a last resort: an academic plan calls it when
\* no metadata source has anything, a supplement when nothing of the wave has.
AstaIsLastResort ==
    \A k \in 1..Len(attempts) :
        attempts[k].source = "academic_asta_mcp" =>
            /\ plan.academic => \A j \in 1..k - 1 : ~Delivers(attempts[j])
            /\ plan.mixed /\ plan.steps[attempts[k].at].supplemental =>
                 \A i \in Positions : results[i] \notin Delivered

Settled ==
    [i \in Positions |->
        IF \E u \in unresolved : u.at = i
          THEN IF results[i] = "weak" THEN "weak" ELSE "lost"
          ELSE IF i < at THEN "answered" ELSE "open"]

Contract == INSTANCE RetrievalContract WITH settled <- Settled, verdict <- outcome.status

\* Each step is settled once and for good and the status is the one the
\* settlement calls for, on both paths.
SettlesByContract == Contract!Spec

\* The loops over steps and backups end.
Terminates == <>(stage \in {"pooled", "done", "raised"})
=============================================================================
