---------------------------- MODULE RetrievalRun ----------------------------
(***************************************************************************)
(* src/skill/retrieval/engine.py: run_retrieval as a whole.  FirstWave runs*)
(* until it returns, its reports become the results FallbackPath works     *)
(* from, and both run on one clock against one deadline.                   *)
(***************************************************************************)
EXTENDS SourceCatalog, WaveState, Sequences

CONSTANTS
    Plans, AstaTimeout,
    MixedWaveTimeout  \* of the wave of a mix, which nothing stops early; WaveTimeout
                      \* and EarlyStop are of the wave of a plan of one route

VARIABLES plan, results, stage, at, chain, attempts, found, unresolved, gaps, outcome

\* _should_stop_first_wave_early: hits of web discovery, in a single industry plan
\* (the query is taken to have one of its markers).
EarlyStopOf(p) ==
    {i \in 1..Len(p.steps) : ~p.mixed /\ p.steps[i].source = "industry_web_discovery"}

Single == INSTANCE FirstWave
Mixed == INSTANCE FirstWave WITH WaveTimeout <- MixedWaveTimeout, EarlyStop <- {}
F == INSTANCE FallbackPath

\* The wave is given the plan's own steps and budgets.
ASSUME WaveOfPlan ==
    /\ Mixed!WaveConstants /\ F!FallbackConstants
    /\ \A p \in Plans :
        /\ Len(p.steps) = N /\ p.perSource = SourceTimeout
        /\ p.waveTimeout = IF p.mixed THEN MixedWaveTimeout ELSE WaveTimeout
        /\ EarlyStopOf(p) = IF p.mixed THEN {} ELSE EarlyStop

\* What each half keeps for itself; the clock is common.
waveVars == <<wave, stoppedEarly, phase, permits, deadline, unwindBy, result, bySource>>
pathVars == <<plan, results, stage, at, chain, attempts, found, unresolved, gaps, outcome>>
vars == <<now, waveVars, pathVars>>

Init ==
    /\ plan \in Plans
    /\ IF plan.mixed THEN Mixed!Init ELSE Single!Init
    /\ results = [i \in 1..Len(plan.steps) |-> "none"]
    /\ stage = "wave"
    /\ at = 1
    /\ chain = F!NoChain
    /\ attempts = << >>
    /\ found = {}
    /\ unresolved = {}
    /\ gaps = {}
    /\ outcome = F!NoOutcome

\* The wave, and after an outer cancellation its tasks.
WaveStep ==
    /\ stage = "wave" /\ wave # "returned"
    /\ \/ ~plan.mixed /\ Single!Next
       \/ plan.mixed /\ Mixed!Next
    /\ UNCHANGED pathVars

\* Slip: the reports are matched with the steps by position, and are one off.
OneOff(i) == bySource[(i % N) + 1].reason

\* first_wave_results[source_id]
ResultOf(i) == bySource[i].reason

\* first_wave_results are complete; the hits of a step may turn out weak.
HandOver ==
    /\ stage = "wave" /\ wave = "returned"
    /\ results' \in [1..Len(plan.steps) -> F!Results]
    /\ \A i \in F!Positions :
          \/ results'[i] = ResultOf(i)
          \/ results'[i] = "weak" /\ ResultOf(i) = "ok" /\ F!CanBeWeak(plan, i)
    /\ stage' = IF plan.pooled THEN "pooling" ELSE "walking"
    /\ UNCHANGED <<now, waveVars, plan, at, chain, attempts, found, unresolved, gaps, outcome>>

\* The pooled and the standard path.
PathStep ==
    /\ stage # "wave"
    /\ F!Next
    /\ UNCHANGED waveVars

Next == WaveStep \/ HandOver \/ PathStep

Spec == Init /\ [][Next]_vars

\* Fair to the event loop only: WaveStep is whatever it does without an answer
\* of an adapter and without the caller; calls of backups are bounded.
LoopStep ==
    /\ \/ ~plan.mixed /\ Single!LoopStep
       \/ plan.mixed /\ Mixed!LoopStep
    /\ UNCHANGED pathVars
FairSpec == Spec /\ WF_vars(LoopStep) /\ WF_vars(HandOver) /\ WF_vars(PathStep)

-----------------------------------------------------------------------------

\* "Hard per-source and overall budgets": the wave and the backups together end
\* by the deadline of the plan plus the unwinding of one adapter, whether or not
\* the wave used all its time.
WholeBudget == wave # "abandoned" => now <= plan.overall + UnwindMax

\* A source reported as a gap did not deliver in the wave, and one whose hits
\* are returned did: the two halves agree on who delivered.
ReportsTrue ==
    \A i \in F!Positions : outcome.status # "none" =>
        LET s == plan.steps[i].source IN
        /\ s \in outcome.gaps => result[i] # "ok"
        /\ s \in outcome.hits => result[i] = "ok"

\* A retrieval ends, whatever the adapters do; when the caller abandons it in the
\* first wave, or an adapter's own CancelledError does, the tasks the wave leaves
\* behind end by themselves.
RunEnds ==
    <>(/\ IF plan.mixed THEN Mixed!Over ELSE Single!Over
       /\ wave = "returned" => stage \in {"pooled", "done", "raised"})

\* The test of the early stop (tests/test_retrieval_fallback.py:617, :674) holds
\* it for a success: the hits of web discovery are there, and the steps that
\* failed are the ones the wave cut because of them.
EarlyStopIsSuccess ==
    stoppedEarly /\ stage = "done" /\ (\A i \in F!Positions : result[i] \in {"ok", "cancelled"})
        => outcome.status = "success"
=============================================================================
