------------------------------ MODULE WaveState ------------------------------
(***************************************************************************)
(* The first wave of src/skill/retrieval/engine.py: what run_retrieval     *)
(* hands to _run_first_wave, the state of the wave and of its tasks, and   *)
(* what the wave promises.  FirstWave has the steps; RetrievalRun shares   *)
(* this state with the rest of the retrieval.                              *)
(***************************************************************************)
EXTENDS Integers, FiniteSets

CONSTANTS
    N,              \* number of steps in plan.first_wave_sources (never empty here)
    ConcurrencyCap, \* plan.global_concurrency_cap
    SourceTimeout,  \* per_source_timeout_seconds, in ticks, positive in every plan
    WaveTimeout,    \* overall_timeout_seconds of the wave, in ticks, likewise
    UnwindMax,      \* the longest an adapter takes to unwind when cancelled
    EarlyStop       \* steps whose hits stop the wave (web discovery, marked query)

Steps == 1..N

ASSUME WaveConstants ==
    /\ N \in Nat \ {0}
    /\ ConcurrencyCap \in Int
    /\ SourceTimeout \in Nat \ {0}
    /\ WaveTimeout \in Nat \ {0}
    /\ UnwindMax \in Nat
    /\ EarlyStop \subseteq Steps

\* asyncio.Semaphore(max(1, concurrency_cap))
Permits == IF ConcurrencyCap < 1 THEN 1 ELSE ConcurrencyCap

VARIABLES
    now,          \* loop.time(), zero when the wave starts
    wave,         \* where _run_first_wave is
    stoppedEarly, \* its local stopped_early
    phase,        \* where the task of each step is
    permits,      \* the semaphore's value
    deadline,     \* deadline_at of each step's task
    unwindBy,     \* the latest time a cancelled adapter is gone
    result,       \* what the task of each step returned or raised
    bySource      \* by_source: what the wave reports for each step

Reasons == {"ok", "no_hits", "timeout", "rate_limited", "adapter_error"}
\* A task may also raise (a hit _normalize_hits cannot read) or end cancelled, by the
\* wave or by a CancelledError out of its adapter.
TaskResults == Reasons \cup {"raised", "cancelled"}

Phases == {"created", "waiting", "granted", "running", "expiring",
           "cancelling", "done"}

\* Steps that own a permit: granted ones own it before they resume.
Owning(ph) == {i \in Steps : ph[i] \in {"granted", "running", "expiring", "cancelling"}}

Reported(r, late) == [reason |-> r, byDeadline |-> late]
Unreported == [reason |-> "none", byDeadline |-> FALSE]

TypeOK ==
    /\ now \in Nat
    /\ wave \in {"waiting", "draining", "returned", "abandoned"}
    /\ stoppedEarly \in BOOLEAN
    /\ phase \in [Steps -> Phases]
    /\ permits \in 0..Permits
    /\ deadline \in [Steps -> Nat]
    /\ unwindBy \in [Steps -> Nat]
    /\ result \in [Steps -> TaskResults \cup {"none"}]
    /\ bySource \in [Steps -> [reason : Reasons \cup {"none"}, byDeadline : BOOLEAN]]

\* What the wave reports for a task that ended by itself.
Collected(r) ==
    Reported(IF r \in Reasons THEN r ELSE "adapter_error", FALSE)

-----------------------------------------------------------------------------
(* What the wave promises, whatever plan it is given *)

\* Every permit is either free or owned by exactly one step, whatever was
\* cancelled, timed out or raised on the way: try/finally in _run_source_step
\* around a semaphore whose grant can race a cancellation.
PermitAccounting == permits + Cardinality(Owning(phase)) = Permits

\* "Hard per-source and overall budgets" (run_retrieval's docstring): the wave
\* is over by its deadline plus the unwinding of one adapter, and a step that
\* queued for its permit gets no more time than one that did not.
HardBudgets ==
    /\ wave \in {"waiting", "draining"} => now <= WaveTimeout + UnwindMax
    /\ \A i \in Steps : phase[i] \in {"waiting", "granted", "running"} =>
                           now <= SourceTimeout

\* The report of a step is what its task returned: work that finished is never
\* overwritten by the timeout given to the tasks that were cut.
FinishedWorkKept ==
    \A i \in Steps : bySource[i] # Unreported =>
        bySource[i].reason = IF result[i] = "cancelled" THEN "timeout"
                                                        ELSE Collected(result[i]).reason

\* A wave that returned has left no task behind and reports every step.
NoOrphans == wave = "returned" =>
    \A i \in Steps : phase[i] = "done" /\ bySource[i] # Unreported

StartsNone == \A i \in Steps : phase[i] # "running" => phase'[i] # "running"
\* Once the wave has cut its tasks, a permit they give back starts no other.
NoCallAfterCut == [][(wave \in {"draining", "returned"}) => StartsNone]_phase
=============================================================================
