---------------------------- MODULE RetrievalPlan ----------------------------
(***************************************************************************)
(* src/skill/orchestrator/retrieval_plan.py: build_retrieval_plan takes    *)
(* the first wave of a classified query and walks the backup chain, whose  *)
(* industry part is cyclic, to list the fallback steps the engine may take.*)
(* The walk of _build_fallback_steps is a worklist and is modelled as one, *)
(* an iteration a step.  The code pops the oldest pending step; here any   *)
(* one may be next, so the checks say the order does not matter.           *)
(***************************************************************************)
EXTENDS PlanTables, FiniteSets

VARIABLES
    class,     \* the ClassificationResult and the query's markers
    firstWave, \* first_wave_sources
    pending,   \* pending_steps of the worklist
    processed, \* processed_steps
    fallbacks, \* fallback_sources, as the set of its transitions
    built      \* whether build_retrieval_plan has returned

vars == <<class, firstWave, pending, processed, fallbacks, built>>

\* A transition: when `from` fails with `on`, the engine may take `step`.
Transition(from, on, step) == [from |-> from, on |-> on, step |-> step]

Triggers(s, t) == {r \in ChainReasons : SourceBackupChain[s][r] = t}

\* Backups of s that are not in the first wave already.
Backups(s) == {t \in SourceIds \ IdsOf(firstWave) : Triggers(s, t) # {}}

\* Slip: a target is followed only when every reason leads to it.
FollowsWhenAll(s, t, known) == Triggers(s, t) = ChainReasons

\* The walk goes on from a target each time it meets one that has its entry: on
\* the target's second reason, or when s was walked from elsewhere before.  A
\* target with a single reason is not followed from here.
Follows(s, t, known) == known \/ Cardinality(Triggers(s, t)) > 1

Known(s, t) == \E f \in fallbacks : f.from = s /\ f.step.source = t

Inherited(head, t) == Step(t, head.step.route, head.step.supplemental)

\* The entry's step keeps the route and side of the chain that made it first.
EntryStep(head, t) ==
    IF Known(head.step.source, t)
      THEN (CHOOSE f \in fallbacks : f.from = head.step.source /\ f.step.source = t).step
      ELSE Inherited(head, t)

EntriesOf(head) ==
    LET s == head.step.source IN
    UNION {{Transition(s, r, EntryStep(head, t)) : r \in Triggers(s, t)} : t \in Backups(s)}

\* A queued step is known by its step_key: the step and the source it backs up.
Queued(from, step) == [from |-> from, step |-> step]

FollowedBy(head) ==
    LET s == head.step.source IN
    {Queued(s, EntryStep(head, t)) :
        t \in {u \in Backups(s) : Follows(s, u, Known(s, u))}}

\* Slip: the walk does not remember what it processed.
RememberNothing(head) == processed

Remember(head) == processed \cup {head}

Init ==
    \E c \in Classifications, q \in Markers :
        /\ class = [result |-> c, markers |-> q]
        /\ firstWave = FirstWaveOf(c, q)
        /\ pending = IF IsAcademicPlan(c) THEN {}
                     ELSE {Queued(NoRoute, firstWave[i]) : i \in 1..Len(firstWave)}
        /\ processed = {}
        /\ fallbacks = {}
        /\ built = FALSE

\* One iteration of the worklist; a step_key met again is skipped.
WalkHead ==
    /\ ~built
    /\ \E head \in pending :
        /\ processed' = Remember(head)
        /\ fallbacks' = fallbacks \cup EntriesOf(head)
        /\ pending' = (pending \cup FollowedBy(head)) \ processed'
    /\ UNCHANGED <<class, firstWave, built>>

\* A chain written out by hand, each link tried on every reason.
LinksOf(chain, route, supplemental) ==
    UNION {{Transition(chain[i], r, Step(chain[i + 1], route, supplemental)) :
              r \in ChainReasons} : i \in 1..Len(chain) - 1}

\* The supplement's own chain replaces its steps of the walk.
Replaced(route, chain) ==
    {f \in fallbacks : ~ (f.step.route = route /\ f.step.supplemental)}
        \cup LinksOf(chain, route, TRUE)

Finish ==
    /\ ~built
    /\ pending = {}
    /\ built' = TRUE
    /\ LET c == class.result
           chain == HandChain(c, class.markers) IN
       fallbacks' = IF IsAcademicPlan(c) THEN LinksOf(chain, "academic", FALSE)
                    ELSE IF chain = << >> THEN fallbacks
                    ELSE Replaced(c.supplement, chain)
    /\ UNCHANGED <<class, firstWave, pending, processed>>

Next == WalkHead \/ Finish

Spec == Init /\ [][Next]_vars

-----------------------------------------------------------------------------
(* What a plan promises the engine *)

Entries(s, r) == {f \in fallbacks : f.from = s /\ f.on = r}

\* The sources the fallback chain of s may call: the longest has as many links
\* as there are sources.
Reach(s) ==
    LET next(S) == {f.step.source : f \in {g \in fallbacks : g.from \in S}}
        after[n \in 0..Cardinality(SourceIds)] ==
            IF n = 0 THEN next({s})
            ELSE LET S == after[n - 1] IN S \cup next(S)
    IN  after[Cardinality(SourceIds)]

\* The walk follows a target only on its second reason and swaps whole chains
\* afterwards, and still every source the engine can stand at has for each
\* failure the backup the table gives it, and one only.
PlanMatchesTable ==
    built => \A s \in IdsOf(firstWave) \cup {f.step.source : f \in fallbacks}, r \in ChainReasons :
        {f.step.source : f \in Entries(s, r)} =
            {BackupOf(class.result, class.markers, s, r)} \ {NoBackup}

\* No source is called twice in one retrieval: what the chains of two first-wave
\* steps may call is disjoint, and none of it is in the first wave.
ChainsDisjoint ==
    built => \A s, t \in IdsOf(firstWave) :
        /\ t \notin Reach(s)
        /\ s # t => Reach(s) \cap Reach(t) = {}

\* A backup answers for the side of the mix it stands in for: the engine and the
\* evidence pack tell primary hits from supplemental ones by the step.
BackupsKeepSide ==
    built => \A i \in 1..Len(firstWave), f \in fallbacks :
        f.from \in Reach(firstWave[i].source) \cup {firstWave[i].source} =>
            /\ f.step.route = firstWave[i].route
            /\ f.step.supplemental = firstWave[i].supplemental

\* What the engine relies on in a plan it is given, whatever the order of the walk.
PlanSound == PlanMatchesTable /\ ChainsDisjoint /\ BackupsKeepSide
=============================================================================
