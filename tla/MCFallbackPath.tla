---------------------------- MODULE MCFallbackPath ----------------------------
(***************************************************************************)
(* FallbackPath under the plans build_retrieval_plan really makes, with    *)
(* its budgets rounded up to ticks of two seconds.                         *)
(***************************************************************************)
EXTENDS FallbackPath, PlanTables

CONSTANTS Labels, MCMarkers

MCPlans ==
    {PlanOf(c, q, 20) :
        c \in {d \in Classifications : d.label \in Labels},
        q \in {m \in Markers : \A k \in DOMAIN m : m[k] => k \in MCMarkers}}

\* The proofs of FallbackPath ask PlanShape of a plan, that its chains do not meet
\* included: every plan build_retrieval_plan makes has it, not only those of a run.
ASSUME EveryPlanIsShaped == \A c \in Classifications, q \in Markers : PlanShape(PlanOf(c, q, 20))
=============================================================================
