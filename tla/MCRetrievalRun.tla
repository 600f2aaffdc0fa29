---------------------------- MODULE MCRetrievalRun ----------------------------
(***************************************************************************)
(* RetrievalRun under two plans as build_retrieval_plan makes them: three  *)
(* industry sources, which a marked query lets web discovery stop early,   *)
(* and a mix of academic and industry sources with backups on both sides.  *)
(* Each has its own length of a tick, in tenths of a second.               *)
(***************************************************************************)
EXTENDS RetrievalRun, PlanTables

CONSTANTS SingleTick, MixedTick

Query(marked) == CHOOSE m \in Markers : \A k \in DOMAIN m : m[k] <=> k \in marked

SinglePlan ==
    PlanOf(Concrete("industry"),
           Query({}), SingleTick)

MixedPlan ==
    PlanOf(MixOf("academic", "industry"),
           Query({"impact"}), MixedTick)

BothPlans == {SinglePlan, MixedPlan}
OnlySingle == {SinglePlan}
=============================================================================
