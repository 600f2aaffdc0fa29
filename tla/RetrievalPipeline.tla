-------------------------- MODULE RetrievalPipeline --------------------------
(***************************************************************************)
(* A retrieval from the classified query to the response: the plan of      *)
(* RetrievalPlan, then src/skill/retrieval/orchestrate.py, which orders    *)
(* the hits of run_retrieval, merges duplicates, ranks the records, packs  *)
(* them (EvidencePack) and shapes the response.  Of run_retrieval only the *)
(* hits count here, and they may be any its plan's sources can return;     *)
(* RetrievalRun models how it finds them.                                  *)
(***************************************************************************)
EXTENDS Evidence, EvidencePack

CONSTANTS
    Outcomes,       \* what run_retrieval may return, in any order
    FollowedMarkers \* bound: the markers of the queries followed to a response

ASSUME OutcomesAreHits == \A found \in Outcomes : found \in Seq(Hits)

VARIABLES class, firstWave, pending, processed, fallbacks, built

VARIABLES
    stage,   \* where the pipeline is
    hits,    \* prioritized_hits
    at,      \* the hit the loops over records are at
    groups,  \* grouped records, as places in hits
    response \* canonical_evidence of the response

Plan == INSTANCE RetrievalPlan

planVars == <<class, firstWave, pending, processed, fallbacks, built>>
packVars == <<records, kept, clipped, pruned, packing>>
ownVars == <<stage, hits, at, groups, response>>
allVars == <<planVars, packVars, ownVars>>

IsMix == class.result.label = "mixed"
HasSupplement == class.result.supplement # NoRoute

PlannedSteps == {firstWave[i] : i \in DOMAIN firstWave} \cup {f.step : f \in fallbacks}
StepOf(source) == CHOOSE s \in PlannedSteps : s.source = source

\* Slip: only the sources of the first wave are looked up.
FirstWaveRole(h) ==
    IF \E i \in DOMAIN firstWave : firstWave[i].source = h.source /\ firstWave[i].supplemental
      THEN "supplemental" ELSE "primary"

\* The engine writes the route of its step on each hit; the side of its source
\* counts only for a route that is neither side's.
RouteRole(h) ==
    LET target == StepOf(h.source).route IN
    IF target = class.result.primary THEN "primary"
    ELSE IF target = class.result.supplement THEN "supplemental"
    ELSE IF StepOf(h.source).supplemental THEN "supplemental" ELSE "primary"

-----------------------------------------------------------------------------
(* _order_records_for_response and _seed_mixed_coverage_records *)

MatchOf(r) == Max({0} \cup {s.match : s \in r.slices})
Tier(r) == hits[r.raws[1]].tier

ResponseKey(r) ==
    IF ~IsMix /\ class.result.primary = "industry"
      THEN <<-MatchOf(r), Tier(r)>> \o r.id \o <<r.raws[1]>>
      ELSE <<-MatchOf(r), -Score(r, r.slices)>> \o r.id \o <<r.raws[1]>>

\* The best of each side first, then the rest of the one and of the other.
InterleaveMixed(p, s) ==
    IF p = << >> \/ s = << >> THEN p \o s ELSE <<p[1], s[1]>> \o Tail(p) \o Tail(s)

Ordered(S) ==
    LET side(role) == SortedBy({r \in S : r.role = role}, ResponseKey) IN
    IF IsMix THEN InterleaveMixed(side("primary"), side("supplemental"))
             ELSE SortedBy(S, ResponseKey)

\* The first record with each evidence_id.
Distinct(list) ==
    LET new == {i \in DOMAIN list : \A j \in 1..i - 1 : list[j].id # list[i].id}
        place == SortedBy(new, LAMBDA i : <<i>>)
    IN  [i \in DOMAIN place |-> list[place[i]]]

BestMatches(list, role) ==
    LET side == SelectSeq(list, LAMBDA r : r.role = role) IN
    side # << >> /\ MatchOf(side[1]) > 0

\* More records than fit are cut to TopK before the pack sees them, when the
\* best of both sides, which lead the list, answer the query.
SeedMixedCoverage(list) ==
    IF /\ IsMix /\ HasSupplement
       /\ Len(list) > TopK
       /\ BestMatches(list, "primary") /\ BestMatches(list, "supplemental")
      THEN SubSeq(Distinct(list), 1, AtMost(TopK, Len(Distinct(list))))
      ELSE list

-----------------------------------------------------------------------------
(* execute_retrieval_pipeline_with_trace *)

PipelineInit ==
    /\ Plan!Init
    /\ records = << >> /\ kept = << >>
    /\ clipped = FALSE /\ pruned = FALSE /\ packing = "ready"
    /\ stage = "planning"
    /\ hits = << >> /\ at = 1 /\ groups = {} /\ response = << >>

BuildPlan == stage = "planning" /\ Plan!Next /\ UNCHANGED <<packVars, ownVars>>

\* run_retrieval returns and its hits are put in order.
Retrieve ==
    /\ stage = "planning" /\ built
    /\ class.markers \in FollowedMarkers
    /\ \E found \in Outcomes :
          /\ \A i \in DOMAIN found : \E s \in PlannedSteps : s.source = found[i].source
          /\ hits' = PrioritizeHits(class.result, found)
    /\ stage' = "grouping"
    /\ UNCHANGED <<planVars, packVars, at, groups, response>>

Collapse ==
    /\ stage = "grouping" /\ at <= Len(hits)
    /\ groups' = AddToGroups(hits, at, groups)
    /\ at' = at + 1
    /\ UNCHANGED <<planVars, packVars, stage, hits, response>>

CanonicalRecords ==
    {CanonicalRecord(hits, [p \in DOMAIN hits |-> RouteRole(hits[p])], g) : g \in groups}

Rank ==
    /\ stage = "grouping" /\ at > Len(hits)
    /\ records' = SeedMixedCoverage(Ordered(CanonicalRecords))
    /\ stage' = "packing"
    /\ UNCHANGED <<planVars, kept, clipped, pruned, packing, hits, at, groups, response>>

PackStep == stage = "packing" /\ Next /\ UNCHANGED <<planVars, ownVars>>

Shape ==
    /\ stage = "packing" /\ packing = "packed"
    /\ response' = Ordered({[records[i] EXCEPT !.slices = kept[i]] : i \in DOMAIN kept})
    /\ stage' = "shaped"
    /\ UNCHANGED <<planVars, packVars, hits, at, groups>>

\* A query outside the bound ends with its plan, and a response ends the rest.
Stop ==
    /\ stage = "shaped" \/ (built /\ class.markers \notin FollowedMarkers)
    /\ UNCHANGED allVars

PipelineNext == BuildPlan \/ Retrieve \/ Collapse \/ Rank \/ PackStep \/ Shape \/ Stop

\* Neither the planner nor the pack waits for anything.
PipelineSpec ==
    /\ PipelineInit /\ [][PipelineNext]_allVars
    /\ WF_planVars(BuildPlan) /\ WF_packVars(PackStep)

-----------------------------------------------------------------------------

\* The plan the pipeline works from is the one RetrievalPlan promises.
PlanSound == stage = "planning" => Plan!PlanSound

\* Hits of papers that share an alias, directly or over others.
Papers == {p \in DOMAIN hits : DomainOf(hits[p]) = "academic"}
ClosedByAlias(S) ==
    \A p \in S, q \in Papers : Aliases(hits[p]) \cap Aliases(hits[q]) # {} => q \in S
AliasClosure(p) ==
    {q \in DOMAIN hits : \A S \in SUBSET DOMAIN hits : p \in S /\ ClosedByAlias(S) => q \in S}

PlacesOf(g) == {g[i] : i \in DOMAIN g}

\* Where place p stands: in which group, and at which position of it.
Occurrences(p) == UNION {{g} \X {i \in DOMAIN g : g[i] = p} : g \in groups}

\* canonicalize_academic_records takes papers one at a time and in any order,
\* and still the hits of one paper, known by whatever chain of identifiers, are
\* one record, hits of two papers are two, and no accepted hit is lost or
\* counted twice.
WorksAreTold ==
    stage \notin {"planning", "grouping"} =>
        /\ \A g \in groups : DomainOf(hits[g[1]]) = "academic" =>
              PlacesOf(g) = AliasClosure(g[1])
        /\ \A p \in DOMAIN hits : Accepted(hits[p]) =>
              Cardinality(Occurrences(p)) = 1

\* A record of the response answers for the primary route exactly if a step
\* planned for it found one of the record's hits: the engine's steps, the roles
\* of sources and routes, and merging agree.
RolesFollowPlan ==
    \A i \in DOMAIN response :
        response[i].role = "primary" <=>
            \E p \in PlacesOf(response[i].raws) : ~StepOf(hits[p].source).supplemental

\* The two open loops end: the walk over a table with a cycle in it, and the
\* pruning, which goes on until the pack fits or is empty.
LoopsEnd == <>built /\ (packing = "pruning" ~> packing = "packed")
=============================================================================
