----------------------------- MODULE QueryClass -----------------------------
(***************************************************************************)
(* src/skill/orchestrator/intent.py: which route, or mix of two, a query   *)
(* is answered from.  classify_query looks at a query only through its     *)
(* score on each route's markers and the families of other markers it has. *)
(***************************************************************************)
EXTENDS SourceCatalog, Naturals

\* cross: an explicit cross-domain phrase.  short: below either length limit.
\* path: a research-path phrase.  filing, disclosure: filing and disclosure
\* intent.  crossFiling: a disclosure rule, which may be asked for itself
\* (authoritative) or for how to adapt to it (adaptation).
\* anchor: a named regulator or act.  standards: a named industry standard.
\* conjunction, update: "and" of a policy and a platform change.
Families == {"cross", "short", "path", "filing", "disclosure", "crossFiling", "authoritative",
             "adaptation", "anchor", "standards", "conjunction", "update"}

\* A marker is worth two points.  A third changes nothing: the thresholds tell a
\* score from none, from one marker, and from another score.
Scores == [Routes -> {0, 2, 4}]

\* The tables overlap: a disclosure rule is a policy marker and an anchor, and a
\* research path contains an academic marker.
Views ==
    {v \in [scores : Scores, has : SUBSET Families] :
        /\ "crossFiling" \in v.has => "anchor" \in v.has /\ v.scores["policy"] > 0
        /\ "path" \in v.has => v.scores["academic"] > 0}

LowSignalScoreThreshold == 2

Precedence == [policy |-> 0, academic |-> 1, industry |-> 2]

RanksBefore(r, s, scores) ==
    scores[r] > scores[s] \/ (scores[r] = scores[s] /\ Precedence[r] < Precedence[s])

RankFirst(scores, routes) ==
    CHOOSE r \in routes : \A s \in routes \ {r} : RanksBefore(r, s, scores)

\* A ClassificationResult; parallel: reason_code policy_industry_parallel_update.
Concrete(r) == [label |-> "single", primary |-> r, supplement |-> NoRoute, parallel |-> FALSE]
MixOf(r, s) == [label |-> "mixed", primary |-> r, supplement |-> s, parallel |-> FALSE]
ParallelUpdate == [MixOf("policy", "industry") EXCEPT !.parallel = TRUE]

IsExplicitCrossDomain(v) ==
    "cross" \in v.has /\ \E r, s \in Routes : r # s /\ v.scores[r] > 0 /\ v.scores[s] > 0

IsPolicyFiling(v) == {"filing", "crossFiling"} \subseteq v.has

KeepsPolicyFilingConcrete(v) == "authoritative" \in v.has /\ "adaptation" \notin v.has

PrefersIndustryFiling(v) == {"filing", "disclosure"} \subseteq v.has /\ "anchor" \notin v.has

PrefersIndustryStandards(v) == "standards" \in v.has /\ "anchor" \notin v.has

IsParallelUpdateQuery(v) == {"conjunction", "anchor", "update"} \subseteq v.has

\* classify_query: the first rule that applies decides.
Classify(v) ==
    LET first  == RankFirst(v.scores, Routes)
        second == RankFirst(v.scores, Routes \ {first})
        top    == v.scores[first]
        next   == v.scores[second]
        mix    == MixOf(first, IF next > 0 THEN second ELSE NoRoute)
        isPath == "path" \in v.has /\ first = "policy" /\ second = "academic" /\ next > 0
    IN  IF IsExplicitCrossDomain(v)         THEN MixOf(first, second)
        ELSE IF "short" \in v.has           THEN mix
        ELSE IF IsPolicyFiling(v)           THEN IF KeepsPolicyFilingConcrete(v)
                                                   THEN Concrete("policy")
                                                   ELSE MixOf("policy", "industry")
        ELSE IF PrefersIndustryFiling(v)    THEN Concrete("industry")
        ELSE IF PrefersIndustryStandards(v) THEN Concrete("industry")
        ELSE IF IsParallelUpdateQuery(v)    THEN ParallelUpdate
        ELSE IF top <= LowSignalScoreThreshold
               THEN IF top > 0 /\ next = 0 THEN Concrete(first) ELSE mix
        ELSE IF isPath                      THEN mix
        ELSE IF top - next <= 1 /\ next > 0 THEN mix
        ELSE Concrete(first)

Classifications == {Classify(v) : v \in Views}
=============================================================================
