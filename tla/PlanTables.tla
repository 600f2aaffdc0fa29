----------------------------- MODULE PlanTables -----------------------------
(***************************************************************************)
(* The choices of src/skill/orchestrator/retrieval_plan.py that are plain  *)
(* functions of a classified query: its first wave, its budgets, and, as a *)
(* table read off SOURCE_BACKUP_CHAIN, the backup of every source.  The    *)
(* code computes the last one by a worklist, which RetrievalPlan models    *)
(* and compares with this table.                                           *)
(*                                                                         *)
(* A query counts through the markers the builder looks for in it.         *)
(***************************************************************************)
EXTENDS QueryClass, Sequences

\* generic: a filing query about an unnamed actor, which has a filing marker.
Markers == {m \in [standards : BOOLEAN, filing : BOOLEAN, official : BOOLEAN,
                   trend : BOOLEAN, generic : BOOLEAN, impact : BOOLEAN,
                   cjk : BOOLEAN, europePmc : BOOLEAN] : m.generic => m.filing}

IsAcademicPlan(c) == c.label = "single" /\ c.primary = "academic"

Step(s, route, supplemental) == [source |-> s, route |-> route, supplemental |-> supplemental]
AsSteps(ids, route, supplemental) ==
    [i \in 1..Len(ids) |-> Step(ids[i], route, supplemental)]

-----------------------------------------------------------------------------
(* The first wave *)

IndustryFirstWave(q) ==
    IF q.standards \/ q.filing THEN <<"industry_official_or_filings">>
    ELSE IF q.official THEN DomainFirstWave["industry"]
    ELSE IF q.trend THEN <<"industry_web_discovery">>
    ELSE <<"industry_web_discovery", "industry_news_rss", "industry_official_or_filings">>

\* The metadata sources in the order an academic plan tries them.
MetadataOrder(q) ==
    IF q.europePmc THEN <<"academic_arxiv", "academic_semantic_scholar">>
                   ELSE <<"academic_semantic_scholar", "academic_arxiv">>

PrimaryFirstWave(c, q) ==
    AsSteps(CASE IsAcademicPlan(c) -> <<MetadataOrder(q)[1]>>
            [] c.primary = "industry" -> IndustryFirstWave(q)
            [] OTHER -> DomainFirstWave[c.primary],
          c.primary, FALSE)

SupplementalIndustry(q) ==
    IF q.impact THEN IF q.cjk THEN <<"industry_web_discovery">> ELSE <<"industry_news_rss">>
    ELSE IF q.generic THEN <<"industry_news_rss">>
    ELSE IndustryFirstWave(q)

SupplementalFirstWave(c, q) ==
    IF c.supplement = NoRoute THEN << >>
    ELSE AsSteps(IF c.supplement = "industry" THEN SupplementalIndustry(q)
                                            ELSE <<SupplementalStrongest[c.supplement]>>,
               c.supplement, TRUE)

FirstWaveOf(c, q) == PrimaryFirstWave(c, q) \o SupplementalFirstWave(c, q)

IdsOf(steps) == {steps[i].source : i \in 1..Len(steps)}

-----------------------------------------------------------------------------
(* The backups *)

\* The supplement that has a chain of its own, for the queries that swap it.
SwapsIndustry(c, q) ==
    c.label = "mixed" /\ c.supplement = "industry" /\ (q.generic \/ (q.impact /\ ~q.cjk))

\* A chain written out by hand and the sources it speaks for.
HandChain(c, q) ==
    IF IsAcademicPlan(c) THEN MetadataOrder(q) \o <<"academic_asta_mcp">>
    ELSE IF c.supplement = "academic"
      THEN <<"academic_semantic_scholar", "academic_arxiv", "academic_asta_mcp">>
    ELSE IF SwapsIndustry(c, q)
      THEN <<"industry_news_rss", "industry_web_discovery", "industry_official_or_filings">>
    ELSE << >>

InChain(s, chain) == \E i \in 1..Len(chain) : chain[i] = s

\* The next source of a hand-written chain, whatever the failure was.
NextInChain(s, chain) ==
    LET i == CHOOSE k \in 1..Len(chain) : chain[k] = s IN
    IF i < Len(chain) THEN chain[i + 1] ELSE NoBackup

\* The backup of s for reason r: the hand-written chain where there is one,
\* else the table's entry unless the first wave calls that source anyway.
BackupOf(c, q, s, r) ==
    LET t == SourceBackupChain[s][r] IN
    IF InChain(s, HandChain(c, q)) THEN NextInChain(s, HandChain(c, q))
    ELSE IF t \in IdsOf(FirstWaveOf(c, q)) THEN NoBackup ELSE t

-----------------------------------------------------------------------------
(* The budgets, in tenths of a second *)

PerSourceTimeout(c, q) ==
    IF c.label = "single" /\ c.primary = "industry"
      THEN IF IdsOf(FirstWaveOf(c, q)) = {"industry_web_discovery"} THEN 65 ELSE 90
      ELSE 30

OverallDeadline(c) ==
    IF c.label = "mixed" THEN 80 ELSE IF c.primary = "industry" THEN 100 ELSE 60

\* What run_retrieval gives the first wave.
FirstWaveTimeout(c) ==
    IF c.label = "mixed" THEN IF c.parallel THEN 35 ELSE 25
    ELSE OverallDeadline(c)

\* A budget in ticks of the given length, in tenths of a second.
Ticks(tenths, tick) == (tenths + tick - 1) \div tick

\* The RetrievalPlan, as far as the engine's control looks at it.
PlanOf(c, q, tick) ==
    [academic    |-> IsAcademicPlan(c),
     mixed       |-> c.label = "mixed",
     pooled      |-> c.label = "mixed" /\ c.supplement # NoRoute,
     steps       |-> FirstWaveOf(c, q),
     backup      |-> [s \in SourceIds |-> [r \in ChainReasons |-> BackupOf(c, q, s, r)]],
     perSource   |-> Ticks(PerSourceTimeout(c, q), tick),
     overall     |-> Ticks(OverallDeadline(c), tick),
     waveTimeout |-> Ticks(FirstWaveTimeout(c), tick)]
=============================================================================
