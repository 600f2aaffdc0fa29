----------------------------- MODULE EnginePlans -----------------------------
(***************************************************************************)
(* The RetrievalPlan as src/skill/retrieval/engine.py takes it to be: the  *)
(* steps of the first wave, the backup of each source and the budgets, and *)
(* how far the engine can come from one step by following its backups.     *)
(***************************************************************************)
EXTENDS SourceCatalog, Integers, Sequences

\* The sources a chain from s can come to, one backup after the other.
ClosedUnder(p, S) == \A s \in S, r \in ChainReasons : p.backup[s][r] \in S \cup {NoBackup}
ChainFrom(p, s) ==
    {t \in SourceIds : \A S \in SUBSET SourceIds : s \in S /\ ClosedUnder(p, S) => t \in S}

Metadata == {"academic_semantic_scholar", "academic_arxiv"}

\* The chains of two steps share no source, and asta is a backup only: of an
\* academic plan, whose wave is one metadata source, after the other one.
ChainsApart(p) ==
    /\ \A i, j \in 1..Len(p.steps) :
          i # j => ChainFrom(p, p.steps[i].source) \cap ChainFrom(p, p.steps[j].source) = {}
    /\ \A i \in 1..Len(p.steps) : p.steps[i].source # "academic_asta_mcp"
    /\ p.academic => /\ ~p.mixed /\ Len(p.steps) = 1 /\ p.steps[1].source \in Metadata
                     /\ \A r \in ChainReasons :
                           p.backup[p.steps[1].source][r] # "academic_asta_mcp"

\* What build_retrieval_plan makes, as far as the engine looks at it.
PlanShape(p) ==
    /\ p.academic \in BOOLEAN /\ p.mixed \in BOOLEAN /\ p.pooled \in BOOLEAN
    /\ p.steps \in Seq([source : SourceIds, route : Routes, supplemental : BOOLEAN]) \ {<< >>}
    /\ p.backup \in [SourceIds -> [ChainReasons -> SourceIds \cup {NoBackup}]]
    /\ p.perSource \in Nat /\ p.overall \in Nat
    /\ p.waveTimeout \in 0..p.overall
    /\ ChainsApart(p)
=============================================================================
