---------------------------- MODULE AcademicCalls ----------------------------
(***************************************************************************)
(* search_live of the academic adapters (src/skill/retrieval/adapters):    *)
(* Semantic Scholar with a speculative search of OpenAlex beside it, arXiv *)
(* with Europe PMC behind it, Asta MCP with a web search behind its        *)
(* failures.  "hits" are records that survive rank_live_academic_records.  *)
(***************************************************************************)
EXTENDS TaskGroup

AcademicCallNames == {"semantic_scholar", "arxiv", "asta_mcp"}

\* academic_fixture_shortcut_allowed
AcademicFixture ==
    /\ call.name \in AcademicCallNames /\ At(call.name, "start") /\ Is("fixture")
    /\ Return("hits", {})

-----------------------------------------------------------------------------
(* Semantic Scholar *)

AskSemanticScholar ==
    /\ At("semantic_scholar", "start") /\ ~Is("fixture")
    /\ Await("primary", {"semantic_scholar", "openalex"})

SemanticScholarAnswered ==
    /\ At("semantic_scholar", "primary") /\ Ended("semantic_scholar")
    /\ \/ /\ Got("semantic_scholar") /\ ~Ended("openalex")
          /\ Leave("dropping_openalex", {"openalex"})
          /\ holds' = {"hits"}
          /\ UNCHANGED <<pending, todo>>
       \/ Got("semantic_scholar") /\ Ended("openalex") /\ Return("hits", {})
       \/ ~Got("semantic_scholar") /\ Await("openalex", {})

OpenAlexDropped ==
    At("semantic_scholar", "dropping_openalex") /\ Ended("openalex") /\ Return("hits", {})

OpenAlexAnswered ==
    At("semantic_scholar", "openalex") /\ Ended("openalex") /\ ReturnIf(Got("openalex"))

-----------------------------------------------------------------------------
(* arXiv *)

AskArxiv ==
    At("arxiv", "start") /\ ~Is("fixture") /\ Await("arxiv", {"arxiv"})

\* "weak": the best record is a preprint without DOI, so that Europe PMC is
\* worth a probe when the query names it (the trait "hinted").
ArxivAnswered ==
    /\ At("arxiv", "arxiv") /\ Ended("arxiv")
    /\ \/ task["arxiv"] = "weak" /\ Is("hinted") /\ Await("hinted", {"hinted"})
       \/ Got("arxiv") /\ Return("hits", {})
       \/ task["arxiv"] = "weak" /\ ~Is("hinted") /\ Return("hits", {})
       \/ WithoutHits("arxiv") /\ Await("fallback", {"fallback"})

\* The records of arXiv are ranked with those of Europe PMC, or alone.
HintedAnswered == At("arxiv", "hinted") /\ Ended("hinted") /\ Return("hits", {})

FallbackAnswered ==
    At("arxiv", "fallback") /\ Ended("fallback") /\ ReturnIf(Got("fallback"))

-----------------------------------------------------------------------------
(* Asta MCP *)

AskAsta == At("asta_mcp", "start") /\ ~Is("fixture") /\ Await("mcp", {"mcp"})

\* Only a failure of the service makes the call search the web instead.
AstaAnswered ==
    /\ At("asta_mcp", "mcp") /\ Ended("mcp")
    /\ \/ Got("mcp") /\ Return("hits", {})
       \/ task["mcp"] = "none" /\ Return("empty", {})
       \/ task["mcp"] = "failed" /\ Await("discovery", {"discovery"})

DiscoveryAnswered ==
    At("asta_mcp", "discovery") /\ Ended("discovery") /\ ReturnIf(Got("discovery"))

-----------------------------------------------------------------------------

AcademicResumes ==
    \/ AcademicFixture
    \/ AskSemanticScholar \/ SemanticScholarAnswered \/ OpenAlexDropped \/ OpenAlexAnswered
    \/ AskArxiv \/ ArxivAnswered \/ HintedAnswered \/ FallbackAnswered
    \/ AskAsta \/ AstaAnswered \/ DiscoveryAnswered

AcademicAwaited ==
    CASE at = "primary" -> {"semantic_scholar"}
      [] at \in {"openalex", "dropping_openalex"} -> {"openalex"}
      [] at \in {"arxiv", "hinted", "fallback", "mcp", "discovery"} -> {at}
      [] OTHER -> {}
=============================================================================
