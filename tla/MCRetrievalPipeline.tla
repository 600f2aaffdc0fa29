------------------------ MODULE MCRetrievalPipeline ------------------------
EXTENDS RetrievalPipeline

MCFollowedMarkers == {[m \in {"standards", "filing", "official", "trend", "generic",
                              "impact", "cjk", "europePmc"} |-> FALSE]}

Mark(kind, value) == [kind |-> kind, value |-> value]

Hit(source, name, marks, worth, text, tokens, bonus) ==
    [source |-> source, name |-> name, marks |-> marks, official |-> TRUE, quality |-> worth,
     tier |-> 4 - worth, worth |-> worth, match |-> 0, fresh |-> 0,
     url |-> text, text |-> text, tokens |-> tokens, bonus |-> bonus]

\* Papers that only a third one joins, one of another kind of identifier, one
\* without any.
MCPapers ==
    {Hit("academic_semantic_scholar", 1, {Mark("doi", 1)}, 3, 1, 2, 0),
     Hit("academic_arxiv", 1, {Mark("arxiv", 1)}, 1, 2, 2, 2),
     Hit("academic_arxiv", 1, {Mark("doi", 1), Mark("arxiv", 1)}, 2, 3, 1, 0),
     Hit("academic_asta_mcp", 2, {}, 0, 4, 3, 0)}

\* Versions of a policy of which the second shares a date with both others, and
\* a text without a date.
Policies ==
    {Hit("policy_official_registry", 1, {Mark("published", 1)}, 2, 5, 2, 0),
     Hit("policy_official_registry", 1, {Mark("published", 1), Mark("version", 2)}, 3, 6, 1, 1),
     Hit("policy_official_web_allowlist_fallback", 1,
         {Mark("effective", 3), Mark("version", 2)}, 1, 7, 3, 0),
     Hit("policy_official_registry", 2, {Mark("version", 4)}, 1, 8, 1, 0)}

\* Two pages worded alike, one of their own host, and a dated filing, which
\* counts as a policy.
Pages ==
    {[Hit("industry_web_discovery", 1, {Mark("wording", 1)}, 3, 9, 2, 2) EXCEPT !.official = FALSE],
     [Hit("industry_news_rss", 1, {Mark("wording", 1)}, 2, 10, 2, 0) EXCEPT !.official = FALSE],
     [Hit("industry_news_rss", 3, {Mark("wording", 2)}, 0, 0, 0, 0) EXCEPT !.official = FALSE],
     Hit("industry_official_or_filings", 1, {Mark("published", 1)}, 3, 12, 1, 0)}

\* Up to four hits; whether each answers the query, which orders them, is open.
MCOutcomes ==
    LET pool == MCPapers \cup Policies \cup Pages
        listed(S) == SortedBy(S, LAMBDA h : <<h.text>>)
    IN  UNION {LET list == listed(S) IN
               {[i \in DOMAIN list |-> [list[i] EXCEPT !.match = m[i]]] : m \in [DOMAIN list -> 0..1]} :
                   S \in UNION {kSubset(n, pool) : n \in 0..4}}
=============================================================================
