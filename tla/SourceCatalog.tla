---------------------------- MODULE SourceCatalog ----------------------------
(***************************************************************************)
(* The fixed tables of src/skill/config/retrieval.py: the sources of each  *)
(* route and the backup each source has for each way it can fail.          *)
(***************************************************************************)

Routes == {"policy", "academic", "industry"}
NoRoute == "none"

\* Failures the backup chain reacts to; adapter_error has no backup anywhere.
ChainReasons == {"no_hits", "timeout", "rate_limited"}
FailureReasons == ChainReasons \cup {"adapter_error"}

DomainFirstWave ==
    [policy   |-> <<"policy_official_registry">>,
     academic |-> <<"academic_semantic_scholar", "academic_arxiv">>,
     industry |-> <<"industry_official_or_filings", "industry_web_discovery",
                    "industry_news_rss">>]

SupplementalStrongest ==
    [policy   |-> "policy_official_registry",
     academic |-> "academic_semantic_scholar",
     industry |-> "industry_web_discovery"]

NoBackup == "none"
Backup(no_hits, timeout, rate_limited) ==
    [no_hits |-> no_hits, timeout |-> timeout, rate_limited |-> rate_limited]

SourceBackupChain ==
    [policy_official_registry |->
        Backup("policy_official_web_allowlist_fallback",
               "policy_official_web_allowlist_fallback",
               "policy_official_web_allowlist_fallback"),
     policy_official_web_allowlist_fallback |-> Backup(NoBackup, NoBackup, NoBackup),
     academic_asta_mcp |-> Backup(NoBackup, NoBackup, NoBackup),
     academic_semantic_scholar |->
        Backup("academic_asta_mcp", "academic_asta_mcp", "academic_asta_mcp"),
     academic_arxiv |-> Backup(NoBackup, NoBackup, NoBackup),
     industry_ddgs |->
        Backup("industry_official_or_filings", "industry_news_rss",
               "industry_official_or_filings"),
     industry_official_or_filings |->
        Backup("industry_web_discovery", "industry_web_discovery", "industry_news_rss"),
     industry_web_discovery |->
        Backup("industry_news_rss", "industry_news_rss", "industry_official_or_filings"),
     industry_news_rss |->
        Backup("industry_official_or_filings", "industry_official_or_filings",
               "industry_web_discovery")]

SourceIds == DOMAIN SourceBackupChain
FallbackOnly == {"policy_official_web_allowlist_fallback"}
=============================================================================
