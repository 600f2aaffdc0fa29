-------------------------- MODULE IndustryDiscovery --------------------------
(***************************************************************************)
(* search_web_discovery_live of src/skill/retrieval/adapters/              *)
(* industry_ddgs.py and the helpers it awaits.  The web and Google News    *)
(* are searched at once; focused and Bing searches (queries with an        *)
(* outlook to look for, trait "outlook") and the ddgs backup follow when   *)
(* their head start is over or the first searches disappoint, the backup   *)
(* at once for a query in CJK script.  Whatever a search finds is ranked   *)
(* with all that was found before it, and the first ranking with a result  *)
(* ends the call.                                                          *)
(*                                                                         *)
(* Each kind of search is one task here; the code may have several queries *)
(* of the focused and of the backup kind.                                  *)
(***************************************************************************)
EXTENDS TaskGroup

DiscoveryCallNames == {"web_discovery", "grounding", "ranking_pages"}

-----------------------------------------------------------------------------
(* _rank_payloads_to_hits: one task per payload, and all of them awaited *)

RankPages ==
    /\ At("ranking_pages", "start")
    /\ \/ Return("empty", {})
       \/ \E C \in (SUBSET Candidates) \ {{}} :
              Start("ranking_pages", C) /\ pending' = C /\ UNCHANGED <<todo, holds>>

PagesRanked ==
    At("ranking_pages", "ranking_pages") /\ AllEnded(pending) /\ ReturnIf(Usable(pending))

-----------------------------------------------------------------------------
(* _resolve_google_news_article_candidates: the articles behind the links   *)
(* of Google News, resolved or searched for at their publisher *)

\* "direct": some candidates name their article, or nothing is to be resolved.
Ground ==
    /\ At("grounding", "start")
    /\ IF Is("direct") THEN \E found \in BOOLEAN : ReturnIf(found)
       ELSE /\ Start("grounding_race", {"resolution", "publisher"})
            /\ pending' = {"resolution", "publisher"}
            /\ UNCHANGED <<todo, holds>>

GroundingAnswered ==
    /\ At("grounding", "grounding_race")
    /\ LET done == {t \in pending : Ended(t)}
           left == pending \ done
       IN  /\ done # {}
           /\ pending' = left
           /\ UNCHANGED <<todo, holds>>
           /\ IF Usable({"resolution", "publisher"}) THEN Finish("hits", left)
              ELSE IF left = {} THEN Finish("empty", {})
              ELSE Leave("grounding_race", {})

-----------------------------------------------------------------------------
(* search_web_discovery_live *)

DiscoveryFixture ==
    At("web_discovery", "start") /\ Is("fixture") /\ Return("hits", {})

SecondaryTasks == IF Is("outlook") /\ ~Is("cjk_only") THEN {"focused", "bing"} ELSE {}
BackupStarted == task["ddgs"] # "unborn"
SecondaryStarted == "secondary" \in holds
Payloads == "payloads" \in holds

\* Back to asyncio.wait, with S started.
Watch(S) ==
    /\ Start("watching", S)
    /\ pending' = pending \cup S
    /\ UNCHANGED todo

Discover ==
    /\ At("web_discovery", "start") /\ ~Is("fixture")
    /\ Watch({"web", "news"} \cup IF Is("cjk") THEN {"ddgs"} ELSE {})
    /\ UNCHANGED holds

\* asyncio.wait ran into the nearer of the two deadlines: the secondary searches
\* are started first, whichever deadline it was.
HeadStartOver ==
    /\ At("web_discovery", "watching")
    /\ \A t \in pending : ~Ended(t)
    /\ \/ /\ ~SecondaryStarted
          /\ Watch(SecondaryTasks)
          /\ holds' = holds \cup {"secondary"}
       \/ /\ SecondaryStarted /\ ~BackupStarted
          /\ Watch({"ddgs"})
          /\ UNCHANGED holds

SearchesEnded ==
    /\ At("web_discovery", "watching")
    /\ LET done == {t \in pending : Ended(t)}
       IN  /\ done # {}
           /\ todo' = done
           /\ pending' = pending \ done
    /\ Leave("handling", {})
    /\ UNCHANGED holds

\* for done_task in done: what it found is ranked, news after its grounding.
HandleNothing(t) ==
    /\ WithoutHits(t)
    /\ todo' = todo \ {t}
    /\ Leave("handling", {})
    /\ UNCHANGED <<pending, holds>>

HandlePayloads(t) ==
    /\ Got(t) /\ t # "news"
    /\ todo' = todo \ {t}
    /\ Start("ranking", {"rank"})
    /\ holds' = holds \cup {"payloads"}
    /\ UNCHANGED pending

HandleNews ==
    /\ Got("news")
    /\ todo' = todo \ {"news"}
    /\ Start("grounding", {"ground"})
    /\ UNCHANGED <<pending, holds>>

Handle ==
    /\ At("web_discovery", "handling")
    /\ \E t \in todo : \/ HandleNothing(t)
                       \/ HandlePayloads(t)
                       \/ t = "news" /\ HandleNews

NewsGrounded ==
    /\ At("web_discovery", "grounding") /\ Ended("ground")
    /\ UNCHANGED <<pending, todo>>
    /\ \/ Got("ground") /\ Start("ranking", {"rank"}) /\ holds' = holds \cup {"payloads"}
       \/ WithoutHits("ground") /\ Leave("handling", {}) /\ UNCHANGED holds

\* Hits end the for loop (break); the other searches that ended are not handled.
Ranked ==
    /\ At("web_discovery", "ranking") /\ Ended("rank")
    /\ Leave("handling", {})
    /\ UNCHANGED pending
    /\ \/ Got("rank") /\ holds' = holds \cup {"hits"} /\ todo' = {}
       \/ WithoutHits("rank") /\ UNCHANGED <<holds, todo>>

\* After the for loop: the secondary searches are started once a first search has
\* ended without hits, the backup once no HTML search is left.
SecondaryDue ==
    /\ ~SecondaryStarted
    /\ "web" \notin pending \/ "news" \notin pending

Due ==
    LET second == IF SecondaryDue THEN SecondaryTasks ELSE {}
        html   == {"web", "news", "focused"} \cap (pending \cup second)
    IN  second \cup IF html = {} /\ ~BackupStarted THEN {"ddgs"} ELSE {}

\* Pending backups are let go, the other searches are cancelled and collected.
Detached == pending \cap {"ddgs"}

LoopAgain ==
    /\ At("web_discovery", "handling")
    /\ todo = {} /\ "hits" \notin holds
    /\ pending \cup Due # {}
    /\ Watch(Due)
    /\ holds' = IF SecondaryDue THEN holds \cup {"secondary"} ELSE holds

\* Nothing is left to wait for: all that was found is ranked once more.
NothingLeft ==
    /\ At("web_discovery", "handling")
    /\ todo = {} /\ "hits" \notin holds
    /\ pending \cup Due = {}
    /\ IF Payloads THEN Await("last_ranking", {"rank"}) ELSE Return("empty", {})

\* The loop is left with hits.
DropSearches ==
    /\ At("web_discovery", "handling")
    /\ "hits" \in holds
    /\ IF pending \subseteq Detached THEN Return("hits", pending)
       ELSE Leave("collecting", pending) /\ Same

SearchesDropped ==
    /\ At("web_discovery", "collecting") /\ AllEnded(pending \ Detached)
    /\ Return("hits", {})

RankedAgain ==
    At("web_discovery", "last_ranking") /\ Ended("rank") /\ ReturnIf(Got("rank"))

-----------------------------------------------------------------------------

DiscoveryResumes ==
    \/ RankPages \/ PagesRanked
    \/ Ground \/ GroundingAnswered
    \/ DiscoveryFixture \/ Discover \/ HeadStartOver \/ SearchesEnded \/ Handle
    \/ NewsGrounded \/ Ranked \/ LoopAgain \/ NothingLeft \/ DropSearches
    \/ SearchesDropped \/ RankedAgain

DiscoveryAwaited ==
    CASE at = "grounding" -> {"ground"}
      [] at \in {"ranking", "last_ranking"} -> {"rank"}
      [] at = "collecting" -> pending \ Detached
      [] OTHER -> {}

DiscoveryHandled ==
    CASE call.name = "ranking_pages" -> Candidates
      [] call.name = "grounding" -> {"resolution", "publisher"}
      [] OTHER -> IF at = "last_ranking" THEN {}
                  ELSE {"web", "news", "focused", "bing", "ddgs"}
=============================================================================
