----------------------------- MODULE IndustryNews -----------------------------
(***************************************************************************)
(* search_news_rss_live of src/skill/retrieval/adapters/industry_ddgs.py:  *)
(* Google News is searched with the ddgs backup running beside it.  News   *)
(* that name their article are ranked as they are; several that do not     *)
(* (trait "many") are kept with their Google links; a single one is        *)
(* grounded in a race with the backup.  The trait "low_value" says that    *)
(* all of several such news are of low value.                              *)
(***************************************************************************)
EXTENDS TaskGroup

NewsCallNames == {"news_rss"}

NewsFixture == At("news_rss", "start") /\ Is("fixture") /\ Return("hits", {})

AskNews ==
    At("news_rss", "start") /\ ~Is("fixture") /\ Await("news", {"news", "ddgs"})

\* The candidates are ranked, together with what the backup has found by now; a
\* backup still out is let go.
RankNews ==
    /\ at' = "ranking_news"
    /\ task' = With(Cancelled({"ddgs"}), {"rank"})
    /\ holds' = {"payloads"}
    /\ UNCHANGED <<call, pending, todo, cut, outcome>>

\* Nothing was found: the call waits for the backup.
AwaitBackup(S) == Leave("backup", S) /\ Same

\* What to do with the answer of Google News.
NewsAnswered ==
    /\ At("news_rss", "news") /\ Ended("news")
    /\ \/ WithoutHits("news") /\ AwaitBackup({})
       \/ Got("news") /\ ~Is("slow") /\ RankNews
       \/ Got("news") /\ Is("slow") /\ Is("many") /\ Await("yielding", {})
       \/ Got("news") /\ Is("slow") /\ ~Is("many") /\ Await("news_race", {"ground"})

\* await asyncio.sleep(0): if the news are of low value and the backup has ended,
\* what it found goes first; else the backup is let go.
NewsKept == At("news_rss", "yielding") /\ RankNews

\* asyncio.wait for the grounding and the backup, whichever is first.
NewsRaced ==
    /\ At("news_rss", "news_race") /\ (Ended("ground") \/ Ended("ddgs"))
    /\ \/ /\ Got("ddgs")
          /\ at' = "ranking_news"
          /\ task' = With(Cancelled({"ground"}), {"rank"})
          /\ holds' = {"payloads"}
          /\ UNCHANGED <<call, pending, todo, cut, outcome>>
       \/ WithoutHits("ddgs") /\ Await("news_grounding", {})
       \/ ~Ended("ddgs") /\ Got("ground") /\ RankNews
       \/ ~Ended("ddgs") /\ WithoutHits("ground") /\ AwaitBackup({"ddgs"})

\* The backup had ended with nothing.
NewsGroundedAlone ==
    /\ At("news_rss", "news_grounding") /\ Ended("ground")
    /\ IF Got("ground") THEN RankNews ELSE AwaitBackup({})

\* A backup that was cancelled in the race raises CancelledError here.
BackupAnswered ==
    /\ At("news_rss", "backup") /\ Ended("ddgs")
    /\ \/ Got("ddgs") /\ RankNews
       \/ WithoutHits("ddgs") /\ Return("empty", {})
       \/ task["ddgs"] = "cancelled" /\ Return("cancelled", {})

NewsRanked ==
    At("news_rss", "ranking_news") /\ Ended("rank") /\ ReturnIf(Got("rank"))

NewsResumes ==
    \/ NewsFixture \/ AskNews \/ NewsAnswered \/ NewsKept \/ NewsRaced \/ NewsGroundedAlone
    \/ BackupAnswered \/ NewsRanked

NewsAwaited ==
    CASE at = "news" -> {"news"}
      [] at = "news_grounding" -> {"ground"}
      [] at = "backup" -> {"ddgs"}
      [] at = "ranking_news" -> {"rank"}
      [] OTHER -> {}

NewsHandled ==
    CASE at = "news_race" -> {"ground", "ddgs"}
      [] at = "ranking_news" -> {}
      [] OTHER -> {"ddgs"}
=============================================================================
