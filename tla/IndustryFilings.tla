--------------------------- MODULE IndustryFilings ---------------------------
(***************************************************************************)
(* The calls of src/skill/retrieval/adapters/industry_ddgs.py about a      *)
(* company: search_official_or_filings_live ("filings"), search_live of    *)
(* the module itself ("industry"), the two ways to ask the SEC, and the    *)
(* investor-relations pages of known companies.                            *)
(*                                                                         *)
(* Traits of a query: "direct" it has official candidates by itself, "sec" *)
(* it is one for the SEC, "known" the company's filings are known, "ir"    *)
(* its pages are, "ir_strong" they score by themselves.                    *)
(***************************************************************************)
EXTENDS TaskGroup

FilingsCallNames == {"filings", "industry", "sec_prioritized", "sec_fastest", "ir_pages"}
CompanyCalls == {"filings", "industry"}

-----------------------------------------------------------------------------
(* Asking the SEC *)

AskCompanyFirst == At("sec_prioritized", "start") /\ Await("company", {"company"})

CompanyAnswered ==
    /\ At("sec_prioritized", "company") /\ Ended("company")
    /\ IF Got("company") THEN Return("hits", {}) ELSE Await("filings", {"filings"})

FilingsAnswered ==
    At("sec_prioritized", "filings") /\ Ended("filings") /\ ReturnIf(Got("filings"))

SecSearches == {"company", "filings"}

AskBoth ==
    /\ At("sec_fastest", "start")
    /\ Start("sec_race", SecSearches)
    /\ pending' = SecSearches
    /\ UNCHANGED <<todo, holds>>

\* Slip: only the records of the last search to end are kept.
LatestRecords(done) == IF \E t \in done : task[t] = "weak" THEN {"payloads"} ELSE {}

\* Records about another company ("weak") are kept in case nothing better comes.
KeptRecords(done) == holds \cup IF \E t \in done : task[t] = "weak" THEN {"payloads"} ELSE {}

SecRaced ==
    /\ At("sec_fastest", "sec_race")
    /\ LET done == {t \in pending : Ended(t)}
           left == pending \ done
       IN  /\ done # {}
           /\ pending' = left
           /\ holds' = IF Usable(done) THEN {"hits"} ELSE KeptRecords(done)
           /\ UNCHANGED todo
           /\ IF Usable(done)
                THEN IF left = {} THEN Finish("hits", {}) ELSE Leave("sec_collecting", left)
                ELSE IF left # {} THEN Leave("sec_race", {})
                ELSE Finish(IF KeptRecords(done) # {} THEN "hits" ELSE "empty", {})

SecCollected ==
    At("sec_fastest", "sec_collecting") /\ AllEnded(pending) /\ Return("hits", {})

-----------------------------------------------------------------------------
(* _search_known_company_ir_page_candidates: a page known to answer the     *)
(* query, else one linked from the company's home page *)

\* _detect_known_company_ir_target: an alias of a company with a known home page.
IsKnownIrTarget == Is("ir_home")

\* _extract_known_company_ir_link_candidates: up to three links of the page that fit
\* the query; the first of them is used.
HomeHasLinks == Got("ir_home")

AskIrPage ==
    /\ At("ir_pages", "start")
    /\ \/ Is("ir_page") /\ Await("ir_page", {"ir_page"})
       \/ ~Is("ir_page") /\ IsKnownIrTarget /\ Await("ir_home", {"ir_home"})
       \/ ~Is("ir_page") /\ ~IsKnownIrTarget /\ Return("empty", {})

IrPageAnswered ==
    /\ At("ir_pages", "ir_page") /\ Ended("ir_page")
    /\ IF Got("ir_page") THEN Return("hits", {})
       ELSE IF IsKnownIrTarget THEN Await("ir_home", {"ir_home"}) ELSE Return("empty", {})

IrHomeAnswered ==
    /\ At("ir_pages", "ir_home") /\ Ended("ir_home")
    /\ IF HomeHasLinks THEN Await("ir_linked", {"ir_linked"}) ELSE Return("empty", {})

\* The linked pages are fetched one after the other, with nothing decided in between:
\* the task is all of these fetches.  A page that cannot be fetched still counts by
\* its title.
IrLinkedAnswered == At("ir_pages", "ir_linked") /\ Ended("ir_linked") /\ Return("hits", {})

-----------------------------------------------------------------------------
(* The searches about a company *)

\* _should_query_sec: a form, a report or the SEC is named.
ShouldQuerySec == Is("sec")

\* _direct_official_candidates: a standard is named whose document is known.
HasDirectCandidates == Is("direct")

Here(a) == call.name \in CompanyCalls /\ At(call.name, a)

CompanyFixture == Here("start") /\ Is("fixture") /\ Return("hits", {})

\* Without hits before it: the official sites, which search_live asks beside the
\* web and the news.
OfficialSearches ==
    IF call.name = "filings" THEN {"official"} ELSE {"official", "web", "news"}

AskOfficial == Await("official", OfficialSearches)

AskSec == IF ShouldQuerySec THEN Await("sec", {"sec"}) ELSE AskOfficial

AskIr == IF ShouldQuerySec /\ Is("ir") THEN Await("ir", {"ir"}) ELSE AskSec

\* has_company_submission_target asks the SEC's directory unless it is known.
AskTarget ==
    IF ShouldQuerySec /\ ~Is("known") THEN Await("target", {"target"}) ELSE AskIr

\* _direct_official_candidates: hits of these alone would do.
BeginCompany ==
    /\ Here("start") /\ ~Is("fixture")
    /\ IF HasDirectCandidates THEN Await("early_direct", {"early"}) ELSE AskTarget

DirectRanked ==
    /\ Here("early_direct") /\ Ended("early")
    /\ IF Got("early") THEN Return("hits", {}) ELSE AskTarget

\* A failure of the directory is not caught.
TargetAnswered ==
    /\ Here("target") /\ Ended("target")
    /\ IF task["target"] \in {"failed", "broken"} THEN Return("raised", {}) ELSE AskIr

\* "filings" keeps the pages for the last ranking; search_live ranks strong ones
\* at once and forgets the others.
IrAnswered ==
    /\ Here("ir") /\ Ended("ir")
    /\ IF call.name = "filings"
         THEN /\ Start("sec", {"sec"})
              /\ holds' = IF Got("ir") THEN {"payloads"} ELSE {}
              /\ UNCHANGED <<pending, todo>>
         ELSE IF Got("ir") /\ Is("ir_strong") THEN Await("early_ir", {"early"}) ELSE AskSec

IrRanked ==
    /\ Here("early_ir") /\ Ended("early")
    /\ IF Got("early") THEN Return("hits", {}) ELSE AskSec

\* Records of the company ("hits"), or of another ("weak").
SecRecords == task["sec"] \in {"hits", "weak"}

\* "filings" wants the company's records, or to know that it has filings.
RankSecEarly ==
    /\ SecRecords
    /\ call.name = "filings" => Got("sec") \/ Is("known") \/ Got("target")

SecAnswered ==
    /\ Here("sec") /\ Ended("sec")
    /\ IF RankSecEarly THEN Await("early_sec", {"early"}) ELSE AskOfficial

SecRanked ==
    /\ Here("early_sec") /\ Ended("early")
    /\ IF Got("early") THEN Return("hits", {}) ELSE AskOfficial

\* What there is to rank in the end.
FoundInTheEnd ==
    \/ Usable(OfficialSearches) \/ SecRecords \/ HasDirectCandidates
    \/ "payloads" \in holds

\* search_live resolves the links of Google News first.
OfficialAnswered ==
    /\ Here("official") /\ AllEnded(OfficialSearches)
    /\ IF call.name = "industry" /\ Got("news") THEN Await("resolving", {"ground"})
       ELSE IF FoundInTheEnd THEN Await("ranking_all", {"rank"})
       ELSE Return("empty", {})

\* An unresolved link is ranked all the same.
NewsResolved == Here("resolving") /\ Ended("ground") /\ Await("ranking_all", {"rank"})

AllRanked == Here("ranking_all") /\ Ended("rank") /\ ReturnIf(Got("rank"))

-----------------------------------------------------------------------------

FilingsResumes ==
    \/ AskCompanyFirst \/ CompanyAnswered \/ FilingsAnswered
    \/ AskBoth \/ SecRaced \/ SecCollected
    \/ AskIrPage \/ IrPageAnswered \/ IrHomeAnswered \/ IrLinkedAnswered
    \/ CompanyFixture \/ BeginCompany \/ DirectRanked \/ TargetAnswered \/ IrAnswered
    \/ IrRanked \/ SecAnswered \/ SecRanked \/ OfficialAnswered \/ NewsResolved \/ AllRanked

FilingsAwaited ==
    CASE at \in {"company", "filings", "ir_page", "ir_home", "ir_linked", "target", "ir", "sec"}
           -> {at}
      [] at \in {"early_direct", "early_ir", "early_sec"} -> {"early"}
      [] at = "sec_collecting" -> pending
      [] at = "official" -> OfficialSearches
      [] at = "resolving" -> {"ground"}
      [] at = "ranking_all" -> {"rank"}
      [] OTHER -> {}

FilingsHandled ==
    CASE call.name = "sec_fastest" -> pending
      [] call.name \in CompanyCalls /\ at = "official" -> OfficialSearches
      [] OTHER -> {}
=============================================================================
