----------------------------- MODULE PolicyCalls -----------------------------
(***************************************************************************)
(* The live policy adapters (src/skill/retrieval/adapters/policy_*.py) and *)
(* the registry client behind them.  "registry" is search_live of the      *)
(* official registry: the registry, the direct sources, the Federal        *)
(* Register (queries about the US, trait "us") and the open web are        *)
(* searched side by side and asked for in an order; "prefer_direct" is     *)
(* _prefer_direct_policy_sources.  "open_web" is _search_open_web_policy,  *)
(* "allowlist" search_live of the web allowlist, which differ in how they  *)
(* let go of their ranking tasks.  "hits" are records that survive the     *)
(* ranking of the source.                                                  *)
(***************************************************************************)
EXTENDS TaskGroup

PolicyCallNames == {"registry", "direct_sources", "open_web", "allowlist", "registry_client"}

-----------------------------------------------------------------------------
(* search_live of the registry *)

\* _is_us_policy_query: a federal institution or rule is named.
IsUsPolicyQuery == Is("us")

\* _prefer_direct_policy_sources: an act is named whose source is known.
PrefersDirectSources == Is("prefer_direct")

\* _should_use_fixture_shortcut and fixtures that score.
RegistryFixture ==
    At("registry", "start") /\ Is("fixture") /\ ~IsUsPolicyQuery /\ Return("hits", {})

AskRegistry ==
    /\ At("registry", "start") /\ ~(Is("fixture") /\ ~IsUsPolicyQuery)
    /\ Await(IF PrefersDirectSources THEN "race" ELSE "registry",
             {"registry", "direct"} \cup IF IsUsPolicyQuery THEN {"federal"} ELSE {"open_web"})

\* Slip: the open web search is left to end by itself.
SuperfluousTask(t) == {"registry", "direct", "federal"} \ {t}

\* What a source's hits make superfluous.
Superfluous(t) == {"registry", "direct", "federal", "open_web"} \ {t}

SettleFor(t) == Return("hits", Superfluous(t))

\* The await after the registry, and the ones after it: the direct sources
\* first if they are preferred, then the Federal Register, then the direct
\* sources, then the open web, which a query about the US starts only here.
\* Slip: the open web search is believed to be under way.
AwaitOpenWebOnly == Await("open_web", {})

AwaitOpenWeb == Await("open_web", IF task["open_web"] = "unborn" THEN {"open_web"} ELSE {})

AfterDirectFirst == IF IsUsPolicyQuery THEN Await("federal", {}) ELSE AwaitOpenWeb

AfterRegistry == IF IsUsPolicyQuery THEN Await("federal", {}) ELSE Await("direct", {})

\* asyncio.wait for the registry and the direct sources, whichever is first:
\* hits of the direct sources win; else the registry is what counts.
Raced ==
    /\ At("registry", "race") /\ (Ended("direct") \/ Ended("registry"))
    /\ \/ Got("direct") /\ SettleFor("direct")
       \/ ~Got("direct") /\ Got("registry") /\ SettleFor("registry")
       \/ /\ ~Got("direct") /\ WithoutHits("registry")
          /\ IF Ended("direct") THEN AfterDirectFirst ELSE Await("direct_first", {})
       \/ WithoutHits("direct") /\ ~Ended("registry") /\ Await("registry_second", {})

RegistryAnswered ==
    /\ At("registry", "registry") /\ Ended("registry")
    /\ IF Got("registry") THEN SettleFor("registry") ELSE AfterRegistry

\* The direct sources had answered without hits in the race.
RegistryAnsweredSecond ==
    /\ At("registry", "registry_second") /\ Ended("registry")
    /\ IF Got("registry") THEN SettleFor("registry") ELSE AfterDirectFirst

DirectFirstAnswered ==
    /\ At("registry", "direct_first") /\ Ended("direct")
    /\ IF Got("direct") THEN SettleFor("direct") ELSE AfterDirectFirst

FederalAnswered ==
    /\ At("registry", "federal") /\ Ended("federal")
    /\ IF Got("federal") THEN SettleFor("federal")
       ELSE IF PrefersDirectSources THEN AwaitOpenWeb ELSE Await("direct", {})

DirectAnswered ==
    /\ At("registry", "direct") /\ Ended("direct")
    /\ IF Got("direct") THEN SettleFor("direct") ELSE AwaitOpenWeb

OpenWebAnswered ==
    At("registry", "open_web") /\ Ended("open_web") /\ ReturnIf(Got("open_web"))

-----------------------------------------------------------------------------
(* _search_direct_policy_sources *)

AskDirectSources == At("direct_sources", "start") /\ Await("all_direct", DirectSources)

DirectSourcesAnswered ==
    /\ At("direct_sources", "all_direct") /\ AllEnded(DirectSources)
    /\ ReturnIf(Usable(DirectSources))

-----------------------------------------------------------------------------
(* The open web and the allowlist, within asyncio.timeout *)

OpenWebNames == {"open_web", "allowlist"}

SearchOfficialWeb ==
    /\ call.name \in OpenWebNames /\ At(call.name, "start")
    /\ Await("searching", {"search"})

\* Every candidate on an official domain is fetched and ranked by a task of its own.
OfficialWebSearched ==
    /\ call.name \in OpenWebNames /\ At(call.name, "searching") /\ Ended("search")
    /\ \/ Got("search") /\ \E C \in (SUBSET Candidates) \ {{}} : Await("ranking", C)
       \/ WithoutHits("search") /\ Return("empty", {})

OfficialWebRanked ==
    /\ call.name \in OpenWebNames /\ At(call.name, "ranking")
    /\ \A t \in Candidates : task[t] = "unborn" \/ Ended(t)
    /\ ReturnIf(Usable(Candidates))

-----------------------------------------------------------------------------
(* search_policy_registry: titles, and beside them the full text *)

\* The trait "cached": an answer that has not expired is in the cache.
AskRegistryClient ==
    /\ At("registry_client", "start")
    /\ IF Is("cached") THEN \E found \in BOOLEAN : ReturnIf(found)
       ELSE Await("title", {"title", "broader"})

\* Slip: the titles alone are the answer.
TitleSettles ==
    /\ At("registry_client", "title") /\ Ended("title")
    /\ Return(IF Got("title") THEN "hits" ELSE "empty", {"broader"})

TitleAnswered ==
    /\ At("registry_client", "title") /\ Ended("title")
    /\ IF Got("title") THEN Return("hits", {"broader"}) ELSE Await("broader", {})

BroaderAnswered ==
    At("registry_client", "broader") /\ Ended("broader") /\ ReturnIf(Got("broader"))

-----------------------------------------------------------------------------

PolicyResumes ==
    \/ RegistryFixture \/ AskRegistry \/ Raced \/ RegistryAnswered \/ RegistryAnsweredSecond
    \/ DirectFirstAnswered \/ FederalAnswered \/ DirectAnswered \/ OpenWebAnswered
    \/ AskDirectSources \/ DirectSourcesAnswered
    \/ SearchOfficialWeb \/ OfficialWebSearched \/ OfficialWebRanked
    \/ AskRegistryClient \/ TitleAnswered \/ BroaderAnswered

PolicyAwaited ==
    CASE at \in {"registry", "registry_second"} -> {"registry"}
      [] at \in {"direct", "direct_first"} -> {"direct"}
      [] at \in {"federal", "open_web", "title", "broader"} -> {at}
      [] at = "all_direct" -> DirectSources
      [] at = "searching" -> {"search"}
      [] at = "ranking" -> {t \in Candidates : task[t] # "unborn"}
      [] OTHER -> {}

PolicyHandled ==
    CASE call.name = "registry" -> {"registry", "direct", "federal", "open_web"}
      [] call.name = "direct_sources" -> DirectSources
      [] call.name = "registry_client" -> {"title", "broader"}
      [] OTHER -> Candidates
=============================================================================
