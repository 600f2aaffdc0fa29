----------------------------- MODULE AdapterCalls -----------------------------
(***************************************************************************)
(* Every live adapter call of src/skill/retrieval, one at a time, with the *)
(* tasks it starts, its caller's cancellation at any of its awaits and its *)
(* own timers.  A call that another one awaits is a task there and a call  *)
(* of its own here: that it ends, and takes its tasks with it, is shown    *)
(* here and assumed there.                                                 *)
(***************************************************************************)
EXTENDS SearchCalls, AcademicCalls, PolicyCalls, IndustryDiscovery, IndustryNews,
        IndustryFilings

CONSTANT Calls  \* the names of the calls to check

AllCallNames == SearchCallNames \cup AcademicCallNames \cup PolicyCallNames
                \cup DiscoveryCallNames \cup NewsCallNames \cup FilingsCallNames

ASSUME AdapterConstants ==
    /\ Engines # {} /\ Candidates # {}
    /\ IsFiniteSet(Engines) /\ IsFiniteSet(Candidates)
    /\ Calls \subseteq AllCallNames
    /\ (Engines \cup Candidates) \cap (DirectSources \cup Roles) = {}
    /\ Engines \cap Candidates = {}

-----------------------------------------------------------------------------
(* What a call can be like *)

TraitsOf(name) ==
    CASE name = "search_candidates" -> {"retries"}
      [] name \in {"semantic_scholar", "asta_mcp"} -> {"fixture"}
      [] name = "arxiv" -> {"fixture", "hinted"}
      [] name = "registry" -> {"fixture", "us", "prefer_direct"}
      [] name = "registry_client" -> {"cached"}
      [] name = "grounding" -> {"direct"}
      [] name = "web_discovery" -> {"fixture", "cjk", "cjk_only", "outlook"}
      [] name = "news_rss" -> {"fixture", "slow", "many"}
      [] name \in CompanyCalls -> {"fixture", "direct", "sec", "known", "ir", "ir_strong"}
      [] name = "ir_pages" -> {"ir_page", "ir_home"}
      [] OTHER -> {}

\* Traits that come only with another; a fixture settles a call by itself.
Possible(traits) ==
    /\ "cjk_only" \in traits => "cjk" \in traits
    /\ "known" \in traits \/ "ir" \in traits => "sec" \in traits
    /\ "ir_strong" \in traits => "ir" \in traits
    /\ "many" \in traits => "slow" \in traits

\* The answers a task can give.  A page is fetched and scored by its task, and dropped
\* only if a fetch that was forced finds nothing, or if it is no official document.
PageAnswers == {"hits", "none"}
OfficialPageAnswers == {"hits", "none"}

\* Up to two links of Google News are looked for at their publishers.
PublisherAnswers == {"hits", "none"}

\* The thread of the backup is given its seconds; whatever it raises is no result.
BackupAnswers == {"hits", "none"}

\* Records whose company is the query's are hits.
SecAnswers == {"hits", "weak", "none"}

\* A failure may be a timeout.  Most searches have one of their own for all they do; the
\* client of Asta MCP has httpx's for each operation only, so that its search ends by
\* itself is an assumption.
\*
\* A search of several engines, the helpers of the industry adapters and the clients
\* with built-in records do not fail.
Unfailing == {"search", "web", "news", "focused", "bing", "official", "ground", "rank",
              "early", "ir", "resolution"} \cup DirectSources

Can(t) ==
    CASE t = "attempt" \/ t = "again" -> {"hits", "none", "failed", "broken"}
      [] t = "arxiv" -> {"hits", "weak", "none", "failed"}
      [] t = "sec" -> SecAnswers
      [] t \in SecSearches /\ call.name = "sec_fastest" -> SecAnswers \cup {"failed"}
      [] t = "web" /\ Is("cjk_only") -> {"none"}
      [] t = "ddgs" -> BackupAnswers
      [] t = "publisher" -> PublisherAnswers
      [] t \in Candidates -> IF call.name \in OpenWebNames THEN OfficialPageAnswers
                                                           ELSE PageAnswers
      [] t \in Unfailing -> {"hits", "none"}
      [] OTHER -> {"hits", "none", "failed"}

Init ==
    /\ \E name \in Calls : \E traits \in SUBSET TraitsOf(name) :
           Possible(traits) /\ call = [name |-> name, traits |-> traits]
    /\ at = "start"
    /\ task = [t \in Tasks |-> "unborn"]
    /\ pending = {} /\ todo = {} /\ holds = {}
    /\ cut = "no"
    /\ outcome = "none"

-----------------------------------------------------------------------------
(* Where a cancellation reaches *)

Handled ==
    CASE call.name \in SearchCallNames -> SearchHandled
      [] call.name \in PolicyCallNames -> PolicyHandled
      [] call.name \in DiscoveryCallNames -> DiscoveryHandled
      [] call.name \in NewsCallNames -> NewsHandled
      [] call.name \in FilingsCallNames -> FilingsHandled
      [] OTHER -> {}

Collects == call.name = "sec_fastest"

\* The tasks the await at which the call stands passes a cancellation on to.
Awaited ==
    CASE at = "dropping" -> Handled
      [] call.name \in SearchCallNames -> SearchAwaited
      [] call.name \in AcademicCallNames -> AcademicAwaited
      [] call.name \in PolicyCallNames -> PolicyAwaited
      [] call.name \in DiscoveryCallNames -> DiscoveryAwaited
      [] call.name \in NewsCallNames -> NewsAwaited
      [] OTHER -> FilingsAwaited

-----------------------------------------------------------------------------

Resume ==
    \/ SearchResumes \/ AcademicResumes \/ PolicyResumes
    \/ DiscoveryResumes \/ NewsResumes \/ FilingsResumes

\* The caller gives up; it does so once.
CallerCuts == cut # "caller" /\ CutBy("caller", Awaited)

\* asyncio.timeout around the open web search and the allowlist.
TimeIsUp == call.name \in OpenWebNames /\ cut = "no" /\ CutBy("timer", Awaited)

HandleCut == CutSeen(Awaited, Handled, Collects)

Next ==
    \/ \E t \in Tasks : (\E r \in Can(t) : Answer(t, r)) \/ Unwind(t)
    \/ Resume
    \/ CallerCuts \/ TimeIsUp \/ HandleCut

Spec == Init /\ [][Next]_groupVars

\* Every search ends by itself (see Can for the one that has no timeout as a whole), a
\* cancelled task unwinds, and the event loop resumes whoever can go on.  Nobody has to
\* cut a call.
Fairness ==
    /\ WF_groupVars(\E t \in Tasks : \E r \in Can(t) : Answer(t, r))
    /\ WF_groupVars(\E t \in Tasks : Unwind(t))
    /\ WF_groupVars(Resume)
    /\ WF_groupVars(HandleCut)

FairSpec == Spec /\ Fairness

-----------------------------------------------------------------------------
(* What a call promises its caller *)

TypeOK ==
    /\ call.name \in Calls /\ call.traits \subseteq TraitsOf(call.name)
    /\ task \in [Tasks -> TaskStates]
    /\ pending \subseteq Tasks /\ todo \subseteq Tasks
    /\ holds \subseteq {"payloads", "hits", "secondary"}
    /\ cut \in {"no", "timer", "caller"}
    /\ outcome \in Outcomes

\* A search nobody waits for any more keeps no connection: when a call is over,
\* whichever way it ended, every task it started has ended or was told to.  The one
\* exception is the speculative search of Semantic Scholar, which no handler
\* cancels when the call itself is cut.
LeftBehind ==
    IF call.name = "semantic_scholar" /\ outcome = "cancelled" THEN {"openalex"} ELSE {}

NothingLeftRunning == Over => RunningTasks \subseteq LeftBehind

\* The searches a call owes its caller before it may say that there is nothing.  What
\* the registry's client has cached was owed by the call that cached it; that one keeps
\* an empty list also if both of its searches failed.
Owed ==
    CASE call.name \in {"search_all", "search_first"} -> Engines
      [] call.name = "semantic_scholar" -> {"semantic_scholar", "openalex"}
      [] call.name = "arxiv" -> {"arxiv", "fallback"}
      [] call.name = "asta_mcp" ->
             {"mcp"} \cup IF task["mcp"] = "none" THEN {} ELSE {"discovery"}
      [] call.name = "registry" ->
             {"registry", "direct", "open_web"} \cup IF IsUsPolicyQuery THEN {"federal"} ELSE {}
      [] call.name = "registry_client" -> IF Is("cached") THEN {} ELSE {"title", "broader"}
      [] call.name = "direct_sources" -> DirectSources
      [] call.name = "web_discovery" -> {"web", "news", "ddgs"} \cup SecondaryTasks
      [] call.name = "grounding" ->
             IF Is("direct") THEN {} ELSE {"resolution", "publisher"}
      [] call.name \in CompanyCalls -> OfficialSearches \cup IF ShouldQuerySec THEN {"sec"} ELSE {}
      [] call.name \in {"sec_fastest", "sec_prioritized"} -> SecSearches
      [] OTHER -> {}

\* "No hits" is an answer the engine believes: it may end the walk over the wordings
\* and the fallback.  It is given only when every search the call owes has ended by
\* itself, none of them cancelled or forgotten on the way.
EmptyIsThorough == outcome = "empty" => \A t \in Owed : task[t] \in Answers

\* Answers that are no find by themselves: links to follow, what is known of a company,
\* and, for search_live, investor-relations pages that do not score.
Leads ==
    {"news", "search", "ir_home", "target"} \cup IF call.name = "industry" THEN {"ir"} ELSE {}

\* What a search found is not lost on the way to "no hits", in whatever order the
\* searches ended: it did not survive the last ranking of all that was found.
FoundIsKept ==
    outcome = "empty" =>
        \A t \in Tasks \ Leads : task[t] \in {"hits", "weak"} =>
            task["rank"] = "none" /\ t \notin {"rank", "early"}

\* A call ends, cut or not: no await is for a task that was never started, and none
\* for one that never ends.
CallEnds == <>Over

\* tests/test_industry_live_adapter.py expects a news search to answer with what the
\* backup finds; the engine takes CancelledError from a source for its own
\* cancellation and gives up the whole retrieval.
CancelledOnlyByCaller == outcome = "cancelled" => cut = "caller"
=============================================================================
